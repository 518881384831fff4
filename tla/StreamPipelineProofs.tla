------------------------ MODULE StreamPipelineProofs ------------------------
(***************************************************************************)
(* Proofs about the three goroutines of a streamed completion, for every   *)
(* number of messages and either service.                                  *)
(***************************************************************************)
EXTENDS StreamPipeline, SequenceTheorems, TLAPS

Events == Chunks \cup {Stop, Done, Error}

(* Where a goroutine stands tells what it holds, and how far the others    *)
(* can be.                                                                 *)
Places ==
  /\ pumpItem = None <=> pump \notin {"send", "sendLast"}
  /\ relayItem = None <=> relay # "forward"
  /\ item = None <=> handler # "got"
  /\ relay = "start" => pump = "unborn"
  /\ pump = "unborn" => received = 0 /\ relay \notin {"receive", "forward"}
  /\ handler = "gotEnd" => relay = "done"

(* The stop chunk is the last thing the pump sends.                        *)
StopIsLast ==
  /\ relayItem = Stop => pump = "closed"
  /\ item = Stop => pump = "closed" /\ relayItem = None

(* Unless the context has ended, the relay leaves its loop after the pump. *)
RelayAfterPump ==
  ~cancelled /\ relay \in {"closeErrors", "closeResponses", "done"} =>
    pump \in {"unborn", "closed"}

(* What is under way: as long as the context has not ended and the handler *)
(* writes, the chunks written and those that the three goroutines hold are *)
(* all there are, in this order.  This is what a cancellation breaks, and  *)
(* why nothing may be written after it.                                    *)
Held(e) == IF e.kind = "chunk" THEN 1 ELSE 0

UnderWay ==
  /\ \A i \in DOMAIN out : out[i].kind = "chunk"
  /\ item.kind = "chunk" => item.n = Len(out) + 1
  /\ relayItem.kind = "chunk" => relayItem.n = Len(out) + Held(item) + 1
  /\ pumpItem.kind = "chunk" => pumpItem.n = received
  /\ received = Len(out) + Held(item) + Held(relayItem) + Held(pumpItem)

Stopped ==
  /\ pump = "closed" /\ relayItem = None /\ item = None
  /\ Written("chunk") = 1 .. received

Flow ==
  ~cancelled /\ handler # "returned" =>
    /\ Written("stop") = {} => UnderWay
    /\ Written("stop") # {} => Stopped

(* Only the first chunk announces the role.                                *)
RoleOfFirst ==
  \A c \in {pumpItem, relayItem, item} : c.role => c.n = 1

(* After "[DONE]" no content can come.                                     *)
DoneIsLast ==
  Written("done") # {} =>
    /\ handler = "returned" /\ relay = "done" /\ pump \in {"unborn", "closed"}
    /\ Written("chunk") = 1 .. received

PipelineInv ==
  /\ TypeOK
  /\ Places
  /\ StopIsLast
  /\ RelayAfterPump
  /\ Flow
  /\ RoleOfFirst
  /\ DoneIsLast
  /\ ContentInOrder

USE DEF pumpVars, relayVars, handlerVars

-----------------------------------------------------------------------------
(* Chunks and the other events are told apart by their kind.               *)
LEMMA Kinds ==
  /\ \A c \in Chunks : c.kind = "chunk" /\ c.n \in 1 .. MaxContent /\ c.role \in BOOLEAN
  /\ \A n \in 1 .. MaxContent, role \in BOOLEAN :
       Chunk(n, role) \in Chunks /\ Chunk(n, role).n = n /\ Chunk(n, role).role = role
  /\ Stop.kind = "stop" /\ Stop.role = FALSE
  /\ None.kind = "none" /\ None.role = FALSE
  /\ Done.kind = "done" /\ Error.kind = "error"
  BY DEF Chunks, Chunk, Stop, None, Done, Error, Marker

(* A goroutine holds one chunk or none.                                    *)
LEMMA HeldCounts ==
  /\ \A e : Held(e) \in {0, 1} /\ (Held(e) = 1 <=> e.kind = "chunk")
  /\ TypeOK => Len(out) \in Nat
  BY DEF Held, TypeOK

(* What an event adds to what has been written.                            *)
LEMMA WriteEvent ==
  ASSUME out \in Seq(Events), NEW e \in Events, out' = Append(out, e)
  PROVE  /\ out' \in Seq(Events)
         /\ Len(out') = Len(out) + 1
         /\ \A i \in DOMAIN out : i \in DOMAIN out' /\ out'[i] = out[i]
         /\ out'[Len(out) + 1] = e
         /\ \A i \in DOMAIN out' : i \in DOMAIN out \/ i = Len(out) + 1
         /\ \A kind : Written(kind)' =
              IF e.kind = kind THEN Written(kind) \cup {Len(out) + 1} ELSE Written(kind)
<1>1. /\ out' \in Seq(Events)
      /\ Len(out') = Len(out) + 1
      /\ \A i \in DOMAIN out : i \in DOMAIN out' /\ out'[i] = out[i]
      /\ out'[Len(out) + 1] = e
      /\ Len(out) + 1 \in DOMAIN out'
      /\ \A i \in DOMAIN out' : i \in DOMAIN out \/ i = Len(out) + 1
      /\ Len(out) + 1 \notin DOMAIN out
  OBVIOUS
<1>2. ASSUME NEW kind
      PROVE  Written(kind)' =
               IF e.kind = kind THEN Written(kind) \cup {Len(out) + 1} ELSE Written(kind)
  BY <1>1 DEF Written
<1> QED
  BY <1>1, <1>2

(* Return writes nothing or one event.                                     *)
LEMMA ReturnWrites ==
  ASSUME out \in Seq(Events)
  PROVE  /\ Return(<<>>) => out' = out /\ handler' = "returned" /\ item' = None
         /\ \A e \in Events :
              Return(<<e>>) => out' = Append(out, e) /\ handler' = "returned" /\ item' = None
<1>1. out \o <<>> = out
  BY ConcatEmptySeq
<1>2. \A e \in Events : out \o <<e>> = Append(out, e)
  BY AppendIsConcat
<1> QED
  BY <1>1, <1>2 DEF Return

(* Nothing is under way at the start.                                      *)
LEMMA InitPipeline == Init => PipelineInv
<1> SUFFICES ASSUME Init PROVE PipelineInv
  OBVIOUS
<1>1. out = <<>> /\ \A kind : Written(kind) = {}
  BY DEF Init, Written
<1>2. TypeOK
  <2>1. out \in Seq(Chunks \cup {Stop, Done, Error}) /\ received \in 0 .. MaxContent
    BY PipelineAssumption DEF Init
  <2> QED
    BY <2>1 DEF Init, TypeOK
<1> QED
  BY <1>1, <1>2, Kinds
  DEF Init, PipelineInv, Places, StopIsLast, RelayAfterPump, Flow, UnderWay, Held,
      RoleOfFirst, DoneIsLast, ContentInOrder

-----------------------------------------------------------------------------
(* Outside the handler nothing is written.                                 *)
LEMMA NothingWritten ==
  ASSUME UNCHANGED out
  PROVE  \A kind : Written(kind)' = Written(kind)
  BY DEF Written

(* The context ends: what is under way no longer counts.                   *)
LEMMA ContextEnds ==
  ASSUME PipelineInv, Disconnect \/ FinishRequest
  PROVE  PipelineInv'
<1>1. /\ cancelled' = TRUE
      /\ UNCHANGED <<backend, pumpVars, relayVars, handlerVars>>
  BY DEF Disconnect, FinishRequest
<1>2. TypeOK' /\ Places' /\ StopIsLast' /\ RoleOfFirst'
  BY <1>1 DEF PipelineInv, TypeOK, Places, StopIsLast, RoleOfFirst
<1>3. RelayAfterPump' /\ Flow'
  BY <1>1 DEF RelayAfterPump, Flow
<1>4. DoneIsLast' /\ ContentInOrder'
  BY <1>1, NothingWritten DEF PipelineInv, DoneIsLast, ContentInOrder
<1> QED
  BY <1>2, <1>3, <1>4 DEF PipelineInv

(* A message with content is received: it is the last of those under way.  *)
LEMMA PumpReceives ==
  ASSUME PipelineInv, RecvContent \/ RecvLast
  PROVE  PipelineInv'
<1> PICK role \in BOOLEAN :
         /\ pumpItem' = Chunk(received + 1, role)
         /\ role => received = 0
  BY DEF RecvContent, RecvLast, IsFirst
<1>1. /\ pump = "recv" /\ pump' \in {"send", "sendLast"}
      /\ received \in Nat /\ received + 1 \in 1 .. MaxContent /\ received' = received + 1
      /\ UNCHANGED <<backend, cancelled, broken, relay, relayItem, errs, handler, item, out>>
  BY PipelineAssumption DEF RecvContent, RecvLast, PipelineInv, TypeOK
<1>2. /\ pumpItem' \in Chunks
      /\ pumpItem'.kind = "chunk" /\ pumpItem'.n = received + 1 /\ pumpItem'.role = role
      /\ pumpItem' # None
  BY <1>1, Kinds
<1>3. TypeOK'
  BY <1>1, <1>2 DEF PipelineInv, TypeOK
<1>4. Places' /\ StopIsLast' /\ RelayAfterPump' /\ RoleOfFirst'
  BY <1>1, <1>2, Kinds DEF PipelineInv, Places, StopIsLast, RelayAfterPump, RoleOfFirst
<1>5. Flow'
  <2> USE DEF PipelineInv
  <2>1. pumpItem = None /\ Held(pumpItem) = 0 /\ Held(pumpItem)' = 1
    BY <1>1, <1>2, Kinds DEF PipelineInv, Places, Held
  <2>2. SUFFICES ASSUME ~cancelled, handler # "returned"
        PROVE  Written("stop") = {} /\ UnderWay'
    BY <1>1, NothingWritten DEF Flow
  <2>3. Written("stop") = {} /\ UnderWay
    BY <1>1, <2>2 DEF PipelineInv, Flow, Stopped
  <2>4. received' = Len(out) + Held(item) + Held(relayItem) + 1
    BY <1>1, <2>1, <2>3, HeldCounts DEF UnderWay
  <2> QED
    BY <1>1, <1>2, <2>1, <2>3, <2>4, NothingWritten DEF UnderWay, Held
<1>6. DoneIsLast' /\ ContentInOrder'
  BY <1>1, NothingWritten DEF PipelineInv, DoneIsLast, ContentInOrder
<1> QED
  BY <1>3, <1>4, <1>5, <1>6 DEF PipelineInv

(* The pump's other steps: only a cancelled send loses what it holds.      *)
LEMMA PumpMoves ==
  ASSUME PipelineInv,
         PumpCheck \/ RecvIncomplete \/ RecvFinal \/ RecvEnds \/ SendCancelled
  PROVE  PipelineInv'
<1>1. /\ \/ /\ pump \in {"check", "recv"} /\ pump' \in {"check", "recv", "sendStop", "closed"}
            /\ pumpItem' = pumpItem
         \/ /\ cancelled /\ pump \in {"send", "sendLast", "sendStop"} /\ pump' = "closed"
            /\ pumpItem' = None
      /\ broken' \in BOOLEAN
      /\ UNCHANGED <<backend, cancelled, received, relay, relayItem, errs, handler, item, out>>
  BY DEF PumpCheck, RecvIncomplete, RecvFinal, RecvEnds, SendCancelled, Sending,
         PipelineInv, TypeOK
<1>2. TypeOK'
  BY <1>1 DEF PipelineInv, TypeOK
<1>3. Places' /\ StopIsLast' /\ RelayAfterPump' /\ RoleOfFirst'
  BY <1>1, Kinds DEF PipelineInv, Places, StopIsLast, RelayAfterPump, RoleOfFirst
<1>4. Flow'
  BY <1>1, NothingWritten DEF PipelineInv, Flow, UnderWay, Stopped, Held
<1>5. DoneIsLast' /\ ContentInOrder'
  BY <1>1, NothingWritten DEF PipelineInv, DoneIsLast, ContentInOrder
<1> QED
  BY <1>2, <1>3, <1>4, <1>5 DEF PipelineInv

(* The pump hands over what it holds, or the stop chunk.                   *)
LEMMA PumpHandsOver ==
  ASSUME PipelineInv, PumpToRelay
  PROVE  PipelineInv'
<1> USE DEF PipelineInv
<1>1. /\ pump \in {"send", "sendLast", "sendStop"} /\ relay = "receive"
      /\ relay' = "forward" /\ pumpItem' = None
      /\ relayItem' = IF pump = "sendStop" THEN Stop ELSE pumpItem
      /\ pump' = CASE pump = "send" -> "check" [] pump = "sendLast" -> "sendStop"
                   [] pump = "sendStop" -> "closed"
      /\ UNCHANGED <<backend, cancelled, received, broken, errs, handler, item, out>>
  BY DEF PumpToRelay, Sending, AfterSend
<1>2. /\ pump # "sendStop" => relayItem' \in Chunks /\ pump' \in {"check", "sendStop"}
      /\ pump = "sendStop" => relayItem' = Stop /\ pump' = "closed"
  BY <1>1 DEF TypeOK, Places
<1>3. relayItem' # None /\ relayItem = None
  BY <1>1, <1>2, Kinds DEF Places
<1>4. TypeOK'
  BY <1>1, <1>2 DEF TypeOK
<1>5. Places' /\ StopIsLast' /\ RelayAfterPump' /\ RoleOfFirst'
  BY <1>1, <1>2, <1>3, Kinds DEF Places, StopIsLast, RelayAfterPump, RoleOfFirst
<1>6. Flow'
  <2>1. SUFFICES ASSUME ~cancelled, handler # "returned"
        PROVE  Written("stop") = {} /\ UnderWay'
    BY <1>1, NothingWritten DEF Flow
  <2>2. Written("stop") = {} /\ UnderWay
    BY <1>1, <2>1 DEF Flow, Stopped
  <2>3. /\ Held(relayItem) = 0 /\ Held(pumpItem)' = 0
        /\ Held(relayItem)' = Held(pumpItem) /\ Held(item)' = Held(item)
    BY <1>1, <1>2, <1>3, Kinds DEF Held, Places
  <2>4. relayItem'.kind = "chunk" => relayItem'.n = Len(out) + Held(item) + 1
    BY <1>1, <1>2, <2>2, <2>3, HeldCounts, Kinds DEF UnderWay, TypeOK
  <2>5. received = Len(out) + Held(item) + Held(relayItem)' + Held(pumpItem)'
    BY <2>2, <2>3, HeldCounts DEF UnderWay
  <2> QED
    BY <1>1, <2>2, <2>3, <2>4, <2>5, Kinds DEF UnderWay
<1>7. DoneIsLast' /\ ContentInOrder'
  BY <1>1, NothingWritten DEF DoneIsLast, ContentInOrder
<1> QED
  BY <1>4, <1>5, <1>6, <1>7

(* The relay starts the pump, or takes its leave: after the pump, or, once *)
(* the context has ended, with something in its hands.                     *)
LEMMA RelayMoves ==
  ASSUME PipelineInv, Relay
  PROVE  PipelineInv'
<1> USE DEF PipelineInv
<1>1. CASE StreamStarts
  <2>1. pumpItem = None /\ received = 0 /\ pump = "unborn"
    BY <1>1 DEF StreamStarts, Places
  <2>2. TypeOK' /\ Places' /\ StopIsLast' /\ RelayAfterPump' /\ RoleOfFirst'
    BY <1>1, <2>1
    DEF StreamStarts, TypeOK, Places, StopIsLast, RelayAfterPump, RoleOfFirst
  <2>3. Flow'
    BY <1>1, <2>1, NothingWritten DEF StreamStarts, Flow, UnderWay, Stopped, Held
  <2>4. DoneIsLast' /\ ContentInOrder'
    BY <1>1, NothingWritten DEF StreamStarts, DoneIsLast, ContentInOrder
  <2> QED
    BY <2>2, <2>3, <2>4
<1>2. CASE RelayCancelled
  <2>1. TypeOK' /\ Places' /\ StopIsLast' /\ RelayAfterPump' /\ RoleOfFirst'
    BY <1>2, Kinds
    DEF RelayCancelled, TypeOK, Places, StopIsLast, RelayAfterPump, RoleOfFirst
  <2>2. Flow'
    BY <1>2 DEF RelayCancelled, Flow
  <2>3. DoneIsLast' /\ ContentInOrder'
    BY <1>2, NothingWritten DEF RelayCancelled, DoneIsLast, ContentInOrder
  <2> QED
    BY <2>1, <2>2, <2>3
<1>3. CASE StreamFails \/ RelayEnds \/ CloseErrors \/ CloseResponses
  <2>1. /\ relay \in {"start", "receive", "closeErrors", "closeResponses"}
        /\ relay' \in {"closeErrors", "closeResponses", "done"}
        /\ relay \in {"start", "receive"} => pump \in {"unborn", "closed"}
        /\ errs' \in {"empty", "error", "closed", "errorClosed"}
        /\ UNCHANGED <<backend, cancelled, pumpVars, relayItem, handlerVars>>
    BY <1>3 DEF StreamFails, RelayEnds, CloseErrors, CloseResponses, Places, TypeOK
  <2>2. TypeOK'
    BY <2>1 DEF TypeOK
  <2>3. Places' /\ StopIsLast' /\ RelayAfterPump' /\ RoleOfFirst'
    BY <2>1 DEF Places, StopIsLast, RelayAfterPump, RoleOfFirst
  <2>4. Flow'
    BY <2>1, NothingWritten DEF Flow, UnderWay, Stopped, Held
  <2>5. DoneIsLast' /\ ContentInOrder'
    BY <2>1, NothingWritten DEF DoneIsLast, ContentInOrder
  <2> QED
    BY <2>2, <2>3, <2>4, <2>5
<1> QED
  BY <1>1, <1>2, <1>3 DEF Relay

(* The relay hands over what it holds.                                     *)
LEMMA RelayHandsOver ==
  ASSUME PipelineInv, RelayToHandler
  PROVE  PipelineInv'
<1> USE DEF PipelineInv
<1>1. /\ relay = "forward" /\ relay' = "receive" /\ handler = "select" /\ handler' = "got"
      /\ item' = relayItem /\ relayItem' = None
      /\ UNCHANGED <<backend, cancelled, pumpVars, errs, out>>
  BY DEF RelayToHandler
<1>2. relayItem \in Chunks \cup {Stop} /\ relayItem # None /\ item = None
  BY <1>1 DEF TypeOK, Places
<1>3. TypeOK'
  BY <1>1, <1>2 DEF TypeOK
<1>4. Places' /\ StopIsLast' /\ RelayAfterPump' /\ RoleOfFirst'
  BY <1>1, <1>2, Kinds DEF Places, StopIsLast, RelayAfterPump, RoleOfFirst
<1>5. Flow'
  <2>1. SUFFICES ASSUME ~cancelled
        PROVE  Written("stop") = {} /\ UnderWay'
    BY <1>1, NothingWritten DEF Flow
  <2>2. Written("stop") = {} /\ UnderWay
    BY <1>1, <1>2, <2>1 DEF Flow, Stopped
  <2>3. /\ Held(item) = 0 /\ Held(relayItem)' = 0
        /\ Held(item)' = Held(relayItem) /\ Held(pumpItem)' = Held(pumpItem)
    BY <1>1, <1>2, Kinds DEF Held
  <2>4. item'.kind = "chunk" => item'.n = Len(out) + 1
    BY <1>1, <2>2, <2>3, HeldCounts DEF UnderWay
  <2>5. received = Len(out) + Held(item)' + Held(relayItem)' + Held(pumpItem)'
    BY <2>2, <2>3, HeldCounts DEF UnderWay
  <2> QED
    BY <1>1, <2>2, <2>3, <2>4, <2>5, Kinds DEF UnderWay
<1>6. DoneIsLast' /\ ContentInOrder'
  BY <1>1, NothingWritten DEF DoneIsLast, ContentInOrder
<1> QED
  BY <1>3, <1>4, <1>5, <1>6

-----------------------------------------------------------------------------
(* The handler returns and writes nothing, or the error, on its way out.   *)
LEMMA HandlerGivesUp ==
  ASSUME PipelineInv, handler # "returned",
         HandlerCancelled \/ HandlerError \/ WriteFails \/
           (cancelled /\ (Finish \/ Write))
  PROVE  PipelineInv'
<1> USE DEF PipelineInv
<1>1. /\ handler' = "returned" /\ item' = None
      /\ out' = out \/ out' = Append(out, Error)
      /\ errs' \in {"empty", "error", "closed", "errorClosed"}
      /\ UNCHANGED <<backend, cancelled, pumpVars, relay, relayItem>>
  <2>1. out \in Seq(Events) /\ Error \in Events
    BY DEF TypeOK, Events
  <2> QED
    BY <2>1, ReturnWrites
    DEF HandlerCancelled, HandlerError, WriteFails, Finish, Write, TypeOK
<1>2. /\ out' \in Seq(Events)
      /\ Written("done")' = Written("done") /\ Written("chunk")' = Written("chunk")
      /\ ContentInOrder'
  <2>1. out \in Seq(Events) /\ Error \in Events
    BY DEF TypeOK, Events
  <2>2. CASE out' = out
    BY <2>1, <2>2, NothingWritten DEF ContentInOrder
  <2>3. CASE out' = Append(out, Error)
    BY <2>1, <2>3, WriteEvent, Kinds DEF ContentInOrder
  <2> QED
    BY <1>1, <2>2, <2>3
<1>3. TypeOK'
  BY <1>1, <1>2 DEF TypeOK, Events
<1>4. Places' /\ StopIsLast' /\ RelayAfterPump' /\ RoleOfFirst' /\ Flow'
  BY <1>1, Kinds DEF Places, StopIsLast, RelayAfterPump, RoleOfFirst, Flow
<1>5. DoneIsLast'
  BY <1>1, <1>2 DEF DoneIsLast
<1> QED
  BY <1>2, <1>3, <1>4, <1>5

(* The handler finds the channel closed only after all was written.        *)
LEMMA HandlerFindsTheEnd ==
  ASSUME PipelineInv, HandlerSeesEnd
  PROVE  PipelineInv'
<1> USE DEF PipelineInv
<1>1. /\ handler = "select" /\ handler' = "gotEnd" /\ relay = "done"
      /\ UNCHANGED <<backend, cancelled, pumpVars, relayVars, item, out>>
  BY DEF HandlerSeesEnd
<1>2. TypeOK' /\ Places' /\ StopIsLast' /\ RelayAfterPump' /\ RoleOfFirst'
  BY <1>1 DEF TypeOK, Places, StopIsLast, RelayAfterPump, RoleOfFirst
<1>3. Flow'
  BY <1>1, NothingWritten DEF Flow, UnderWay, Stopped, Held
<1>4. DoneIsLast' /\ ContentInOrder'
  BY <1>1, NothingWritten DEF DoneIsLast, ContentInOrder
<1> QED
  BY <1>2, <1>3, <1>4

(* At the end, with the context alive, everything received is written.     *)
LEMMA AllWritten ==
  ASSUME PipelineInv, ~cancelled, handler = "gotEnd"
  PROVE  /\ relay = "done" /\ pump \in {"unborn", "closed"}
         /\ Written("chunk") = 1 .. received
         /\ Written("stop") = {} => Len(out) = received
<1> USE DEF PipelineInv
<1>1. /\ relay = "done" /\ pump \in {"unborn", "closed"}
      /\ pumpItem = None /\ relayItem = None /\ item = None
  BY DEF Places, RelayAfterPump
<1>2. CASE Written("stop") # {}
  BY <1>1, <1>2 DEF Flow, Stopped
<1>3. CASE Written("stop") = {}
  <2>1. UnderWay /\ Held(pumpItem) = 0 /\ Held(relayItem) = 0 /\ Held(item) = 0
    BY <1>1, <1>3, Kinds DEF Flow, Held
  <2>2. received = Len(out)
    BY <2>1, HeldCounts DEF UnderWay
  <2>3. Written("chunk") = DOMAIN out /\ DOMAIN out = 1 .. Len(out)
    BY <2>1 DEF UnderWay, Written, TypeOK
  <2> QED
    BY <1>1, <2>2, <2>3
<1> QED
  BY <1>2, <1>3

(* What is written at the end follows all that was received.               *)
LEMMA HandlerFinishes ==
  ASSUME PipelineInv, Finish, ~cancelled
  PROVE  PipelineInv'
<1> USE DEF PipelineInv
<1>1. out \in Seq(Events) /\ Done \in Events
  BY DEF TypeOK, Events
<1>2. /\ handler = "gotEnd" /\ handler' = "returned" /\ item' = None
      /\ out' = Append(out, Done)
      /\ UNCHANGED <<backend, cancelled, pumpVars, relayVars>>
  BY <1>1, ReturnWrites DEF Finish
<1>3. /\ out' \in Seq(Events) /\ ContentInOrder'
      /\ Written("chunk")' = Written("chunk")
  BY <1>1, <1>2, WriteEvent, Kinds DEF ContentInOrder
<1>4. TypeOK'
  BY <1>2, <1>3 DEF TypeOK, Events
<1>5. Places' /\ StopIsLast' /\ RelayAfterPump' /\ RoleOfFirst' /\ Flow'
  BY <1>2, Kinds DEF Places, StopIsLast, RelayAfterPump, RoleOfFirst, Flow
<1>6. DoneIsLast'
  BY <1>2, <1>3, AllWritten DEF DoneIsLast
<1> QED
  BY <1>3, <1>4, <1>5, <1>6

(* The handler writes the next chunk, or the stop chunk after all of them. *)
LEMMA HandlerWritesOn ==
  ASSUME PipelineInv, Write, ~cancelled
  PROVE  /\ PipelineInv'
         /\ Written("stop") = {}
         /\ item.kind = "chunk" => Len(out) < received
         /\ item = Stop => Len(out) = received
<1> USE DEF PipelineInv
<1>1. /\ handler = "got" /\ handler' = "select" /\ item' = None
      /\ item # None /\ out' = Append(out, item)
      /\ UNCHANGED <<backend, cancelled, pumpVars, relayVars>>
  BY DEF Write, Places
<1>2. out \in Seq(Events) /\ item \in Events /\ item \in Chunks \cup {Stop}
  BY <1>1 DEF TypeOK, Events
<1>3. Written("stop") = {} /\ UnderWay
  BY <1>1 DEF Flow, Stopped
<1>4. /\ item.kind = "chunk" => Len(out) < received /\ item.n = Len(out) + 1
      /\ item = Stop => Len(out) = received /\ pump = "closed" /\ relayItem = None
  <2>1. item = Stop => /\ Held(item) = 0 /\ Held(relayItem) = 0 /\ Held(pumpItem) = 0
                       /\ pump = "closed" /\ relayItem = None
    BY Kinds DEF StopIsLast, Held, Places
  <2> QED
    BY <1>3, <2>1, HeldCounts DEF UnderWay, TypeOK
<1>5. TypeOK'
  BY <1>1, <1>2, WriteEvent DEF TypeOK, Events
<1>6. Places' /\ StopIsLast' /\ RelayAfterPump' /\ RoleOfFirst'
  BY <1>1, Kinds DEF Places, StopIsLast, RelayAfterPump, RoleOfFirst
<1>7. ContentInOrder'
  BY <1>1, <1>2, <1>4, WriteEvent DEF ContentInOrder
<1>8. DoneIsLast'
  BY <1>1, <1>2, Kinds, WriteEvent DEF DoneIsLast
<1>9. Flow'
  <2>1. CASE item = Stop
    <3>1. Written("chunk") = 1 .. received
      BY <1>2, <1>3, <1>4, <2>1 DEF Written, UnderWay
    <3>2. Written("chunk")' = Written("chunk") /\ Written("stop")' # {}
      <4>1. \A kind : Written(kind)' =
              IF item.kind = kind THEN Written(kind) \cup {Len(out) + 1} ELSE Written(kind)
        BY <1>1, <1>2, WriteEvent
      <4>2. item.kind = "stop"
        BY <2>1, Kinds
      <4> QED
        BY <4>1, <4>2
    <3> QED
      BY <1>1, <1>4, <2>1, <3>1, <3>2 DEF Flow, Stopped
  <2>2. CASE item \in Chunks
    <3>1. item.kind = "chunk" /\ Written("stop")' = {}
      BY <1>1, <1>2, <1>3, <2>2, Kinds, WriteEvent
    <3>2. \A i \in DOMAIN out' : out'[i].kind = "chunk"
      BY <1>1, <1>2, <1>3, <3>1, WriteEvent DEF UnderWay
    <3>3. /\ Held(item) = 1 /\ Held(item)' = 0 /\ Len(out') = Len(out) + 1
          /\ Held(relayItem)' = Held(relayItem) /\ Held(pumpItem)' = Held(pumpItem)
      BY <1>1, <1>2, <3>1, Kinds, WriteEvent DEF Held
    <3>4. /\ received = Len(out') + Held(item)' + Held(relayItem)' + Held(pumpItem)'
          /\ relayItem.kind = "chunk" => relayItem.n = Len(out') + Held(item)' + 1
      BY <1>3, <3>3, HeldCounts DEF UnderWay
    <3>5. UnderWay'
      BY <1>1, <1>3, <3>2, <3>4, Kinds DEF UnderWay
    <3> QED
      BY <3>1, <3>5 DEF Flow
  <2> QED
    BY <1>2, <2>1, <2>2
<1> QED
  BY <1>3, <1>4, <1>5, <1>6, <1>7, <1>8, <1>9

-----------------------------------------------------------------------------
(* No step of the three goroutines or of the context breaks the invariant. *)
LEMMA PipelineStep ==
  ASSUME PipelineInv, [Next]_vars
  PROVE  PipelineInv'
<1>1. CASE Disconnect \/ FinishRequest
  BY <1>1, ContextEnds
<1>2. CASE Pump
  BY <1>2, PumpReceives, PumpMoves DEF Pump, Recv
<1>3. CASE PumpToRelay
  BY <1>3, PumpHandsOver
<1>4. CASE Relay
  BY <1>4, RelayMoves
<1>5. CASE RelayToHandler
  BY <1>5, RelayHandsOver
<1>6. CASE Handler
  <2>1. CASE HandlerCancelled \/ HandlerError \/ WriteFails
    <3>1. handler # "returned"
      BY <2>1 DEF HandlerCancelled, HandlerError, WriteFails
    <3> QED
      BY <2>1, <3>1, HandlerGivesUp
  <2>2. CASE HandlerSeesEnd
    BY <2>2, HandlerFindsTheEnd
  <2>3. CASE Finish
    <3>1. handler # "returned"
      BY <2>3 DEF Finish
    <3> QED
      BY <2>3, <3>1, HandlerGivesUp, HandlerFinishes
  <2>4. CASE Write
    <3>1. handler # "returned"
      BY <2>4 DEF Write
    <3> QED
      BY <2>4, <3>1, HandlerGivesUp, HandlerWritesOn
  <2> QED
    BY <1>6, <2>1, <2>2, <2>3, <2>4 DEF Handler
<1>7. CASE UNCHANGED vars
  <2>1. UNCHANGED <<backend, cancelled, received, broken, pump, pumpItem, relay,
                    relayItem, errs, handler, item, out>>
    BY <1>7 DEF vars
  <2>2. TypeOK' /\ Places' /\ StopIsLast' /\ RelayAfterPump' /\ RoleOfFirst'
    BY <2>1 DEF PipelineInv, TypeOK, Places, StopIsLast, RelayAfterPump, RoleOfFirst
  <2>3. Flow' /\ DoneIsLast' /\ ContentInOrder'
    BY <2>1, NothingWritten
    DEF PipelineInv, Flow, UnderWay, Stopped, Held, DoneIsLast, ContentInOrder
  <2> QED
    BY <2>2, <2>3 DEF PipelineInv
<1> QED
  BY <1>1, <1>2, <1>3, <1>4, <1>5, <1>6, <1>7 DEF Next

(* The invariant holds from the first message to the return of all three.  *)
THEOREM PipelineInvariant == Spec => []PipelineInv
  BY InitPipeline, PipelineStep, PTL DEF Spec

(* The variables keep their types.                                         *)
THEOREM PipelineTypeCorrect == Spec => []TypeOK
<1>1. PipelineInv => TypeOK
  BY DEF PipelineInv
<1> QED
  BY <1>1, PipelineInvariant, PTL

(* Content reaches the client in the order it was received, with nothing   *)
(* missing in between.                                                     *)
THEOREM ContentArrivesInOrder == Spec => []ContentInOrder
<1>1. PipelineInv => ContentInOrder
  BY DEF PipelineInv
<1> QED
  BY <1>1, PipelineInvariant, PTL

(* "[DONE]" comes after all of the content.                                *)
THEOREM DoneComesLast == Spec => []DoneAfterContent
<1>1. PipelineInv => DoneAfterContent
  BY DEF PipelineInv, DoneIsLast, DoneAfterContent
<1> QED
  BY <1>1, PipelineInvariant, PTL

-----------------------------------------------------------------------------
(***************************************************************************)
(* The refinement.  Each step is one of StreamDelivery or leaves received, *)
(* Over, out and handler = "returned" as they are.                         *)
(***************************************************************************)
LEMMA SameEvents ==
  /\ \A c \in Chunks : c = Delivery!Event("chunk", c.n, c.role)
  /\ Stop = Delivery!Event("stop", 0, FALSE)
  /\ Done = Delivery!Event("done", 0, FALSE)
  /\ Error = Delivery!Event("error", 0, FALSE)
  BY DEF Chunks, Chunk, Stop, Done, Error, Marker, Delivery!Event

(* A step outside the handler receives, ends the stream, or is not seen.   *)
LEMMA PumpRefines ==
  ASSUME PipelineInv, Pump
  PROVE  Delivery!Receive \/ Delivery!End \/ UNCHANGED Delivery!DeliveryVars
<1>1. out' = out /\ handler' = handler
  BY DEF Pump, Recv, PumpCheck, RecvContent, RecvIncomplete, RecvLast, RecvFinal,
         RecvEnds, SendCancelled
<1>2. CASE RecvContent \/ RecvLast
  <2>1. /\ received < MaxContent /\ received' = received + 1
        /\ ~Over /\ Over' \in BOOLEAN
    BY <1>2 DEF RecvContent, RecvLast, Over
  <2> QED
    BY <1>1, <2>1 DEF Delivery!Receive
<1>3. CASE PumpCheck \/ RecvIncomplete \/ RecvFinal \/ RecvEnds \/ SendCancelled
  <2>1. /\ received' = received
        /\ (~Over /\ Over' = TRUE) \/ Over' = Over
    BY <1>3 DEF PumpCheck, RecvIncomplete, RecvFinal, RecvEnds, SendCancelled, Sending, Over
  <2> QED
    BY <1>1, <2>1 DEF Delivery!End, Delivery!DeliveryVars
<1> QED
  BY <1>2, <1>3 DEF Pump, Recv

(* What is handed from one goroutine to the next, the client does not see. *)
LEMMA HandOverRefines ==
  ASSUME PipelineInv,
         Disconnect \/ FinishRequest \/ PumpToRelay \/ Relay \/ RelayToHandler
  PROVE  Delivery!End \/ UNCHANGED Delivery!DeliveryVars
<1>1. /\ out' = out /\ received' = received
      /\ (handler' = "returned") = (handler = "returned")
  BY DEF Disconnect, FinishRequest, PumpToRelay, Relay, StreamStarts, StreamFails,
         RelayCancelled, RelayEnds, CloseErrors, CloseResponses, RelayToHandler
<1>2. (~Over /\ Over' = TRUE) \/ Over' = Over
  <2>1. CASE Disconnect \/ FinishRequest \/ RelayToHandler
    BY <2>1 DEF Disconnect, FinishRequest, RelayToHandler, Over, PipelineInv, Places
  <2>2. CASE PumpToRelay
    BY <2>2 DEF PumpToRelay, Sending, AfterSend, Over
  <2>3. CASE Relay
    BY <2>3 DEF Relay, StreamStarts, StreamFails, RelayCancelled, RelayEnds,
                CloseErrors, CloseResponses, Over, PipelineInv, Places
  <2> QED
    BY <2>1, <2>2, <2>3
<1> QED
  BY <1>1, <1>2 DEF Delivery!End, Delivery!DeliveryVars

(* A step of the handler delivers, tells of the end, gives up, or is not   *)
(* seen.                                                                   *)
LEMMA HandlerRefines ==
  ASSUME PipelineInv, Handler
  PROVE  Delivery!DeliveryNext \/ UNCHANGED Delivery!DeliveryVars
<1>1. out \in Seq(Events) /\ Done \in Events /\ Error \in Events
  BY DEF PipelineInv, TypeOK, Events
<1>2. received' = received /\ Over' = Over
  <2>1. UNCHANGED <<backend, cancelled, pumpVars, relay>>
    BY DEF Handler, HandlerCancelled, HandlerError, HandlerSeesEnd, Finish, Write, WriteFails
  <2> QED
    BY <2>1 DEF Over
<1>3. CASE HandlerCancelled \/ WriteFails \/ (cancelled /\ (Finish \/ Write))
  <2>1. handler # "returned" /\ handler' = "returned" /\ out' = out
    BY <1>1, <1>3, ReturnWrites DEF HandlerCancelled, WriteFails, Finish, Write
  <2> QED
    BY <1>2, <2>1 DEF Delivery!DeliveryNext, Delivery!GiveUp
<1>4. CASE HandlerError
  <2>1. /\ handler # "returned" /\ handler' = "returned"
        /\ out' = out \/ out' = Append(out, Error)
    BY <1>1, <1>4, ReturnWrites DEF HandlerError
  <2> QED
    BY <1>2, <2>1, SameEvents DEF Delivery!DeliveryNext, Delivery!GiveUp, Delivery!Fail
<1>5. CASE HandlerSeesEnd
  <2>1. handler = "select" /\ handler' = "gotEnd" /\ out' = out
    BY <1>5 DEF HandlerSeesEnd
  <2> QED
    BY <1>2, <2>1 DEF Delivery!DeliveryVars
<1>6. CASE Finish /\ ~cancelled
  <2>1. handler = "gotEnd" /\ handler' = "returned" /\ out' = Append(out, Done)
    BY <1>1, <1>6, ReturnWrites DEF Finish
  <2>2. Over
    BY <1>6, <2>1, AllWritten DEF Over
  <2>3. Delivery!Complete \/ Delivery!InOut("stop")
    BY <1>6, <2>1, <2>2, AllWritten
    DEF Delivery!Complete, Delivery!InOut, Written
  <2> QED
    BY <1>2, <2>1, <2>3, SameEvents DEF Delivery!DeliveryNext, Delivery!Done
<1>7. CASE Write /\ ~cancelled
  <2>1. /\ handler = "got" /\ handler' = "select" /\ out' = Append(out, item)
        /\ item \in Chunks \cup {Stop}
    BY <1>7 DEF Write, PipelineInv, Places, TypeOK
  <2>2. CASE item \in Chunks
    <3>1. UnderWay
      BY <1>7, <2>1, HandlerWritesOn DEF PipelineInv, Flow
    <3>2. /\ Len(out) < received /\ item.n = Len(out) + 1
          /\ item.role \in BOOLEAN /\ item.role => Len(out) = 0
      BY <1>7, <2>2, <3>1, HandlerWritesOn, HeldCounts, Kinds
      DEF UnderWay, PipelineInv, RoleOfFirst
    <3>3. item.role => out = <<>>
      BY <1>1, <3>2, EmptySeq
    <3>4. out' = Append(out, Delivery!Event("chunk", Len(out) + 1, item.role))
      BY <2>1, <2>2, <3>2, SameEvents
    <3>5. \E role \in BOOLEAN :
             /\ role => out = <<>>
             /\ out' = Append(out, Delivery!Event("chunk", Len(out) + 1, role))
      <4>1. CASE item.role = TRUE
        <5>1. out = <<>> /\ out' = Append(out, Delivery!Event("chunk", Len(out) + 1, TRUE))
          BY <3>3, <3>4, <4>1
        <5> QED
          BY <5>1
      <4>2. CASE item.role = FALSE
        <5>1. out' = Append(out, Delivery!Event("chunk", Len(out) + 1, FALSE))
          BY <3>4, <4>2
        <5> QED
          BY <5>1
      <4>3. item.role = TRUE \/ item.role = FALSE
        BY <3>2
      <4> QED
        BY <4>1, <4>2, <4>3
    <3>6. Delivery!Deliver
      BY <1>2, <2>1, <3>2, <3>5 DEF Delivery!Deliver
    <3> QED
      BY <3>6 DEF Delivery!DeliveryNext
  <2>3. CASE item = Stop
    <3>1. Len(out) = received /\ Over
      BY <1>7, <2>3, HandlerWritesOn DEF PipelineInv, StopIsLast, Over
    <3> QED
      BY <1>2, <2>1, <2>3, <3>1, SameEvents
      DEF Delivery!DeliveryNext, Delivery!Stop, Delivery!Complete
  <2> QED
    BY <2>1, <2>2, <2>3
<1> QED
  BY <1>3, <1>4, <1>5, <1>6, <1>7 DEF Handler

(* The goroutines implement a stream: whatever they do, the client sees a  *)
(* behaviour of StreamDelivery.                                            *)
THEOREM PipelineImplementsDelivery == Spec => ImplementsDelivery
<1>1. Init => Delivery!DeliveryInit
  BY DEF Init, Over, Delivery!DeliveryInit
<1>2. PipelineInv /\ [Next]_vars => [Delivery!DeliveryNext]_(Delivery!DeliveryVars)
  <2>1. CASE UNCHANGED vars
    BY <2>1 DEF vars, Delivery!DeliveryVars, Over
  <2> QED
    BY <2>1, PumpRefines, HandOverRefines, HandlerRefines
    DEF Next, Delivery!DeliveryNext
<1> QED
  BY <1>1, <1>2, PipelineInvariant, PTL DEF Spec, ImplementsDelivery, Delivery!DeliverySpec
=============================================================================
