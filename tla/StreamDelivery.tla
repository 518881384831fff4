--------------------------- MODULE StreamDelivery ---------------------------
(***************************************************************************)
(* What a streamed completion promises to the client, whatever goroutines  *)
(* lie between the service and the connection: a prefix of the content, in *)
(* order; a stop chunk and "[DONE]" only after all of it; at most one end. *)
(* StreamPipeline implements this specification.                           *)
(***************************************************************************)
EXTENDS Naturals, Sequences

CONSTANT MaxContent   \* bound: how many messages with content there are

VARIABLES
  received,  \* the number of messages with content the service has sent
  over,      \* whether it will send no more
  out,       \* the events written to the client
  finished   \* whether the handler has returned

DeliveryVars == <<received, over, out, finished>>

Event(kind, n, role) == [kind |-> kind, n |-> n, role |-> role]
Closing == {Event(kind, 0, FALSE) : kind \in {"stop", "done", "error"}}

InOut(kind) == \E i \in DOMAIN out : out[i].kind = kind

DeliveryInit ==
  /\ received = 0
  /\ over = FALSE
  /\ out = <<>>
  /\ finished = FALSE

\* The service sends content, and says with the last of it that it is over.
Receive ==
  /\ ~over
  /\ received < MaxContent
  /\ received' = received + 1
  /\ over' \in BOOLEAN
  /\ UNCHANGED <<out, finished>>

\* The service ends, or nobody listens to it any more.
End ==
  /\ ~over
  /\ over' = TRUE
  /\ UNCHANGED <<received, out, finished>>

\* The next chunk, of which only the first may announce the role.
Deliver ==
  /\ ~finished
  /\ Len(out) < received
  /\ \E role \in BOOLEAN :
       /\ role => out = <<>>
       /\ out' = Append(out, Event("chunk", Len(out) + 1, role))
  /\ UNCHANGED <<received, over, finished>>

\* Everything there is has been delivered; no stop chunk has been.
Complete == over /\ Len(out) = received

Stop ==
  /\ ~finished
  /\ Complete
  /\ out' = Append(out, Event("stop", 0, FALSE))
  /\ UNCHANGED <<received, over, finished>>

\* The end the client is told of: everything has been delivered.
Done ==
  /\ ~finished
  /\ Complete \/ InOut("stop")
  /\ out' = Append(out, Event("done", 0, FALSE))
  /\ finished' = TRUE
  /\ UNCHANGED <<received, over>>

Fail ==
  /\ ~finished
  /\ out' = Append(out, Event("error", 0, FALSE))
  /\ finished' = TRUE
  /\ UNCHANGED <<received, over>>

GiveUp ==
  /\ ~finished
  /\ finished' = TRUE
  /\ UNCHANGED <<received, over, out>>

DeliveryNext ==
  Receive \/ End \/ Deliver \/ Stop \/ Done \/ Fail \/ GiveUp

DeliverySpec == DeliveryInit /\ [][DeliveryNext]_DeliveryVars

-----------------------------------------------------------------------------
(* The order the client can rely on, as a consequence of the actions.      *)
Orderly ==
  \A i \in DOMAIN out :
    /\ out[i].kind = "chunk" => out[i].n = i /\ (out[i].role => i = 1)
    /\ out[i].kind = "stop" => over /\ i = received + 1
    /\ out[i].kind = "done" => over /\ i >= received + 1
=============================================================================
