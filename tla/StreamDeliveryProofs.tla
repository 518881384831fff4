------------------------ MODULE StreamDeliveryProofs ------------------------
(***************************************************************************)
(* What the abstract specification of a streamed answer means for the      *)
(* client that reads it.                                                   *)
(***************************************************************************)
EXTENDS StreamDelivery, TLAPS

DeliveryEvents ==
  {Event("chunk", n, role) : n \in Nat, role \in BOOLEAN} \cup Closing

DeliveryTypeOK ==
  /\ received \in Nat
  /\ out \in Seq(DeliveryEvents)

(* An event that is written is the last one, and those before it stay.     *)
LEMMA EventWritten ==
  ASSUME out \in Seq(DeliveryEvents), NEW e \in DeliveryEvents, out' = Append(out, e)
  PROVE  /\ out' \in Seq(DeliveryEvents)
         /\ Len(out) \in Nat
         /\ out'[Len(out) + 1] = e
         /\ \A i \in DOMAIN out' :
              \/ i \in DOMAIN out /\ out'[i] = out[i]
              \/ i = Len(out) + 1
  OBVIOUS

(* Content stays where it belongs when more is received, because nothing   *)
(* is received any more once the end has been announced.                   *)
LEMMA DeliveryStep ==
  ASSUME DeliveryTypeOK, Orderly, [DeliveryNext]_DeliveryVars
  PROVE  DeliveryTypeOK' /\ Orderly'
<1> USE DEF DeliveryTypeOK, Orderly
<1>1. CASE Receive \/ End \/ GiveUp \/ UNCHANGED DeliveryVars
  BY <1>1 DEF Receive, End, GiveUp, DeliveryVars
<1>2. CASE Deliver
  <2>1. PICK role \in BOOLEAN :
          /\ role => out = <<>>
          /\ out' = Append(out, Event("chunk", Len(out) + 1, role))
    BY <1>2 DEF Deliver
  <2>2. Event("chunk", Len(out) + 1, role) \in DeliveryEvents
    BY DEF DeliveryEvents
  <2>3. received' = received /\ over' = over /\ (role => Len(out) = 0)
    BY <1>2, <2>1 DEF Deliver
  <2> QED
    BY <2>1, <2>2, <2>3, EventWritten DEF Event
<1>3. CASE Stop
  <2>1. Event("stop", 0, FALSE) \in DeliveryEvents
    BY DEF DeliveryEvents, Closing
  <2> QED
    BY <1>3, <2>1, EventWritten DEF Stop, Complete, Event
<1>4. CASE Done
  <2>1. Event("done", 0, FALSE) \in DeliveryEvents
    BY DEF DeliveryEvents, Closing
  <2>2. over /\ Len(out) + 1 >= received + 1
    BY <1>4 DEF Done, Complete, InOut
  <2> QED
    BY <1>4, <2>1, <2>2, EventWritten DEF Done, Event
<1>5. CASE Fail
  <2>1. Event("error", 0, FALSE) \in DeliveryEvents
    BY DEF DeliveryEvents, Closing
  <2> QED
    BY <1>5, <2>1, EventWritten DEF Fail, Event
<1> QED
  BY <1>1, <1>2, <1>3, <1>4, <1>5 DEF DeliveryNext

(* Content in order, the role at the very beginning, the stop chunk and    *)
(* "[DONE]" after everything the service has sent.                         *)
THEOREM DeliveryIsOrderly == DeliverySpec => []Orderly
<1>1. DeliveryInit => DeliveryTypeOK /\ Orderly
  BY DEF DeliveryInit, DeliveryTypeOK, Orderly
<1> QED
  BY <1>1, DeliveryStep, PTL DEF DeliverySpec
=============================================================================
