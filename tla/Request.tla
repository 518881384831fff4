------------------------------ MODULE Request ------------------------------
(***************************************************************************)
(* A request from its arrival to its answer: the gate of middlewares and   *)
(* routes, and the completion that it may lead to.                         *)
(***************************************************************************)
EXTENDS Completion

CONSTANT Prefix   \* the segments of API_PREFIX

\* An empty API_PREFIX makes chi panic at start-up.
ASSUME PrefixAssumption == Prefix \in Seq(STRING) /\ Prefix # <<>>

VARIABLES conf, at, method, path, mount, shown, strict, named, status

G == INSTANCE Gate

gate == <<conf, at, method, path, mount, shown, strict, named, status>>
completion == vars

-----------------------------------------------------------------------------
RequestInit == Init /\ G!Init

\* A body may name any model, and may be no request at all; behind a model
\* route it is the one that WithModel has written.
Handle ==
  /\ at = "called"
  /\ \/ mount.kind = "model" /\ HandleCompletion(named)
     \/ /\ mount.kind # "model"
        /\ RefuseBody \/ \E m \in Names \cup {NoName} : HandleCompletion(m)
  /\ UNCHANGED gate

RequestNext ==
  \/ G!Next /\ UNCHANGED completion
  \/ Handle
  \/ Complete /\ UNCHANGED gate

RequestSpec == RequestInit /\ [][RequestNext]_<<gate, completion>>

-----------------------------------------------------------------------------
RequestTypeOK == TypeOK /\ G!TypeOK
KeyBeforeService == G!KeyBeforeService
StandardIsStrict == G!StandardIsStrict

(* Behind a model route the model is settled before the retry loop looks   *)
(* at it: a request is never told that its model is not supported, nor is  *)
(* it answered by DEFAULT_MODEL in place of the model of the route.        *)
RouteModelServed ==
  mount.kind = "model" /\ at = "called" =>
    /\ reply.kind # "apiError"
    /\ \A k \in DOMAIN sent : sent[k].model = BuildRequest(asked).model
    /\ reply.kind \in {"answer", "stream"} => Normalize(reply.model) = Normalize(asked)
=============================================================================
