--------------------------- MODULE RequestProofs ---------------------------
(***************************************************************************)
(* Proofs about a request from the router to the call: for every list of   *)
(* models, every API_PREFIX, every MAX_RETRIES and every conversation.     *)
(***************************************************************************)
EXTENDS Request, WellFoundedInduction, SequenceTheorems, TLAPS

-----------------------------------------------------------------------------
(***************************************************************************)
(* The completion.  A call is made once because nothing an attempt fails   *)
(* with has a status that ShouldRetry looks for: after the first attempt   *)
(* the request has always returned.                                        *)
(***************************************************************************)
Unsent == pc \in {"unread", "loop", "resolve", "connect", "call"}

OneAttempt ==
  /\ attempt \in Nat
  /\ Unsent => sent = <<>>
  /\ Len(sent) <= 1
  /\ pc \in {"resolve", "connect", "call", "calling"} => maxRetries > 0 \/ stream
  /\ sent # <<>> => maxRetries > 0 \/ stream
  /\ pc = "unread" => stream = FALSE

(* The model is settled before the connection is asked for.                *)
Named ==
  /\ model \in Names \cup {NoName}
  /\ defaultModel \in {NoName} \cup {m \in Names : IsModelSupported(m)}
  /\ pc \in {"connect", "call"} => IsModelSupported(model)
  /\ ModelSentIsListed

CompletionInv ==
  /\ maxRetries \in Int
  /\ pc = "unread" => sent = <<>>
  /\ OneAttempt
  /\ Named

USE DEF settings, request

(* Normalizing a name is done once: again it changes nothing.              *)
LEMMA NormalizeOnce ==
  /\ \A m \in Names \cup {NoName} :
       /\ Normalize(m) \in Names \cup {NoName}
       /\ Normalize(Normalize(m)) = Normalize(m)
       /\ IsGPTModel(m) => Normalize(m) = m
       /\ IsModelSupported(Normalize(m)) <=> IsModelSupported(m)
  BY DEF Normalize, Names, NoName, IsGPTModel, IsModelSupported

(* Every error that an attempt ends with ends the request as well.         *)
LEMMA FailReturns ==
  /\ \A cause \in Causes : Fail(Wrap(cause)) => pc' = "returned" /\ attempt' = attempt
  /\ Fail(APIError) => pc' = "returned" /\ attempt' = attempt
<1>1. \A cause \in Causes : Outcomes(Wrap(cause)) = {Wrap(cause)} /\ Wrap(cause) # NoReply
  BY DEF Outcomes, ShouldRetry, Retryable, Wrap, Failure, Reply, NoReply
<1>2. Outcomes(APIError) = {APIError} /\ APIError # NoReply
  BY DEF Outcomes, ShouldRetry, Retryable, APIError, Reply, NoReply
<1> QED
  BY <1>1, <1>2 DEF Fail

(* A completion that has not begun has sent nothing.                       *)
LEMMA InitCompletion == Init => CompletionInv
  BY CompletionAssumption
  DEF Init, CompletionInv, OneAttempt, Unsent, Named, ModelSentIsListed

(* Only Call sends, and it sends a name that the list has.                 *)
LEMMA CallSends ==
  ASSUME CompletionInv, Call
  PROVE  CompletionInv'
<1> USE DEF CompletionInv
<1>1. pc = "call" /\ pc' = "calling" /\ sent = <<>> /\ sent' = <<BuildRequest(model)>>
  BY DEF Call, OneAttempt, Unsent
<1>2. UNCHANGED <<request, model, attempt>>
  BY DEF Call
<1>3. OneAttempt'
  BY <1>1, <1>2 DEF OneAttempt, Unsent
<1>4. BuildRequest(model).model \in SupportedModels
  BY <1>1, NormalizeOnce DEF Named, BuildRequest, Built, IsModelSupported
<1>5. Named'
  BY <1>1, <1>2, <1>4 DEF Named, ModelSentIsListed
<1> QED
  BY <1>1, <1>2, <1>3, <1>5

(* A body that is decoded begins the completion with whatever it names.    *)
LEMMA HandleBegins ==
  ASSUME CompletionInv, NEW m \in Names \cup {NoName}, HandleCompletion(m)
  PROVE  CompletionInv'
<1> USE DEF CompletionInv
<1>1. /\ pc = "unread" /\ pc' \in {"returned", "resolve", "loop"}
      /\ pc' = "resolve" => stream'
      /\ model' = m
      /\ UNCHANGED <<settings, attempt, sent>>
  BY DEF HandleCompletion
<1>2. OneAttempt'
  BY <1>1 DEF OneAttempt, Unsent
<1>3. Named'
  BY <1>1 DEF Named, ModelSentIsListed
<1> QED
  BY <1>1, <1>2, <1>3

(* Resolve leaves a name that is supported, or returns.                    *)
LEMMA ResolveSettles ==
  ASSUME CompletionInv, Resolve
  PROVE  CompletionInv'
<1> USE DEF CompletionInv
<1>1. /\ pc = "resolve" /\ pc' \in {"connect", "returned"}
      /\ attempt' = attempt
      /\ UNCHANGED <<request, sent>>
      /\ pc' = "connect" => IsModelSupported(model) \/ defaultModel # NoName
  BY FailReturns DEF Resolve
<1>2. /\ model' \in Names \cup {NoName}
      /\ pc' = "connect" => IsModelSupported(model')
  BY <1>1, NormalizeOnce DEF Resolve, Named
<1>3. OneAttempt'
  BY <1>1 DEF OneAttempt, Unsent
<1>4. Named'
  BY <1>1, <1>2 DEF Named, ModelSentIsListed, IsModelSupported
<1> QED
  BY <1>1, <1>3, <1>4

(* The other steps send nothing, and settle no name.                       *)
LEMMA OtherSteps ==
  ASSUME CompletionInv,
         RefuseBody \/ Attempt \/ GiveUp \/ Connected \/ NoConnection
           \/ CallAnswers \/ CallFails \/ UNCHANGED vars
  PROVE  CompletionInv'
<1> USE DEF CompletionInv
<1>1. UNCHANGED <<settings, stream, model, sent>> /\ attempt' = attempt
  <2>1. CASE NoConnection
    BY <2>1, FailReturns DEF NoConnection, Causes
  <2>2. CASE CallFails
    BY <2>2, FailReturns DEF CallFails
  <2> QED
    BY <2>1, <2>2 DEF RefuseBody, Attempt, GiveUp, Connected, CallAnswers, vars
<1>2. \/ pc' = pc
      \/ pc' = "returned"
      \/ pc = "loop" /\ pc' = "resolve" /\ maxRetries > 0
      \/ pc = "connect" /\ pc' = "call"
  <2>1. CASE NoConnection
    BY <2>1, FailReturns DEF NoConnection, Causes
  <2>2. CASE CallFails
    BY <2>2, FailReturns DEF CallFails
  <2>3. CASE Attempt
    BY <2>3 DEF Attempt, OneAttempt
  <2> QED
    BY <2>1, <2>2, <2>3 DEF RefuseBody, GiveUp, Connected, CallAnswers, vars
<1>3. OneAttempt'
  BY <1>1, <1>2 DEF OneAttempt, Unsent
<1>4. Named'
  BY <1>1, <1>2 DEF Named, ModelSentIsListed
<1> QED
  BY <1>1, <1>2, <1>3, <1>4 DEF OneAttempt, Unsent

(* No step of the completion breaks its invariant.                         *)
LEMMA CompletionStep ==
  ASSUME CompletionInv, Complete \/ UNCHANGED vars
  PROVE  CompletionInv'
  BY CallSends, ResolveSettles, OtherSteps DEF Complete

-----------------------------------------------------------------------------
(***************************************************************************)
(* The gate.  A path has an owner, because one of its mounts is longest.   *)
(***************************************************************************)
(* A bounded set of numbers has a greatest one.                            *)
LEMMA MaxExists ==
  ASSUME NEW S, S \subseteq Nat, S # {}, NEW b \in Nat, \A x \in S : x <= b
  PROVE  \E m \in S : \A x \in S : x <= m
<1> DEFINE T == {b - x : x \in S}
<1>1. \A x \in S : x \in Nat /\ b - x \in Nat /\ b - x \in T
  OBVIOUS
<1>2. T \subseteq Nat /\ T # {}
  BY <1>1
<1>3. PICK t \in T : \A y \in T : ~(<<y, t>> \in OpToRel(<, Nat))
  BY <1>2, NatLessThanWellFounded, WFMin
<1>4. \A y \in T : ~(y < t)
  BY <1>2, <1>3 DEF OpToRel
<1>5. PICK m \in S : t = b - m
  OBVIOUS
<1> HIDE DEF T
<1>6. ASSUME NEW x \in S PROVE x <= m
  BY <1>1, <1>4, <1>5
<1> QED
  BY <1>6

(* Both halves read the same list of models.                               *)
LEMMA SameModels ==
  /\ G!Names = Names /\ G!NoName = NoName /\ G!SupportedModels = SupportedModels
  /\ \A m : G!Normalize(m) = Normalize(m)
  /\ \A m : G!IsModelSupported(m) <=> IsModelSupported(m)
  BY DEF G!Names, Names, G!NoName, NoName, G!SupportedModels, SupportedModels,
         G!Normalize, Normalize, G!IsModelSupported, IsModelSupported, G!ToSet, ToSet

Words ==
  {Prefix[i] : i \in DOMAIN Prefix}
    \cup {"chat", "completions", "admin", "ping", "models", "blacklist"}
    \cup {G!Slug(m) : m \in Names}

Kinds == {"root", "api", "model", "foolproof", "admin"}

(* The routes of models go by names.                                       *)
LEMMA RouteNamesAreNames == G!RouteNames \subseteq Names
<1>1. SupportedModels \subseteq Names
  BY ModelsAssumption DEF SupportedModels, ToSet
<1>2. \A n \in Names : [n EXCEPT !.date = "dash"] \in Names
  BY DEF Names
<1>3. ASSUME NEW x \in G!RouteNames
      PROVE  x \in SupportedModels \/ \E n \in SupportedModels : x = [n EXCEPT !.date = "dash"]
  BY SameModels DEF G!RouteNames
<1> QED
  BY <1>1, <1>2, <1>3

(* The prefix and the ends of paths are sequences of words.                *)
LEMMA PathsAreSequences ==
  /\ Prefix \in Seq(Words)
  /\ G!Combinations \subseteq Seq(Words)
  /\ G!Chat \in Seq(Words) /\ Len(G!Chat) = 2
<1>1. Prefix \in Seq(Words) /\ <<>> \in Seq(Words)
  <2>1. /\ Prefix \in [1 .. Len(Prefix) -> STRING] /\ Len(Prefix) \in Nat
        /\ DOMAIN Prefix = 1 .. Len(Prefix)
    BY PrefixAssumption
  <2>2. \A i \in 1 .. Len(Prefix) : Prefix[i] \in Words
    BY <2>1 DEF Words
  <2>3. Prefix \in [1 .. Len(Prefix) -> Words]
    BY <2>1, <2>2
  <2> QED
    BY <2>1, <2>3
<1>2. G!Segments \subseteq Seq(Words) /\ G!Chat \in Seq(Words) /\ Len(G!Chat) = 2
  <2>1. "chat" \in Words /\ "completions" \in Words
    BY DEF Words
  <2>2. <<"chat", "completions">> \in Seq(Words) /\ <<"completions">> \in Seq(Words)
    BY <2>1
  <2> QED
    BY <2>2 DEF G!Segments, G!Chat
<1>3. G!Combinations \subseteq Seq(Words)
  <2>1. \A p, q \in Seq(Words) : p \o q \in Seq(Words)
    BY ConcatProperties
  <2>2. G!Ends \subseteq Seq(Words)
    <3>1. SUFFICES ASSUME NEW x \in G!Ends PROVE x \in Seq(Words)
      OBVIOUS
    <3>2. PICK p \in {<<>>, Prefix}, s \in G!Segments : x = p \o s
      BY DEF G!Ends
    <3> QED
      BY <1>1, <1>2, <2>1, <3>2
  <2>3. SUFFICES ASSUME NEW x \in G!Combinations PROVE x \in Seq(Words)
    OBVIOUS
  <2>4. CASE x \in G!Ends
    BY <2>2, <2>4
  <2>5. CASE \E s, t \in G!Ends : x = s \o t
    BY <2>1, <2>2, <2>5
  <2> QED
    BY <2>4, <2>5 DEF G!Combinations
<1> QED
  BY <1>1, <1>2, <1>3

(* What is known of a mount of any configuration.                          *)
LEMMA MountShape ==
  ASSUME NEW o \in G!Mounts
  PROVE  /\ o.kind \in Kinds
         /\ o.model \in Names \cup {NoName}
         /\ o.segs \in Seq(Words)
         /\ o.kind = "model" => Len(o.segs) = Len(Prefix) + 1
         /\ o.kind = "foolproof" => o.segs \in G!FoolproofPaths
<1>1. CASE o \in {G!Root, G!Mount("api", NoName, Prefix), G!Mount("admin", NoName, <<"admin">>)}
  <2>1. "admin" \in Words
    BY DEF Words
  <2>2. <<"admin">> \in Seq(Words) /\ <<>> \in Seq(Words)
    BY <2>1
  <2>3. /\ o.kind \in {"root", "api", "admin"} /\ o.model = NoName
        /\ o.segs \in {<<>>, Prefix, <<"admin">>}
    BY <1>1, SameModels DEF G!Root, G!Mount
  <2> QED
    BY <2>2, <2>3, PathsAreSequences DEF Kinds
<1>2. CASE \E m \in G!RouteNames : o = G!Mount("model", m, <<G!Slug(m)>> \o Prefix)
  <2>1. PICK m \in G!RouteNames : o = G!Mount("model", m, <<G!Slug(m)>> \o Prefix)
    BY <1>2
  <2>2. m \in Names /\ <<G!Slug(m)>> \in Seq(Words)
    BY RouteNamesAreNames DEF Words
  <2>3. /\ <<G!Slug(m)>> \o Prefix \in Seq(Words)
        /\ Len(<<G!Slug(m)>> \o Prefix) = Len(Prefix) + 1
    BY <2>2, PathsAreSequences
  <2> QED
    BY <2>1, <2>2, <2>3 DEF G!Mount, Kinds
<1>3. CASE \E s \in G!FoolproofPaths : o = G!Mount("foolproof", NoName, s)
  BY <1>3, PathsAreSequences DEF G!Mount, G!FoolproofPaths, Kinds
<1>4. \/ o \in {G!Root, G!Mount("api", NoName, Prefix), G!Mount("admin", NoName, <<"admin">>)}
      \/ \E m \in G!RouteNames : o = G!Mount("model", m, <<G!Slug(m)>> \o Prefix)
      \/ \E s \in G!FoolproofPaths : o = G!Mount("foolproof", NoName, s)
  BY SameModels DEF G!Mounts
<1> QED
  BY <1>1, <1>2, <1>3, <1>4

(* The owner of a path is a mount whose prefix it has.                     *)
LEMMA OwnerIsMount ==
  ASSUME NEW p \in Seq(Words)
  PROVE  G!Owner(p) \in G!Mounts /\ IsPrefix(G!Owner(p).segs, p)
<1> DEFINE Fit == {o \in G!Mounts : IsPrefix(o.segs, p)}
           L == {Len(o.segs) : o \in Fit}
<1>1. \A o \in Fit : Len(o.segs) \in Nat /\ Len(o.segs) <= Len(p)
  BY MountShape DEF IsPrefix
<1>2. G!Root \in Fit
  <2>1. G!Root \in G!Mounts /\ G!Root.segs = <<>>
    BY DEF G!Mounts, G!Root, G!Mount
  <2>2. IsPrefix(<<>>, p)
    BY DEF IsPrefix
  <2> QED
    BY <2>1, <2>2
<1>3. L \subseteq Nat /\ L # {} /\ Len(p) \in Nat /\ \A x \in L : x <= Len(p)
  <2>1. Len(p) \in Nat
    OBVIOUS
  <2>2. \A x \in L : \E o \in Fit : x = Len(o.segs)
    OBVIOUS
  <2>3. Len(G!Root.segs) \in L
    BY <1>2
  <2> HIDE DEF L, Fit
  <2> QED
    BY <1>1, <2>1, <2>2, <2>3
<1>4. PICK max \in L : \A x \in L : x <= max
  <2> HIDE DEF L
  <2> QED
    BY <1>3, MaxExists
<1>5. PICK o \in Fit : Len(o.segs) = max
  OBVIOUS
<1>6. /\ o \in G!Mounts /\ IsPrefix(o.segs, p)
      /\ \A n \in G!Mounts : IsPrefix(n.segs, p) => Len(n.segs) <= Len(o.segs)
  BY <1>4, <1>5
<1> QED
  BY <1>6 DEF G!Owner, G!IsPrefix, IsPrefix

-----------------------------------------------------------------------------
(* The key that the sub-router asks for has been shown.                    *)
Keyed == G!NeedsKey(mount.kind) \in {"none", shown}

Routed ==
  /\ mount \in G!Mounts
  /\ path \in Seq(Words)
  /\ IsPrefix(mount.segs, path)

(* What is settled where, on the way to a handler.  The handler is called  *)
(* by three sub-routers, each of which leaves its own trace of the path.   *)
Passed ==
  /\ at \in {"auth", "dispatch"} => Routed
  /\ at \in {"dispatch", "strict", "withModel", "handler", "list", "file"} => Keyed
  /\ at \in {"strict", "list"} => mount.kind = "api"
  /\ at = "file" => mount.kind = "admin"
  /\ at = "withModel" => mount.kind = "model" /\ Len(path) = Len(Prefix) + 3
  /\ at = "handler" =>
       \/ mount.kind = "api" /\ strict
       \/ mount.kind = "model" /\ Len(path) = Len(Prefix) + 3
       \/ mount.kind = "foolproof" /\ path \in G!FoolproofPaths

GateInv ==
  /\ conf \in [key : BOOLEAN, modelRoute : BOOLEAN, foolproof : BOOLEAN]
  /\ named \in Names \cup {NoName}
  /\ mount.model \in Names \cup {NoName}
  /\ Passed

(* A request arrives with nothing looked at.                               *)
LEMMA InitGate == G!Init => GateInv
  BY SameModels
  DEF G!Init, G!Root, G!Mount, GateInv, Passed

(* Where a request can go from each sub-router.                            *)
LEMMA Served ==
  ASSUME mount.kind \in Kinds, NEW e \in G!Endpoints[mount.kind]
  PROVE  /\ e.next \in {"health", "ping", "strict", "list", "withModel", "handler", "file"}
         /\ e.next \in {"strict", "list"} => mount.kind = "api"
         /\ e.next = "withModel" => mount.kind = "model" /\ e.rest = G!Chat
         /\ e.next = "handler" => mount.kind = "foolproof" /\ e.rest = <<>>
         /\ e.next = "file" => mount.kind = "admin"
  BY DEF G!Endpoints, G!Endpoint, Kinds

(* A path is its mount and the rest.                                       *)
LEMMA RestOfPath ==
  ASSUME NEW p \in Seq(Words), NEW s \in Seq(Words), IsPrefix(s, p)
  PROVE  /\ Len(SubSeq(p, Len(s) + 1, Len(p))) = Len(p) - Len(s)
         /\ SubSeq(p, Len(s) + 1, Len(p)) = <<>> => p = s
<1>1. /\ Len(s) \in Nat /\ Len(p) \in Nat /\ Len(s) <= Len(p)
      /\ Len(SubSeq(p, Len(s) + 1, Len(p))) = Len(p) - Len(s)
  BY DEF IsPrefix
<1>2. ASSUME Len(p) = Len(s) PROVE p = s
  <2>1. SubSeq(p, 1, Len(p)) = p /\ SubSeq(s, 1, Len(s)) = s
    BY SubSeqFull
  <2> QED
    BY <1>2, <2>1 DEF IsPrefix
<1>3. ASSUME SubSeq(p, Len(s) + 1, Len(p)) = <<>> PROVE Len(p) = Len(s)
  <2>1. Len(SubSeq(p, Len(s) + 1, Len(p))) = 0
    BY <1>3, EmptySeq
  <2> QED
    BY <1>1, <2>1
<1> QED
  BY <1>1, <1>2, <1>3

(* A request is only passed on to what its sub-router serves.              *)
LEMMA DispatchPasses ==
  ASSUME GateInv, G!Dispatch
  PROVE  GateInv'
<1> USE DEF GateInv
<1> DEFINE rest == SubSeq(path, Len(mount.segs) + 1, Len(path))
<1>1. /\ at = "dispatch" /\ Routed /\ Keyed
      /\ UNCHANGED <<conf, path, mount, shown, strict, named>>
  BY DEF G!Dispatch, Passed
<1>2. at' = "replied" \/ \E e \in G!Endpoints[mount.kind] : e.rest = rest /\ at' = e.next
  BY DEF G!Dispatch, G!Reply, G!Pass
<1>3. CASE at' = "replied"
  BY <1>1, <1>3 DEF Passed
<1>4. CASE \E e \in G!Endpoints[mount.kind] : e.rest = rest /\ at' = e.next
  <2>1. PICK e \in G!Endpoints[mount.kind] : e.rest = rest /\ at' = e.next
    BY <1>4
  <2>2. /\ mount.kind \in Kinds /\ mount.segs \in Seq(Words)
        /\ mount.kind = "model" => Len(mount.segs) = Len(Prefix) + 1
        /\ mount.kind = "foolproof" => mount.segs \in G!FoolproofPaths
    BY <1>1, MountShape DEF Routed
  <2>3. /\ Len(rest) = Len(path) - Len(mount.segs)
        /\ rest = <<>> => path = mount.segs
    <3> HIDE DEF rest
    <3> QED
      BY <1>1, <2>2, RestOfPath DEF Routed, rest
  <2>4. at' = "withModel" => mount.kind = "model" /\ Len(path) = Len(Prefix) + 3
    <3>1. Len(path) \in Nat /\ Len(Prefix) \in Nat /\ Len(G!Chat) = 2
      BY <1>1, PathsAreSequences DEF Routed
    <3>2. at' = "withModel" => mount.kind = "model" /\ e.rest = G!Chat
      BY <2>1, <2>2, Served
    <3>3. e.rest = G!Chat => Len(rest) = 2
      BY <2>1, <3>1
    <3> HIDE DEF rest
    <3> QED
      BY <2>2, <2>3, <3>1, <3>2, <3>3
  <2>5. at' = "handler" => mount.kind = "foolproof" /\ path \in G!FoolproofPaths
    BY <2>1, <2>2, <2>3, Served
  <2>6. /\ at' \in {"health", "ping", "strict", "list", "withModel", "handler", "file"}
        /\ at' \in {"strict", "list"} => mount.kind = "api"
        /\ at' = "file" => mount.kind = "admin"
    BY <2>1, <2>2, Served
  <2>7. Keyed'
    BY <1>1 DEF Keyed, G!NeedsKey
  <2> QED
    BY <1>1, <2>4, <2>5, <2>6, <2>7 DEF Passed
<1> QED
  BY <1>2, <1>3, <1>4

(* The router finds a mount, and forgets no part of it.                    *)
LEMMA RoutePasses ==
  ASSUME GateInv, G!Route
  PROVE  GateInv'
<1> USE DEF GateInv
<1>1. /\ at' = "auth" /\ path' \in G!Paths /\ mount' = G!Owner(path')
      /\ UNCHANGED <<conf, shown, strict, named>>
  BY DEF G!Route, G!Pass
<1>2. path' \in Seq(Words)
  <2>1. PICK o \in G!Mounts,
             r \in {<<>>, <<"ping">>, <<"models">>, <<"blacklist">>, G!Chat} :
          path' = o.segs \o r
    BY <1>1 DEF G!Paths
  <2>2. r \in Seq(Words)
    <3>1. "ping" \in Words /\ "models" \in Words /\ "blacklist" \in Words
      BY DEF Words
    <3>2. /\ <<>> \in Seq(Words) /\ <<"ping">> \in Seq(Words)
          /\ <<"models">> \in Seq(Words) /\ <<"blacklist">> \in Seq(Words)
      BY <3>1
    <3> QED
      BY <2>1, <3>2, PathsAreSequences
  <2> QED
    BY <2>1, <2>2, MountShape, ConcatProperties
<1>3. mount' \in G!Mounts /\ IsPrefix(mount'.segs, path')
  BY <1>1, <1>2, OwnerIsMount
<1>4. G!Mounts' = G!Mounts
  BY <1>1 DEF G!Mounts
<1>5. Routed'
  BY <1>2, <1>3, <1>4 DEF Routed, IsPrefix
<1>6. mount'.model \in Names \cup {NoName}
  BY <1>3, MountShape
<1> QED
  BY <1>1, <1>5, <1>6 DEF Passed

(* The key is asked for once, and what it opens does not change.           *)
LEMMA AuthenticatePasses ==
  ASSUME GateInv, G!Authenticate
  PROVE  GateInv'
<1> USE DEF GateInv
<1>1. /\ at = "auth" /\ at' \in {"dispatch", "replied"}
      /\ at' = "dispatch" => G!NeedsKey(mount.kind) \in {"none", shown'}
      /\ UNCHANGED <<conf, path, mount, strict, named>>
  BY DEF G!Authenticate, G!Pass, G!Reply
<1>2. Routed' /\ (at' = "dispatch" => Keyed')
  BY <1>1 DEF Passed, Routed, G!Mounts, Keyed, G!NeedsKey, IsPrefix
<1> QED
  BY <1>1, <1>2 DEF Passed

(* Behind the strict limiter and WithModel comes the handler.              *)
LEMMA LaterPasses ==
  ASSUME GateInv,
         G!StrictLimit \/ (\E m \in Names \cup {NoName} : G!WithModel(m)) \/ G!RefuseBody
  PROVE  GateInv'
<1> USE DEF GateInv
<1>1. /\ at \in {"strict", "withModel"} /\ at' \in {"handler", "replied"}
      /\ at = "strict" /\ at' = "handler" => strict'
      /\ named' \in Names \cup {NoName}
      /\ UNCHANGED <<conf, path, mount, shown>>
  BY DEF G!StrictLimit, G!WithModel, G!RefuseBody, G!Pass, G!Reply
<1>2. Keyed'
  BY <1>1 DEF Passed, Keyed, G!NeedsKey
<1> QED
  BY <1>1, <1>2 DEF Passed

(* The rest comes before the router or answers the request.                *)
LEMMA OthersPass ==
  ASSUME GateInv,
         \/ G!CORS \/ G!Limit \/ G!HealthCheck \/ G!Ping \/ G!ListModels \/ G!BlacklistFile
         \/ G!Call
  PROVE  GateInv'
<1> USE DEF GateInv
<1>1. /\ at' \in {"limit", "route", "replied", "called"}
      /\ named' = named
  BY DEF G!CORS, G!Limit, G!HealthCheck, G!Ping, G!ListModels, G!BlacklistFile, G!Serve,
         G!Call, G!Pass, G!Reply
<1>2. conf' \in [key : BOOLEAN, modelRoute : BOOLEAN, foolproof : BOOLEAN]
  <2>1. \/ conf' = conf
        \/ conf' = [key |-> FALSE, modelRoute |-> TRUE, foolproof |-> FALSE]
    BY DEF G!CORS, G!Limit, G!HealthCheck, G!Ping, G!ListModels, G!BlacklistFile, G!Serve,
           G!Call
  <2>2. [key |-> FALSE, modelRoute |-> TRUE, foolproof |-> FALSE]
          \in [key : BOOLEAN, modelRoute : BOOLEAN, foolproof : BOOLEAN]
    OBVIOUS
  <2>3. conf \in [key : BOOLEAN, modelRoute : BOOLEAN, foolproof : BOOLEAN]
    OBVIOUS
  <2> QED
    BY <2>1, <2>2, <2>3
<1>3. mount'.model \in Names \cup {NoName}
  BY SameModels
  DEF G!CORS, G!Limit, G!HealthCheck, G!Ping, G!ListModels, G!BlacklistFile, G!Serve,
      G!Call, G!Root, G!Mount
<1> QED
  BY <1>1, <1>2, <1>3 DEF Passed

(* No step of the gate breaks its invariant.                               *)
LEMMA GateStep ==
  ASSUME GateInv, G!Next
  PROVE  GateInv'
  BY SameModels, DispatchPasses, RoutePasses, AuthenticatePasses, LaterPasses, OthersPass
  DEF G!Next

(* Nor does a step of the completion, which leaves the gate alone.         *)
LEMMA GateStays ==
  ASSUME GateInv, UNCHANGED gate
  PROVE  GateInv'
<1>1. UNCHANGED <<conf, at, method, path, mount, shown, strict, named, status>>
  BY DEF gate
<1>2. Routed' = Routed /\ Keyed' = Keyed
  BY <1>1 DEF Routed, G!Mounts, Keyed, G!NeedsKey
<1> QED
  BY <1>1, <1>2 DEF GateInv, Passed

-----------------------------------------------------------------------------
RequestInv == CompletionInv /\ GateInv

(* No step of the request breaks the invariant of the two together.        *)
LEMMA RequestStep ==
  ASSUME RequestInv, [RequestNext]_<<gate, completion>>
  PROVE  RequestInv'
<1> USE DEF RequestInv
<1>1. CASE G!Next /\ UNCHANGED completion
  BY <1>1, GateStep, CompletionStep DEF completion
<1>2. CASE Handle
  <2>1. RefuseBody \/ \E m \in Names \cup {NoName} : HandleCompletion(m)
    BY <1>2 DEF Handle, GateInv
  <2> QED
    BY <1>2, <2>1, HandleBegins, OtherSteps, GateStays DEF Handle
<1>3. CASE Complete /\ UNCHANGED gate
  BY <1>3, CompletionStep, GateStays
<1>4. CASE UNCHANGED <<gate, completion>>
  BY <1>4, CompletionStep, GateStays DEF completion
<1> QED
  BY <1>1, <1>2, <1>3, <1>4 DEF RequestNext

(* The gate and the completion keep their invariants side by side.         *)
THEOREM RequestInvariant == RequestSpec => []RequestInv
<1>1. RequestInit => RequestInv
  BY InitCompletion, InitGate DEF RequestInit, RequestInv
<1> QED
  BY <1>1, RequestStep, PTL DEF RequestSpec

(* What TransientIsRetried asks for never happens, whatever MAX_RETRIES is *)
(* and however a call fails: no request is sent to the service twice.      *)
THEOREM NothingIsRetried == RequestSpec => [](Len(sent) <= 1)
<1>1. RequestInv => Len(sent) <= 1
  <2> SUFFICES ASSUME RequestInv PROVE Len(sent) <= 1
    OBVIOUS
  <2>1. sent = <<>> => Len(sent) = 0
    BY EmptySeq
  <2> QED
    BY <2>1 DEF RequestInv, CompletionInv, OneAttempt
<1> QED
  BY <1>1, RequestInvariant, PTL

(* The service is only asked for models of the list, by the list's names.  *)
THEOREM OnlyListedModelsAreSent == RequestSpec => []ModelSentIsListed
<1>1. RequestInv => ModelSentIsListed
  BY DEF RequestInv, CompletionInv, Named
<1> QED
  BY <1>1, RequestInvariant, PTL

(* Whatever the prefix and the mounts are, nothing is served without the   *)
(* key that it needs.                                                      *)
THEOREM KeysComeFirst == RequestSpec => []KeyBeforeService
<1>1. RequestInv => KeyBeforeService
  BY DEF RequestInv, GateInv, Passed, Keyed, G!NeedsKey, KeyBeforeService, G!KeyBeforeService
<1> QED
  BY <1>1, RequestInvariant, PTL

(* No other mount takes the standard path from the strict limiter: the     *)
(* model routes have longer paths, and the foolproof ones leave it out.    *)
THEOREM StandardPathIsStrict == RequestSpec => []StandardIsStrict
<1>1. RequestInv => StandardIsStrict
  <2> SUFFICES ASSUME GateInv, at = "handler", path = G!Standard PROVE strict
    BY DEF RequestInv, StandardIsStrict, G!StandardIsStrict
  <2>1. Len(G!Standard) = Len(Prefix) + 2 /\ Len(Prefix) \in Nat
    <3>1. Len(Prefix \o G!Chat) = Len(Prefix) + Len(G!Chat) /\ Len(Prefix) \in Nat
      BY PathsAreSequences, ConcatProperties, LenProperties
    <3> QED
      BY <3>1, PathsAreSequences DEF G!Standard
  <2>2. G!Standard \notin G!FoolproofPaths
    BY DEF G!FoolproofPaths
  <2> QED
    BY <2>1, <2>2 DEF GateInv, Passed
<1> QED
  BY <1>1, RequestInvariant, PTL

-----------------------------------------------------------------------------
(***************************************************************************)
(* The types.  That the loop variable never leaves 0 is OneAttempt's, and  *)
(* that a mount is one of the configuration is the router's.               *)
(***************************************************************************)
ReplyKinds ==
  {"none", "answer", "stream", "error", "apiError", "ctxError",
   "outOfRetries", "badRequest", "noFlusher"}

(* What an attempt that fails answers.                                     *)
LEMMA FailTypes ==
  /\ \A cause \in Causes : Fail(Wrap(cause)) => reply'.kind = "error" /\ pc' = "returned"
  /\ Fail(APIError) => reply'.kind = "apiError" /\ pc' = "returned"
<1>1. \A cause \in Causes :
        Outcomes(Wrap(cause)) = {Wrap(cause)} /\ Wrap(cause).kind = "error"
  BY DEF Outcomes, ShouldRetry, Retryable, Wrap, Failure, Reply
<1>2. Outcomes(APIError) = {APIError} /\ APIError.kind = "apiError"
  BY DEF Outcomes, ShouldRetry, Retryable, APIError, Reply
<1> QED
  BY <1>1, <1>2, FailReturns DEF Fail

(* Every name in the list is a name.                                       *)
LEMMA ListedAreNames == SupportedModels \subseteq Names
  BY ModelsAssumption DEF SupportedModels, ToSet

(* The types of the completion.                                            *)
LEMMA CompletionTypes ==
  ASSUME CompletionInv, CompletionInv', TypeOK,
         \/ Complete \/ UNCHANGED vars \/ RefuseBody
         \/ \E m \in Names \cup {NoName} : HandleCompletion(m)
  PROVE  TypeOK'
<1>1. \A k \in DOMAIN sent' : sent'[k].model \in Names
  BY ListedAreNames DEF CompletionInv, Named, ModelSentIsListed
<1>2. /\ model' \in Names \cup {NoName}
      /\ UNCHANGED settings
      /\ attempt' = attempt
  <2>1. CASE NoConnection \/ CallFails \/ Resolve
    BY <2>1, FailReturns DEF NoConnection, CallFails, Resolve, Causes, CompletionInv, Named
  <2>2. CASE ~(NoConnection \/ CallFails \/ Resolve)
    BY <2>2
    DEF Complete, Attempt, GiveUp, Connected, Call, CallAnswers, RefuseBody,
        HandleCompletion, vars, CompletionInv, Named
  <2> QED
    BY <2>1, <2>2 DEF CompletionInv, Named
<1>3. /\ stream' \in BOOLEAN /\ messages' \in Seq(Roles)
      /\ asked' \in Names \cup {NoName} /\ original' \in Names \cup {NoName}
  <2>1. CASE \E m \in Names \cup {NoName} : HandleCompletion(m)
    <3>1. PICK k \in 0 .. MaxMessages : messages' \in [1 .. k -> Roles]
      BY <2>1 DEF HandleCompletion
    <3>2. messages' \in Seq(Roles)
      BY <3>1
    <3> QED
      BY <2>1, <3>2 DEF HandleCompletion, TypeOK
  <2>2. CASE Complete \/ UNCHANGED vars \/ RefuseBody
    BY <2>2
    DEF Complete, Attempt, GiveUp, Resolve, Connected, NoConnection, Call, CallAnswers,
        CallFails, RefuseBody, vars, TypeOK
  <2> QED
    BY <2>1, <2>2
<1>4. /\ pc' \in {"unread", "loop", "resolve", "connect", "call", "calling", "returned"}
      /\ reply'.kind \in ReplyKinds
  <2>1. CASE NoConnection \/ CallFails
    BY <2>1, FailTypes DEF NoConnection, CallFails, Causes, ReplyKinds
  <2>2. CASE Resolve
    BY <2>2, FailTypes DEF Resolve, TypeOK, ReplyKinds
  <2>3. CASE CallAnswers
    BY <2>3 DEF CallAnswers, Answer, Stream, Reply, ReplyKinds
  <2>4. CASE \/ Attempt \/ GiveUp \/ Connected \/ Call \/ RefuseBody \/ UNCHANGED vars
             \/ \E m \in Names \cup {NoName} : HandleCompletion(m)
    BY <2>4
    DEF Attempt, GiveUp, Connected, Call, RefuseBody, vars, HandleCompletion, TypeOK,
        OutOfRetries, BadRequest, NoFlusher, Reply, ReplyKinds
  <2> QED
    BY <2>1, <2>2, <2>3, <2>4 DEF Complete
<1>5. /\ maxRetries' \in Retries /\ defaultModel' \in Names \cup {NoName}
      /\ attempt' \in {0} \cup 0 .. maxRetries'
  BY <1>2 DEF TypeOK
<1> QED
  BY <1>1, <1>2, <1>3, <1>4, <1>5 DEF TypeOK, ReplyKinds

(* The types of the gate.                                                  *)
LEMMA GateTypes ==
  ASSUME GateInv, GateInv', G!TypeOK, G!Next
  PROVE  G!TypeOK'
<1> DEFINE statuses == {0, 200, 204, 400, 401, 403, 404, 405, 429}
           places == {"cors", "limit", "route", "auth", "dispatch", "strict", "withModel",
                      "handler", "health", "ping", "list", "file", "called", "replied"}
<1>1. conf' \in [key : BOOLEAN, modelRoute : BOOLEAN, foolproof : BOOLEAN]
  BY DEF GateInv
<1>2. named' \in G!Names \cup {G!NoName}
  BY SameModels DEF GateInv
<1>3. CASE G!CORS
  <2>1. /\ method' \in G!Methods
        /\ \/ G!Reply(204) \/ G!Pass("limit") \/ G!Reply(405)
        /\ UNCHANGED <<conf, path, mount, shown, strict, named>>
    BY <1>3 DEF G!CORS
  <2> QED
    BY <1>1, <1>2, <2>1 DEF G!TypeOK, G!Reply, G!Pass, G!Mounts
<1>4. CASE G!Route
  <2>1. Routed' /\ at' = "auth" /\ UNCHANGED <<conf, method, shown, strict, named, status>>
    BY <1>4 DEF GateInv, Passed, G!Route, G!Pass
  <2> QED
    BY <1>1, <1>2, <2>1 DEF G!TypeOK, Routed
<1>5. CASE G!Authenticate
  <2>1. G!NeedsKey(mount.kind) \in {"none", "apiKey", "adminKey"}
    BY DEF G!NeedsKey
  <2>2. /\ shown' = shown \/ shown' = G!NeedsKey(mount.kind)
        /\ G!Pass("dispatch") \/ G!Reply(401) \/ G!Reply(403)
        /\ UNCHANGED <<conf, method, path, mount, strict, named>>
    BY <1>5 DEF G!Authenticate
  <2> QED
    BY <1>1, <1>2, <2>1, <2>2 DEF G!TypeOK, G!Reply, G!Pass, G!Mounts
<1>6. CASE G!Dispatch
  <2>1. mount.kind \in Kinds /\ UNCHANGED <<conf, method, path, mount, shown, strict, named>>
    BY <1>6, MountShape DEF GateInv, Passed, Routed, G!Dispatch
  <2>2. \/ G!Reply(404) \/ G!Reply(405)
        \/ \E e \in G!Endpoints[mount.kind] : G!Pass(e.next)
    BY <1>6 DEF G!Dispatch
  <2>3. at' \in places /\ status' \in statuses
    BY <2>1, <2>2, Served DEF G!TypeOK, G!Reply, G!Pass
  <2> QED
    BY <1>1, <1>2, <2>1, <2>3 DEF G!TypeOK, G!Mounts
<1>7. CASE G!Call
  <2>1. mount' \in G!Mounts'
    BY <1>7 DEF G!Call, G!TypeOK, G!Mounts, G!Root, G!Mount
  <2>2. method' \in G!Methods /\ shown' = "none" /\ strict' = FALSE
    BY <1>7 DEF G!Call, G!Methods
  <2>3. at' \in places /\ status' \in statuses
    BY <1>7 DEF G!Call, G!TypeOK
  <2> QED
    BY <1>1, <1>2, <2>1, <2>2, <2>3 DEF G!TypeOK
<1>8. CASE \/ G!Limit \/ G!StrictLimit \/ (\E m \in G!Names \cup {G!NoName} : G!WithModel(m))
           \/ G!RefuseBody \/ G!HealthCheck \/ G!Ping \/ G!ListModels \/ G!BlacklistFile
  <2>1. /\ at' \in places /\ status' \in statuses /\ strict' \in BOOLEAN
        /\ UNCHANGED <<conf, method, path, mount, shown>>
    <3>1. CASE G!Limit \/ G!RefuseBody
      BY <3>1 DEF G!TypeOK, G!Limit, G!RefuseBody, G!Reply, G!Pass
    <3>2. CASE G!StrictLimit
      <4>1. strict' = TRUE \/ strict' = strict
        BY <3>2 DEF G!StrictLimit
      <4>2. G!Pass("handler") \/ G!Reply(403) \/ G!Reply(429)
        BY <3>2 DEF G!StrictLimit
      <4>3. UNCHANGED <<conf, method, path, mount, shown>>
        BY <3>2 DEF G!StrictLimit
      <4>4. at' \in places /\ status' \in statuses
        BY <4>2 DEF G!TypeOK, G!Pass, G!Reply
      <4>5. strict' \in BOOLEAN
        BY <4>1 DEF G!TypeOK
      <4> QED
        BY <4>3, <4>4, <4>5
    <3>3. CASE \E m \in G!Names \cup {G!NoName} : G!WithModel(m)
      BY <3>3 DEF G!TypeOK, G!WithModel, G!Pass
    <3>4. CASE G!HealthCheck \/ G!Ping \/ G!ListModels
      BY <3>4 DEF G!TypeOK, G!HealthCheck, G!Ping, G!ListModels, G!Serve, G!Reply
    <3>5. CASE G!BlacklistFile
      BY <3>5 DEF G!TypeOK, G!BlacklistFile, G!Serve, G!Reply
    <3> QED
      BY <1>8, <3>1, <3>2, <3>3, <3>4, <3>5
  <2> QED
    BY <1>1, <1>2, <2>1 DEF G!TypeOK, G!Mounts
<1> QED
  BY <1>3, <1>4, <1>5, <1>6, <1>7, <1>8 DEF G!Next

(* Every part of a request, on either side of the handler, has its type.   *)
THEOREM RequestTypeCorrect == RequestSpec => []RequestTypeOK
<1>1. RequestInit => TypeOK /\ G!TypeOK
  <2> SUFFICES ASSUME Init, G!Init PROVE TypeOK /\ G!TypeOK
    BY DEF RequestInit
  <2>1. TypeOK
    <3>1. messages \in Seq(Roles) /\ DOMAIN sent = {}
      BY DEF Init
    <3>2. reply.kind = "none" /\ defaultModel \in Names \cup {NoName}
      BY DEF Init, NoReply, Reply
    <3> QED
      BY <3>1, <3>2 DEF Init, TypeOK
  <2>2. G!Root \in G!Mounts
    BY DEF G!Mounts
  <2>3. G!TypeOK
    BY <2>2, SameModels DEF G!Init, G!TypeOK, G!Methods
  <2> QED
    BY <2>1, <2>3
<1>2. /\ RequestInv /\ RequestInv' /\ TypeOK /\ G!TypeOK
      /\ [RequestNext]_<<gate, completion>>
      => (TypeOK /\ G!TypeOK)'
  <2> SUFFICES ASSUME RequestInv, RequestInv', TypeOK, G!TypeOK,
                      [RequestNext]_<<gate, completion>>
               PROVE  TypeOK' /\ G!TypeOK'
    OBVIOUS
  <2>1. \/ UNCHANGED gate \/ G!Next
    BY DEF RequestNext, Handle
  <2>2. \/ Complete \/ UNCHANGED vars \/ RefuseBody
        \/ \E m \in Names \cup {NoName} : HandleCompletion(m)
    BY DEF RequestNext, Handle, completion, RequestInv, GateInv
  <2>3. UNCHANGED gate => G!TypeOK'
    BY DEF gate, G!TypeOK, G!Mounts
  <2> QED
    BY <2>1, <2>2, <2>3, CompletionTypes, GateTypes DEF RequestInv
<1> QED
  BY <1>1, <1>2, RequestInvariant, PTL DEF RequestSpec, RequestTypeOK

-----------------------------------------------------------------------------
(***************************************************************************)
(* Behind a model route.  The names of the list are as Normalize would     *)
(* write them; otherwise the route of such a name would serve another.     *)
(***************************************************************************)
ListIsNormal == \A m \in SupportedModels : Normalize(m) = m

(* What WithModel hands on is supported, so that the completion keeps to   *)
(* it in one writing or the other.                                         *)
RouteSettled ==
  /\ mount.kind = "model" => IsModelSupported(mount.model)
  /\ mount.kind = "model" /\ at \in {"handler", "called"} => IsModelSupported(named)
  /\ at # "called" => pc = "unread"
  /\ pc = "unread" => reply = NoReply /\ sent = <<>>

Same(m) == m \in Names \cup {NoName} /\ Normalize(m) = Normalize(asked)

Kept ==
  /\ asked \in Names \cup {NoName}
  /\ IsModelSupported(asked)
  /\ Same(model)
  /\ pc \in {"connect", "call", "calling"} => Same(original)
  /\ \A k \in DOMAIN sent : sent[k].model = BuildRequest(asked).model
  /\ reply.kind # "apiError"
  /\ reply.kind \in {"answer", "stream"} => Same(reply.model)

RouteKept == mount.kind = "model" /\ pc # "unread" => Kept

RouteInv == RequestInv /\ RouteSettled /\ RouteKept

(* A name that has a route is supported.                                   *)
LEMMA RouteModelsSupported ==
  ASSUME ListIsNormal, NEW m \in G!RouteNames
  PROVE  IsModelSupported(m)
<1>1. CASE m \in SupportedModels
  BY <1>1 DEF ListIsNormal, IsModelSupported
<1>2. CASE \E n \in SupportedModels :
              n.family = "claude" /\ n.date = "at" /\ m = [n EXCEPT !.date = "dash"]
  <2>1. PICK n \in SupportedModels :
               n.family = "claude" /\ n.date = "at" /\ m = [n EXCEPT !.date = "dash"]
    BY <1>2
  <2>2. n \in Names
    BY ModelsAssumption DEF SupportedModels, ToSet
  <2>3. Normalize(m) = n
    BY <2>1, <2>2 DEF Normalize, Names
  <2> QED
    BY <2>3 DEF IsModelSupported
<1> QED
  BY <1>1, <1>2, SameModels DEF G!RouteNames

(* So is the model of a mount.                                             *)
LEMMA MountSupported ==
  ASSUME ListIsNormal, NEW o \in G!Mounts, o.kind = "model"
  PROVE  IsModelSupported(o.model)
<1>1. \E m \in G!RouteNames : o = G!Mount("model", m, <<G!Slug(m)>> \o Prefix)
  BY DEF G!Mounts, G!Root, G!Mount
<1> QED
  BY <1>1, RouteModelsSupported DEF G!Mount

(* Names that are the same are built into the same request.                *)
LEMMA SameBuild ==
  ASSUME NEW m \in Names \cup {NoName}, NEW n \in Names \cup {NoName},
         Normalize(m) = Normalize(n)
  PROVE  BuildRequest(m).model = BuildRequest(n).model
<1>1. /\ Normalize(m).family = m.family /\ Normalize(n).family = n.family
      /\ IsGPTModel(m) => Normalize(m) = m
      /\ IsGPTModel(n) => Normalize(n) = n
  BY DEF Normalize, Names, NoName, IsGPTModel
<1> QED
  BY <1>1 DEF BuildRequest, IsGPTModel

(* The gate brings a supported name from the route to the handler.         *)
LEMMA GateKeepsRoute ==
  ASSUME ListIsNormal, RouteInv, G!Next, UNCHANGED completion
  PROVE  RouteSettled' /\ RouteKept'
<1> USE DEF RouteInv, RequestInv
<1>1. UNCHANGED <<messages, asked, model, original, pc, sent, reply>>
  BY DEF completion, vars
<1>2. CASE G!Route
  <2>1. /\ mount' \in G!Mounts /\ at = "route" /\ at' = "auth"
    <3>1. Routed' /\ at' = "auth"
      BY <1>2, RoutePasses DEF GateInv, Passed, G!Route, G!Pass
    <3>2. G!Mounts' = G!Mounts
      BY <1>2 DEF G!Route, G!Mounts
    <3> QED
      BY <1>2, <3>1, <3>2 DEF Routed, G!Route
  <2>2. mount'.kind = "model" => IsModelSupported(mount'.model)
    BY <2>1, MountSupported
  <2> QED
    BY <1>1, <2>1, <2>2 DEF RouteSettled, RouteKept
<1>3. CASE \E m \in Names \cup {NoName} : G!WithModel(m)
  <2>1. /\ at = "withModel" /\ at' = "handler" /\ mount' = mount
        /\ mount.kind = "model"
        /\ \E m \in Names \cup {NoName} :
             named' = IF m = NoName \/ ~IsModelSupported(Normalize(m)) THEN mount.model ELSE m
    BY <1>3, SameModels DEF G!WithModel, G!Pass, GateInv, Passed
  <2>2. IsModelSupported(named')
    BY <2>1, NormalizeOnce DEF RouteSettled
  <2> QED
    BY <1>1, <2>1, <2>2 DEF RouteSettled, RouteKept
<1>4. CASE G!Call
  <2>1. /\ at = "handler" /\ at' = "called" /\ named' = named
        /\ mount'.kind = "model" => mount' = mount
    BY <1>4 DEF G!Call, G!Root, G!Mount
  <2> QED
    BY <1>1, <2>1 DEF RouteSettled, RouteKept
<1>5. CASE \/ G!CORS \/ G!Limit \/ G!Authenticate \/ G!Dispatch \/ G!StrictLimit
           \/ G!RefuseBody \/ G!HealthCheck \/ G!Ping \/ G!ListModels \/ G!BlacklistFile
  <2>1. /\ at # "called" /\ at' # "called" /\ mount' = mount /\ named' = named
        /\ at' = "handler" => mount.kind # "model"
    <3>1. CASE G!Dispatch
      <4>1. mount.kind \in Kinds
        BY <3>1, MountShape DEF GateInv, Passed, Routed, G!Dispatch
      <4>2. at' = "replied" \/ \E e \in G!Endpoints[mount.kind] : at' = e.next
        BY <3>1 DEF G!Dispatch, G!Reply, G!Pass
      <4>3. at' # "called" /\ (at' = "handler" => mount.kind # "model")
        BY <4>1, <4>2, Served
      <4> QED
        BY <3>1, <4>3 DEF G!Dispatch
    <3>2. CASE ~G!Dispatch
      BY <1>5, <3>2
      DEF GateInv, Passed, G!CORS, G!Limit, G!Authenticate, G!StrictLimit, G!RefuseBody,
          G!HealthCheck, G!Ping, G!ListModels, G!BlacklistFile, G!Serve, G!Pass, G!Reply
    <3> QED
      BY <3>1, <3>2
  <2> QED
    BY <1>1, <2>1 DEF RouteSettled, RouteKept
<1> QED
  BY <1>2, <1>3, <1>4, <1>5, SameModels DEF G!Next

(* The completion only changes the writing of a name that is supported.    *)
LEMMA CompletionKeepsRoute ==
  ASSUME RouteInv, Complete, UNCHANGED gate
  PROVE  RouteSettled' /\ RouteKept'
<1> USE DEF RouteInv, RequestInv
<1>1. /\ UNCHANGED <<at, mount, named, asked, defaultModel>>
      /\ pc # "unread" /\ pc' # "unread" /\ at = "called"
  <2>1. pc # "unread" /\ pc' # "unread" /\ UNCHANGED <<asked, defaultModel>>
    BY FailReturns
    DEF Complete, Attempt, GiveUp, Resolve, Connected, NoConnection, Call, CallAnswers,
        CallFails, Causes
  <2> QED
    BY <2>1 DEF gate, RouteSettled
<1>2. RouteSettled'
  BY <1>1 DEF RouteSettled
<1>3. SUFFICES ASSUME mount.kind = "model" PROVE RouteKept'
  <2>1. mount'.kind = mount.kind
    BY <1>1
  <2> QED
    BY <1>2, <2>1 DEF RouteKept
<1>4. IsModelSupported(asked) /\ Same(model)
  BY <1>1, <1>3 DEF RouteKept, Kept
<1>5. (BuildRequest(asked).model)' = BuildRequest(asked).model
  BY <1>1 DEF BuildRequest, Built
<1>6. CASE Resolve
  <2>1. IsModelSupported(model)
    <3>1. Normalize(model) = Normalize(asked)
      BY <1>4 DEF Same
    <3> QED
      BY <1>4, <3>1 DEF IsModelSupported
  <2>2. /\ pc' = "connect" /\ reply' = reply /\ sent' = sent
        /\ original' = model /\ model' = Normalize(model)
    BY <1>6, <2>1 DEF Resolve
  <2>3. Same(model)' /\ Same(original)'
    BY <1>1, <1>4, <2>2, NormalizeOnce DEF Same
  <2>4. /\ asked \in Names \cup {NoName}
        /\ \A k \in DOMAIN sent : sent[k].model = BuildRequest(asked).model
        /\ reply.kind # "apiError"
        /\ reply.kind \in {"answer", "stream"} => Same(reply.model)
    BY <1>1, <1>3 DEF RouteKept, Kept
  <2>5. /\ asked' \in Names \cup {NoName}
        /\ IsModelSupported(asked)'
    BY <1>1, <1>4, <2>4 DEF IsModelSupported
  <2>6. \A k \in DOMAIN sent' : sent'[k].model = (BuildRequest(asked).model)'
    BY <1>5, <2>2, <2>4
  <2>7. /\ reply'.kind # "apiError"
        /\ reply'.kind \in {"answer", "stream"} => Same(reply.model)'
    BY <1>1, <2>2, <2>4 DEF Same
  <2> QED
    BY <2>3, <2>5, <2>6, <2>7 DEF RouteKept, Kept
<1>7. CASE Call
  <2>1. sent = <<>> /\ sent' = <<BuildRequest(model)>> /\ pc = "call" /\ pc' = "calling"
    BY <1>7 DEF Call, CompletionInv, OneAttempt, Unsent
  <2>2. BuildRequest(model).model = BuildRequest(asked).model
    BY <1>1, <1>3, SameBuild DEF RouteKept, Kept, Same
  <2>3. \A k \in DOMAIN sent' : sent'[k].model = BuildRequest(asked).model
    BY <2>1, <2>2
  <2>4. UNCHANGED <<model, original, reply>>
    BY <1>7 DEF Call
  <2> QED
    BY <1>1, <1>3, <1>5, <2>1, <2>3, <2>4 DEF RouteKept, Kept, Same, IsModelSupported
<1>8. CASE Attempt \/ GiveUp \/ Connected \/ NoConnection \/ CallAnswers \/ CallFails
  <2>1. /\ UNCHANGED <<model, original, sent>>
        /\ pc' = "connect" => FALSE
        /\ pc' \in {"call", "calling"} => pc = "connect"
        /\ \/ reply' = reply
           \/ reply'.kind \in {"error", "outOfRetries"}
           \/ reply'.kind \in {"answer", "stream"} /\ reply'.model = original /\ pc = "calling"
    <3>1. \A cause \in Causes : Fail(Wrap(cause)) => reply'.kind = "error"
      BY DEF Fail, Outcomes, ShouldRetry, Retryable, Wrap, Failure, Reply, NoReply
    <3> QED
      BY <1>8, <3>1, FailReturns
      DEF Attempt, GiveUp, Connected, NoConnection, CallAnswers, CallFails, Causes,
          OutOfRetries, Answer, Stream, Reply
  <2> QED
    BY <1>1, <1>3, <1>5, <2>1 DEF RouteKept, Kept, Same, IsModelSupported
<1> QED
  BY <1>6, <1>7, <1>8 DEF Complete

(* HandleCompletion decodes the name that WithModel has encoded.           *)
LEMMA HandleKeepsRoute ==
  ASSUME RouteInv, Handle
  PROVE  RouteSettled' /\ RouteKept'
<1> USE DEF RouteInv, RequestInv
<1>1. /\ at = "called" /\ pc = "unread"
      /\ UNCHANGED <<at, mount, named>>
      /\ pc' # "unread" /\ sent' = sent
  BY DEF Handle, HandleCompletion, RefuseBody, gate
<1>2. RouteSettled'
  BY <1>1 DEF RouteSettled
<1>3. ASSUME mount.kind = "model" PROVE RouteKept'
  <2>1. HandleCompletion(named)
    BY <1>3 DEF Handle
  <2>2. /\ asked' = named /\ model' = named /\ pc' \notin {"connect", "call", "calling"}
        /\ reply' = reply \/ reply' = NoFlusher
    BY <2>1 DEF HandleCompletion
  <2>3. reply'.kind \in {"none", "noFlusher"}
    BY <1>1, <2>2 DEF RouteSettled, NoReply, NoFlusher, Reply
  <2>4. IsModelSupported(named) /\ named \in Names \cup {NoName} /\ sent = <<>>
    BY <1>1, <1>3 DEF RouteSettled, GateInv
  <2> QED
    BY <1>1, <2>2, <2>3, <2>4 DEF RouteKept, Kept, Same, IsModelSupported
<1> QED
  BY <1>1, <1>2, <1>3 DEF RouteKept

(* A model route serves its model, or the one that the body names instead, *)
(* and nothing else.                                                       *)
THEOREM RouteServesItsModel ==
  ASSUME ListIsNormal
  PROVE  RequestSpec => []RouteModelServed
<1>1. RequestInit => RouteInv
  BY InitCompletion, InitGate
  DEF RequestInit, RouteInv, RequestInv, RouteSettled, RouteKept, Init, G!Init, G!Root, G!Mount
<1>2. RouteInv /\ [RequestNext]_<<gate, completion>> => RouteInv'
  <2> SUFFICES ASSUME RouteInv, [RequestNext]_<<gate, completion>> PROVE RouteInv'
    OBVIOUS
  <2>1. RequestInv'
    BY RequestStep DEF RouteInv
  <2>2. CASE UNCHANGED <<gate, completion>>
    BY <2>1, <2>2
    DEF RouteInv, gate, completion, vars, RouteSettled, RouteKept, Kept, Same, IsModelSupported,
        BuildRequest, Built
  <2> QED
    BY <2>1, <2>2, GateKeepsRoute, CompletionKeepsRoute, HandleKeepsRoute
    DEF RequestNext, RouteInv
<1>3. RouteInv => RouteModelServed
  <2> SUFFICES ASSUME RouteInv, mount.kind = "model", at = "called"
               PROVE  RouteModelServed
    BY DEF RouteModelServed
  <2>1. CASE pc = "unread"
    BY <2>1 DEF RouteInv, RouteSettled, RouteModelServed, NoReply, Reply
  <2>2. CASE pc # "unread"
    BY <2>2 DEF RouteInv, RouteKept, Kept, Same, RouteModelServed
  <2> QED
    BY <2>1, <2>2
<1> QED
  BY <1>1, <1>2, <1>3, PTL DEF RequestSpec

-----------------------------------------------------------------------------
(***************************************************************************)
(* The messages.  FoldLeft is evaluated by removing the last message; the  *)
(* first lemmas turn it into a chain of steps of whichever loop runs over  *)
(* the messages, and the others are inductions along such a chain.         *)
(***************************************************************************)
(* A set of numbers that holds 0 and the successor of each of its members  *)
(* holds every number.                                                     *)
LEMMA Induction ==
  ASSUME NEW S, 0 \in S, \A m \in Nat : m \in S => m + 1 \in S
  PROVE  Nat \subseteq S
<1> SUFFICES ASSUME ~(Nat \subseteq S) PROVE FALSE
  OBVIOUS
<1>1. PICK t \in Nat \ S : \A y \in Nat \ S : ~(<<y, t>> \in OpToRel(<, Nat))
  BY NatLessThanWellFounded, WFMin
<1>2. t # 0 /\ t - 1 \in Nat /\ t - 1 < t
  OBVIOUS
<1>3. t - 1 \in S
  BY <1>1, <1>2 DEF OpToRel
<1> QED
  BY <1>2, <1>3

\* One step of a loop over messages.
Step(loop, s, msg) ==
  IF loop = "params" THEN Merge(s, msg)
  ELSE IF loop = "lines" THEN Split(s, msg) ELSE Join(s, msg)

\* The chain of the first m steps, by the set of indices taken so far.
IsChain(g, m, loop, base, msgs) ==
  g = [s \in SUBSET (1 .. m) |->
         IF s = {} THEN base ELSE Step(loop, g[s \ {Max(s)}], msgs[Max(s)])]

(* The greatest member of a set of numbers that has one.                   *)
LEMMA MaxIs ==
  ASSUME NEW s, s \subseteq Int, NEW m \in s, \A x \in s : x <= m
  PROVE  Max(s) = m
<1>1. m \in s /\ \A y \in s : m >= y
  OBVIOUS
<1>2. Max(s) \in s /\ \A y \in s : Max(s) >= y
  BY <1>1 DEF Max
<1>3. Max(s) >= m /\ m >= Max(s) /\ Max(s) \in Int /\ m \in Int
  BY <1>1, <1>2
<1> QED
  BY <1>3

(* There is a chain of any length.                                         *)
LEMMA ChainExists ==
  ASSUME NEW loop, NEW base, NEW order, NEW n \in Nat
  PROVE  \E g : IsChain(g, n, loop, base, order)
<1> DEFINE S == {m \in Nat : \E g : IsChain(g, m, loop, base, order)}
<1>1. 0 \in S
  <2> DEFINE g == [s \in SUBSET (1 .. 0) |-> base]
  <2>1. IsChain(g, 0, loop, base, order)
    <3>1. \A s \in SUBSET (1 .. 0) : s = {}
      OBVIOUS
    <3> QED
      BY <3>1 DEF IsChain
  <2> QED
    BY <2>1
<1>2. ASSUME NEW m \in Nat, m \in S PROVE m + 1 \in S
  <2>1. PICK g : IsChain(g, m, loop, base, order)
    BY <1>2
  <2> DEFINE h == [s \in SUBSET (1 .. m + 1) |->
                     IF m + 1 \in s THEN Step(loop, g[s \ {m + 1}], order[m + 1])
                     ELSE g[s]]
             step(f, s) == IF s = {} THEN base ELSE Step(loop, f[s \ {Max(s)}], order[Max(s)])
  <2>2. ASSUME NEW s \in SUBSET (1 .. m + 1) PROVE h[s] = step(h, s)
    <3>1. CASE m + 1 \in s
      <4>1. Max(s) = m + 1
        <5>1. s \subseteq Int /\ \A x \in s : x <= m + 1
          OBVIOUS
        <5> QED
          BY <3>1, <5>1, MaxIs
      <4>2. s \ {m + 1} \in SUBSET (1 .. m + 1) /\ m + 1 \notin s \ {m + 1}
        OBVIOUS
      <4>3. h[s \ {m + 1}] = g[s \ {m + 1}]
        BY <4>2
      <4> QED
        BY <3>1, <4>1, <4>3
    <3>2. CASE m + 1 \notin s
      <4>1. s \in SUBSET (1 .. m) /\ s \ {Max(s)} \in SUBSET (1 .. m)
        <5>1. \A x \in s : x \in 1 .. m
          BY <3>2
        <5> QED
          BY <5>1
      <4>2. g[s] = step(g, s)
        BY <2>1, <4>1 DEF IsChain
      <4>3. h[s] = g[s] /\ h[s \ {Max(s)}] = g[s \ {Max(s)}]
        BY <3>2, <4>1
      <4> QED
        BY <4>2, <4>3
    <3> QED
      BY <3>1, <3>2
  <2>3. h = [s \in SUBSET (1 .. m + 1) |-> step(h, s)]
    <3> HIDE DEF step
    <3>1. h = [s \in SUBSET (1 .. m + 1) |-> h[s]]
      OBVIOUS
    <3> HIDE DEF h
    <3> QED
      BY <2>2, <3>1
  <2>4. IsChain(h, m + 1, loop, base, order)
    <3> HIDE DEF h
    <3> QED
      BY <2>3 DEF IsChain
  <2> QED
    BY <2>4
<1> HIDE DEF S
<1>3. Nat \subseteq S
  BY <1>1, <1>2, Induction
<1> QED
  BY <1>3 DEF S

\* The chain by the number of steps taken.
IsRun(f, n, loop, base, msgs) ==
  /\ f[0] = base
  /\ \A i \in 1 .. n : f[i] = Step(loop, f[i - 1], msgs[i])

(* From a chain by sets to one by indices.                                 *)
LEMMA ChainSteps ==
  ASSUME NEW loop, NEW base, NEW msgs, NEW n \in Nat, NEW g, IsChain(g, n, loop, base, msgs)
  PROVE  \E f : IsRun(f, n, loop, base, msgs) /\ g[1 .. n] = f[n]
<1> DEFINE f == [i \in 0 .. n |-> g[1 .. i]]
<1>1. f[0] = base
  BY DEF IsChain
<1>2. ASSUME NEW i \in 1 .. n PROVE f[i] = Step(loop, f[i - 1], msgs[i])
  <2>1. Max(1 .. i) = i
    <3>1. i \in 1 .. i /\ 1 .. i \subseteq Int /\ \A x \in 1 .. i : x <= i
      OBVIOUS
    <3> QED
      BY <3>1, MaxIs
  <2>2. (1 .. i) \ {i} = 1 .. (i - 1)
    OBVIOUS
  <2>3. 1 .. i # {} /\ 1 .. i \in SUBSET (1 .. n)
    <3>1. i \in 1 .. i /\ \A x \in 1 .. i : x \in 1 .. n
      OBVIOUS
    <3>2. 1 .. i \subseteq 1 .. n
      BY <3>1
    <3> QED
      BY <3>1, <3>2
  <2>4. g[1 .. i] = Step(loop, g[1 .. (i - 1)], msgs[i])
    BY <2>1, <2>2, <2>3 DEF IsChain
  <2>5. f[i] = g[1 .. i] /\ f[i - 1] = g[1 .. (i - 1)]
    OBVIOUS
  <2> HIDE DEF f
  <2> QED
    BY <2>4, <2>5
<1>3. f[n] = g[1 .. n]
  OBVIOUS
<1> HIDE DEF f
<1>4. IsRun(f, n, loop, base, msgs)
  BY <1>1, <1>2 DEF IsRun
<1> QED
  BY <1>3, <1>4

(* buildTokenCountParams takes one message after the other.                *)
LEMMA MergeSteps ==
  ASSUME NEW n \in Nat, NEW msgs, DOMAIN msgs = 1 .. n
  PROVE  \E f : /\ f[0] = Unread
                /\ \A i \in 1 .. n : f[i] = Merge(f[i - 1], msgs[i])
                /\ FoldLeft(Merge, Unread, msgs) = f[n]
<1> DEFINE g == CHOOSE g : IsChain(g, n, "params", Unread, msgs)
<1>1. IsChain(g, n, "params", Unread, msgs)
  BY ChainExists
<1>2. FoldLeft(Merge, Unread, msgs) = g[1 .. n]
  BY DEF FoldLeft, MapThenFoldSet, IsChain, Step
<1> HIDE DEF g
<1>3. \A s, msg : Step("params", s, msg) = Merge(s, msg)
  BY DEF Step
<1>4. PICK f : IsRun(f, n, "params", Unread, msgs) /\ g[1 .. n] = f[n]
  BY <1>1, ChainSteps
<1> QED
  BY <1>2, <1>3, <1>4 DEF IsRun

(* So does buildGRPCRequest for GPT.                                       *)
LEMMA SplitSteps ==
  ASSUME NEW n \in Nat, NEW msgs, DOMAIN msgs = 1 .. n
  PROVE  \E f : /\ f[0] = Unread
                /\ \A i \in 1 .. n : f[i] = Split(f[i - 1], msgs[i])
                /\ FoldLeft(Split, Unread, msgs) = f[n]
<1> DEFINE g == CHOOSE g : IsChain(g, n, "lines", Unread, msgs)
<1>1. IsChain(g, n, "lines", Unread, msgs)
  BY ChainExists
<1>2. FoldLeft(Split, Unread, msgs) = g[1 .. n]
  BY DEF FoldLeft, MapThenFoldSet, IsChain, Step
<1> HIDE DEF g
<1>3. \A s, msg : Step("lines", s, msg) = Split(s, msg)
  BY DEF Step
<1>4. PICK f : IsRun(f, n, "lines", Unread, msgs) /\ g[1 .. n] = f[n]
  BY <1>1, ChainSteps
<1> QED
  BY <1>2, <1>3, <1>4 DEF IsRun

(* So does whoever reads a dialog.                                         *)
LEMMA JoinSteps ==
  ASSUME NEW n \in Nat, NEW msgs, DOMAIN msgs = 1 .. n
  PROVE  \E f : /\ f[0] = <<>>
                /\ \A i \in 1 .. n : f[i] = Join(f[i - 1], msgs[i])
                /\ Content(msgs) = f[n]
<1> DEFINE g == CHOOSE g : IsChain(g, n, "content", <<>>, msgs)
<1>1. IsChain(g, n, "content", <<>>, msgs)
  BY ChainExists
<1>2. Content(msgs) = g[1 .. n]
  BY DEF Content, FoldLeft, MapThenFoldSet, IsChain, Step
<1> HIDE DEF g
<1>3. \A s, msg : Step("content", s, msg) = Join(s, msg)
  BY DEF Step
<1>4. PICK f : IsRun(f, n, "content", <<>>, msgs) /\ g[1 .. n] = f[n]
  BY <1>1, ChainSteps
<1> QED
  BY <1>2, <1>3, <1>4 DEF IsRun

\* A message, or several that have been merged.
Piece == [role : Roles, content : Seq(Nat)]

\* The content of the message i.
One(i) == <<i>>

(* A message that comes later than all that are carried can be added.      *)
LEMMA CarriesNext ==
  ASSUME NEW c \in Seq(Nat), NEW i \in Nat \ {0}, NEW K, K \subseteq 1 .. (i - 1), Carries(c, K)
  PROVE  c \o One(i) \in Seq(Nat) /\ Carries(c \o One(i), K \cup {i})
<1> DEFINE d == c \o One(i)
<1>1. /\ d \in Seq(Nat) /\ Len(d) = Len(c) + 1 /\ Len(c) \in Nat
      /\ DOMAIN d = 1 .. Len(d) /\ DOMAIN c = 1 .. Len(c)
      /\ d[Len(c) + 1] = i
      /\ \A j \in 1 .. Len(c) : d[j] = c[j]
  BY DEF One
<1> HIDE DEF d
<1>2. \A j \in 1 .. Len(c) : c[j] \in Nat /\ c[j] < i
  <2>1. \A j \in 1 .. Len(c) : c[j] \in K
    BY <1>1 DEF Carries, ToSet
  <2> QED
    BY <2>1
<1>3. \A j, k \in DOMAIN d : j < k => d[j] < d[k]
  <2> SUFFICES ASSUME NEW j \in DOMAIN d, NEW k \in DOMAIN d, j < k PROVE d[j] < d[k]
    OBVIOUS
  <2>1. j \in 1 .. Len(c) /\ (k \in 1 .. Len(c) \/ k = Len(c) + 1)
    BY <1>1
  <2> QED
    BY <1>1, <1>2, <2>1 DEF Carries
<1>4. ToSet(d) = K \cup {i}
  <2>1. ASSUME NEW x \in ToSet(d) PROVE x \in ToSet(c) \/ x = i
    <3>1. PICK j \in 1 .. Len(d) : x = d[j]
      BY <1>1 DEF ToSet
    <3>2. j \in 1 .. Len(c) \/ j = Len(c) + 1
      BY <1>1
    <3> QED
      BY <1>1, <3>1, <3>2 DEF ToSet
  <2>2. ASSUME NEW x \in ToSet(c) PROVE x \in ToSet(d)
    <3>1. PICK j \in 1 .. Len(c) : x = c[j]
      BY <1>1 DEF ToSet
    <3>2. j \in DOMAIN d /\ x = d[j]
      BY <1>1, <3>1
    <3> QED
      BY <3>2 DEF ToSet
  <2>3. i \in ToSet(d)
    <3>1. Len(c) + 1 \in DOMAIN d
      BY <1>1
    <3> QED
      BY <1>1, <3>1 DEF ToSet
  <2> QED
    BY <2>1, <2>2, <2>3 DEF Carries
<1> QED
  BY <1>1, <1>3, <1>4 DEF Carries, d

(* An empty dialog says nothing.                                           *)
LEMMA ContentEmpty == Content(<<>>) = <<>>
<1>1. DOMAIN <<>> = 1 .. 0
  OBVIOUS
<1> QED
  BY <1>1, JoinSteps

(* A message that is appended is read last.                                *)
LEMMA ContentAppend ==
  ASSUME NEW d \in Seq(Piece), NEW msg \in Piece
  PROVE  Content(Append(d, msg)) = Content(d) \o msg.content
<1> DEFINE n == Len(d)
           e == Append(d, msg)
<1>1. /\ n \in Nat /\ DOMAIN d = 1 .. n /\ DOMAIN e = 1 .. n + 1
      /\ e[n + 1] = msg /\ \A i \in 1 .. n : e[i] = d[i]
  OBVIOUS
<1> HIDE DEF n, e
<1>2. PICK f : /\ f[0] = <<>>
               /\ \A i \in 1 .. n : f[i] = Join(f[i - 1], d[i])
               /\ Content(d) = f[n]
  BY <1>1, JoinSteps
<1>3. PICK g : /\ g[0] = <<>>
               /\ \A i \in 1 .. n + 1 : g[i] = Join(g[i - 1], e[i])
               /\ Content(e) = g[n + 1]
  BY <1>1, JoinSteps
<1> DEFINE S == {i \in Nat : i <= n => f[i] = g[i]}
<1>4. 0 \in S
  BY <1>2, <1>3
<1>5. ASSUME NEW i \in Nat, i \in S PROVE i + 1 \in S
  <2> SUFFICES ASSUME i + 1 <= n PROVE f[i + 1] = g[i + 1]
    OBVIOUS
  <2>1. i + 1 \in 1 .. n /\ i + 1 \in 1 .. n + 1 /\ (i + 1) - 1 = i /\ f[i] = g[i]
    BY <1>1, <1>5
  <2> QED
    BY <1>1, <1>2, <1>3, <2>1
<1>6. n \in S
  <2> HIDE DEF S
  <2> QED
    BY <1>1, <1>4, <1>5, Induction
<1>7. f[n] = g[n] /\ n + 1 \in 1 .. n + 1 /\ (n + 1) - 1 = n
  BY <1>1, <1>6
<1> QED
  BY <1>1, <1>2, <1>3, <1>7 DEF Join, e

(* The content of a dialog is a sequence of numbers of messages.           *)
LEMMA ContentType ==
  ASSUME NEW d \in Seq(Piece)
  PROVE  Content(d) \in Seq(Nat)
<1> DEFINE n == Len(d)
<1>1. n \in Nat /\ DOMAIN d = 1 .. n /\ \A i \in 1 .. n : d[i].content \in Seq(Nat)
  <2>1. \A i \in 1 .. n : d[i] \in Piece
    OBVIOUS
  <2> QED
    BY <2>1 DEF Piece
<1> HIDE DEF n
<1>2. PICK f : /\ f[0] = <<>>
               /\ \A i \in 1 .. n : f[i] = Join(f[i - 1], d[i])
               /\ Content(d) = f[n]
  BY <1>1, JoinSteps
<1> DEFINE S == {i \in Nat : i <= n => f[i] \in Seq(Nat)}
<1>3. 0 \in S
  <2>1. <<>> \in Seq(Nat)
    OBVIOUS
  <2> QED
    BY <1>2, <2>1
<1>4. ASSUME NEW i \in Nat, i \in S PROVE i + 1 \in S
  <2> SUFFICES ASSUME i + 1 <= n PROVE f[i + 1] \in Seq(Nat)
    OBVIOUS
  <2>1. i + 1 \in 1 .. n /\ (i + 1) - 1 = i /\ f[i] \in Seq(Nat)
    BY <1>1, <1>4
  <2>2. f[i + 1] = f[i] \o d[i + 1].content
    BY <1>2, <2>1 DEF Join
  <2> QED
    BY <1>1, <2>1, <2>2
<1>5. n \in S
  <2> HIDE DEF S
  <2> QED
    BY <1>1, <1>3, <1>4, Induction
<1> QED
  BY <1>1, <1>2, <1>5

\* Where a loop stands.
Reading == [system : Seq(Nat), done : Seq(Piece), current : Piece]

\* The message i, of role r.
Msg(r, i) == Message(r, One(i))

(* A message has the role and the content that it is given.                *)
LEMMA MessageFields ==
  ASSUME NEW r, NEW c
  PROVE  /\ Message(r, c).role = r /\ Message(r, c).content = c
         /\ r \in Roles /\ c \in Seq(Nat) => Message(r, c) \in Piece
  BY DEF Message, Piece

\* The cases of Merge, from s to t: a system message,
Listens(s, t, r, i) ==
  /\ r = "system"
  /\ t.system = s.system \o One(i) /\ t.done = s.done /\ t.current = s.current

\* the first message, or the first after one without a role,
Begins(s, t, r, i) ==
  /\ r # "system" /\ s.current.role = NoRole
  /\ t.system = s.system /\ t.done = s.done /\ t.current = Msg(r, i)

\* another one of the same role,
Continues(s, t, r, i) ==
  /\ r # "system" /\ r # NoRole /\ s.current.role = r
  /\ t.system = s.system /\ t.done = s.done
  /\ t.current.role = r /\ t.current.content = s.current.content \o One(i)

\* and one of another role, or of none.
Turns(s, t, r, i) ==
  /\ r # "system" /\ s.current.role # NoRole /\ s.current.role # r
  /\ t.system = s.system /\ t.done = Append(s.done, s.current) /\ t.current = Msg(r, i)

(* The four cases of buildTokenCountParams, and what each leaves alone.    *)
LEMMA MergeFields ==
  ASSUME NEW s \in Reading, NEW r \in Roles, NEW i \in Nat,
         NEW t, t = Merge(s, Msg(r, i))
  PROVE  /\ t \in Reading
         /\ Listens(s, t, r, i) \/ Begins(s, t, r, i) \/ Continues(s, t, r, i) \/ Turns(s, t, r, i)
<1> DEFINE msg == Msg(r, i)
<1>1. /\ msg \in Piece /\ msg.role = r /\ msg.content = One(i)
      /\ s.system \in Seq(Nat) /\ s.done \in Seq(Piece) /\ s.current \in Piece
      /\ s.current.content \in Seq(Nat) /\ s.current.role \in Roles
  <2>1. One(i) \in Seq(Nat)
    BY DEF One
  <2>2. msg \in Piece /\ msg.role = r /\ msg.content = One(i)
    BY <2>1, MessageFields DEF Msg
  <2>3. s.system \in Seq(Nat) /\ s.done \in Seq(Piece) /\ s.current \in Piece
    BY DEF Reading
  <2>4. s.current.content \in Seq(Nat) /\ s.current.role \in Roles
    BY <2>3 DEF Piece
  <2> QED
    BY <2>2, <2>3, <2>4 DEF One
<1> HIDE DEF msg
<1>2. CASE r = "system"
  <2>1. t = [s EXCEPT !.system = @ \o One(i)]
    BY <1>1, <1>2 DEF Merge, msg
  <2>2. s.system \o One(i) \in Seq(Nat)
    BY <1>1 DEF One
  <2>3. t.system = s.system \o One(i) /\ t.done = s.done /\ t.current = s.current
    BY <2>1 DEF Reading
  <2>4. t \in Reading
    BY <1>1, <2>1, <2>2 DEF Reading
  <2> QED
    BY <1>2, <2>3, <2>4 DEF Listens
<1>3. CASE r # "system" /\ s.current.role = NoRole
  <2>1. t = [s EXCEPT !.current = msg]
    BY <1>1, <1>3 DEF Merge, msg
  <2>2. t.system = s.system /\ t.done = s.done /\ t.current = msg
    BY <2>1 DEF Reading
  <2>3. t \in Reading
    BY <1>1, <2>1 DEF Reading
  <2> QED
    BY <1>3, <2>2, <2>3 DEF Begins, msg
<1>4. CASE r # "system" /\ s.current.role # NoRole /\ s.current.role = r
  <2>1. t = [s EXCEPT !.current.content = @ \o One(i)]
    BY <1>1, <1>4 DEF Merge, msg
  <2>2. /\ t.current = [role |-> r, content |-> s.current.content \o One(i)]
        /\ t.system = s.system /\ t.done = s.done
    BY <1>1, <1>4, <2>1 DEF Reading, Piece
  <2>3. s.current.content \o One(i) \in Seq(Nat)
    BY <1>1 DEF One
  <2>4. t.current \in Piece
    BY <2>2, <2>3 DEF Piece
  <2>5. t \in Reading
    BY <1>1, <2>1, <2>2, <2>4 DEF Reading
  <2>6. r # NoRole
    BY <1>4
  <2>7. t.current.role = r
    BY <2>2
  <2>8. t.current.content = s.current.content \o One(i)
    BY <1>1, <1>4, <2>1 DEF Reading, Piece
  <2> QED
    BY <1>4, <2>2, <2>5, <2>6, <2>7, <2>8 DEF Continues
<1>5. CASE r # "system" /\ s.current.role # NoRole /\ s.current.role # r
  <2>1. t = [s EXCEPT !.done = Append(@, s.current), !.current = msg]
    BY <1>1, <1>5 DEF Merge, msg
  <2>2. Append(s.done, s.current) \in Seq(Piece)
    BY <1>1
  <2>3. t.system = s.system /\ t.done = Append(s.done, s.current) /\ t.current = msg
    BY <2>1 DEF Reading
  <2>4. t \in Reading
    BY <1>1, <2>1, <2>2 DEF Reading
  <2> QED
    BY <1>5, <2>3, <2>4 DEF Turns, msg
<1> QED
  BY <1>2, <1>3, <1>4, <1>5

\* Of the first i messages, those of the system and those that are not lost.
SystemsUpTo(i) == {j \in 1 .. i : messages[j] = "system"}
OthersUpTo(i, lost) == {j \in 1 .. i : messages[j] \notin lost}

\* What would be sent if the messages ended here.
Text(s) ==
  IF s.current.role = NoRole THEN Content(s.done) ELSE Content(s.done) \o s.current.content

\* After i messages, nothing that has a role is left out or there twice.
Told(s, i) ==
  /\ s \in Reading
  /\ Carries(s.system, SystemsUpTo(i))
  /\ Carries(Text(s), OthersUpTo(i, {"system", NoRole}))

(* The next message is either a system message, or one of the others, or lost.*)
LEMMA UpToNext ==
  ASSUME NEW i \in Nat \ {0}, NEW lost
  PROVE  /\ SystemsUpTo(i) = IF messages[i] = "system" THEN SystemsUpTo(i - 1) \cup {i}
                             ELSE SystemsUpTo(i - 1)
         /\ OthersUpTo(i, lost) = IF messages[i] \in lost THEN OthersUpTo(i - 1, lost)
                                  ELSE OthersUpTo(i - 1, lost) \cup {i}
         /\ SystemsUpTo(i - 1) \subseteq 1 .. (i - 1)
         /\ OthersUpTo(i - 1, lost) \subseteq 1 .. (i - 1)
<1>1. \A j : j \in 1 .. i <=> j \in 1 .. (i - 1) \/ j = i
  OBVIOUS
<1> QED
  BY <1>1 DEF SystemsUpTo, OthersUpTo

(* Nothing carries nothing.                                                *)
LEMMA CarriesNothing == Carries(<<>>, {})
  BY DEF Carries, ToSet

(* The next message is carried too, or is not among those that should be.  *)
LEMMA CarriesUpTo ==
  ASSUME NEW i \in Nat \ {0}, NEW lost, NEW c \in Seq(Nat)
  PROVE  /\ Carries(c, SystemsUpTo(i - 1)) =>
              Carries(IF messages[i] = "system" THEN c \o One(i) ELSE c, SystemsUpTo(i))
         /\ Carries(c, OthersUpTo(i - 1, lost)) =>
              Carries(IF messages[i] \in lost THEN c ELSE c \o One(i), OthersUpTo(i, lost))
<1>1. Carries(c, SystemsUpTo(i - 1)) =>
        Carries(IF messages[i] = "system" THEN c \o One(i) ELSE c, SystemsUpTo(i))
  <2>1. CASE messages[i] = "system"
    <3>1. SystemsUpTo(i) = SystemsUpTo(i - 1) \cup {i} /\ SystemsUpTo(i - 1) \subseteq 1 .. (i - 1)
      BY <2>1, UpToNext
    <3> QED
      BY <2>1, <3>1, CarriesNext
  <2>2. CASE messages[i] # "system"
    BY <2>2, UpToNext
  <2> QED
    BY <2>1, <2>2
<1>2. Carries(c, OthersUpTo(i - 1, lost)) =>
        Carries(IF messages[i] \in lost THEN c ELSE c \o One(i), OthersUpTo(i, lost))
  <2>1. CASE messages[i] \notin lost
    BY <2>1, UpToNext, CarriesNext
  <2>2. CASE messages[i] \in lost
    BY <2>2, UpToNext
  <2> QED
    BY <2>1, <2>2
<1> QED
  BY <1>1, <1>2

(* A message can be appended to the last part or to the whole.             *)
LEMMA ConcatOne ==
  ASSUME NEW c \in Seq(Nat), NEW d \in Seq(Nat), NEW i \in Nat
  PROVE  (c \o d) \o One(i) = c \o (d \o One(i))
<1>1. One(i) \in Seq(Nat)
  BY DEF One
<1> QED
  BY <1>1

(* No message that has a role is lost or comes twice in the next step.     *)
LEMMA MergeTells ==
  ASSUME NEW s, NEW i \in Nat \ {0}, messages[i] \in Roles, Told(s, i - 1)
  PROVE  Told(Merge(s, Msg(messages[i], i)), i)
<1> DEFINE r == messages[i]
           t == Merge(s, Msg(r, i))
           lost == {"system", NoRole}
<1>1. /\ s \in Reading
      /\ s.system \in Seq(Nat) /\ s.done \in Seq(Piece) /\ s.current \in Piece
      /\ s.current.content \in Seq(Nat) /\ s.current.role \in Roles
  BY DEF Told, Reading, Piece
<1>2. /\ Content(s.done) \in Seq(Nat)
      /\ Content(Append(s.done, s.current)) = Content(s.done) \o s.current.content
      /\ Text(s) \in Seq(Nat)
  <2>1. Content(s.done) \in Seq(Nat)
    BY <1>1, ContentType
  <2>2. Content(s.done) \o s.current.content \in Seq(Nat)
    BY <1>1, <2>1
  <2> QED
    BY <1>1, <2>1, <2>2, ContentAppend DEF Text
<1>3. /\ t \in Reading
      /\ Listens(s, t, r, i) \/ Begins(s, t, r, i) \/ Continues(s, t, r, i) \/ Turns(s, t, r, i)
  BY <1>1, MergeFields
<1> HIDE DEF t
<1>4. Text(t) = IF r \in lost THEN Text(s) ELSE Text(s) \o One(i)
  <2>1. Msg(r, i).role = r /\ Msg(r, i).content = One(i)
    BY MessageFields DEF Msg
  <2>2. CASE Listens(s, t, r, i)
    BY <2>2 DEF Text, Listens
  <2>3. CASE Begins(s, t, r, i)
    BY <2>1, <2>3 DEF Text, Begins
  <2>4. CASE Continues(s, t, r, i)
    <3>1. /\ t.done = s.done /\ t.current.role = r /\ s.current.role = r
          /\ t.current.content = s.current.content \o One(i)
          /\ r # NoRole /\ r # "system"
      BY <2>4 DEF Continues
    <3>2. (Content(s.done) \o s.current.content) \o One(i)
            = Content(s.done) \o (s.current.content \o One(i))
      <4>1. /\ One(i) \in Seq(Nat)
            /\ s.current.content \in Seq(Nat) /\ Content(s.done) \in Seq(Nat)
        BY <1>1, <1>2 DEF One
      <4> QED
        BY <4>1, ConcatOne
    <3> QED
      BY <3>1, <3>2 DEF Text
  <2>5. CASE Turns(s, t, r, i)
    BY <1>2, <2>1, <2>5 DEF Text, Turns
  <2> QED
    BY <1>3, <2>2, <2>3, <2>4, <2>5
<1>5. t.system = IF r = "system" THEN s.system \o One(i) ELSE s.system
  BY <1>3 DEF Listens, Begins, Continues, Turns
<1>6. Carries(t.system, SystemsUpTo(i))
  BY <1>1, <1>5, CarriesUpTo DEF Told
<1>7. Carries(Text(t), OthersUpTo(i, lost))
  BY <1>2, <1>4, CarriesUpTo DEF Told
<1> QED
  BY <1>3, <1>6, <1>7 DEF Told, t

(* The messages of the request, one by one.                                *)
LEMMA MessagesAre ==
  ASSUME messages \in Seq(Roles)
  PROVE  /\ Len(messages) \in Nat /\ DOMAIN messages = 1 .. Len(messages)
         /\ DOMAIN Messages = 1 .. Len(messages)
         /\ \A i \in 1 .. Len(messages) :
              messages[i] \in Roles /\ Messages[i] = Msg(messages[i], i)
<1>1. Len(messages) \in Nat /\ DOMAIN messages = 1 .. Len(messages)
  OBVIOUS
<1>2. \A i \in 1 .. Len(messages) : messages[i] \in Roles
  OBVIOUS
<1>3. DOMAIN Messages = 1 .. Len(messages)
  BY DEF Messages
<1>4. \A i \in 1 .. Len(messages) : Messages[i] = Msg(messages[i], i)
  BY DEF Messages, Msg, One
<1> QED
  BY <1>1, <1>2, <1>3, <1>4

(* Before the first message there is nothing.                              *)
LEMMA NothingTold ==
  /\ Unread \in Reading /\ Unread.system = <<>> /\ Unread.done = <<>>
  /\ Unread.current.role = NoRole /\ Text(Unread) = <<>>
  /\ SystemsUpTo(0) = {} /\ \A lost : OthersUpTo(0, lost) = {}
<1>1. /\ Unread.system = <<>> /\ Unread.done = <<>>
      /\ Unread.current = Message(NoRole, <<>>)
  BY DEF Unread
<1>2. Unread.current \in Piece
  <2>1. NoRole \in Roles
    BY DEF Roles
  <2>2. <<>> \in Seq(Nat)
    OBVIOUS
  <2>3. Message(NoRole, <<>>) \in Piece
    BY <2>1, <2>2, MessageFields
  <2> QED
    BY <1>1, <2>3
<1>3. Unread \in Reading
  <2>1. <<>> \in Seq(Nat) /\ <<>> \in Seq(Piece)
    OBVIOUS
  <2> QED
    BY <1>1, <1>2, <2>1 DEF Reading, Unread
<1>4. Unread.current.role = NoRole
  BY <1>1, MessageFields
<1>5. Text(Unread) = <<>>
  BY <1>1, <1>4, ContentEmpty DEF Text
<1>6. 1 .. 0 = {}
  OBVIOUS
<1> QED
  BY <1>1, <1>3, <1>4, <1>5, <1>6 DEF SystemsUpTo, OthersUpTo

(* What the loop of buildTokenCountParams holds of every prefix.           *)
LEMMA ParamsTell ==
  ASSUME messages \in Seq(Roles)
  PROVE  /\ Params(Messages).system \in Seq(Nat)
         /\ Params(Messages).dialog \in Seq(Piece)
         /\ Carries(Params(Messages).system, SystemsUpTo(Len(messages)))
         /\ Carries(Content(Params(Messages).dialog),
                    OthersUpTo(Len(messages), {"system", NoRole}))
<1> DEFINE n == Len(messages)
<1>1. PICK f : /\ f[0] = Unread
               /\ \A i \in 1 .. n : f[i] = Merge(f[i - 1], Messages[i])
               /\ FoldLeft(Merge, Unread, Messages) = f[n]
  BY MessagesAre, MergeSteps
<1> DEFINE S == {i \in Nat : i <= n => Told(f[i], i)}
<1>2. 0 \in S
  BY <1>1, NothingTold, CarriesNothing DEF Told
<1>3. ASSUME NEW i \in Nat, i \in S PROVE i + 1 \in S
  <2> SUFFICES ASSUME i + 1 <= n PROVE Told(f[i + 1], i + 1)
    OBVIOUS
  <2>1. /\ i + 1 \in 1 .. n /\ (i + 1) - 1 = i /\ i + 1 \in Nat \ {0}
        /\ Told(f[i], (i + 1) - 1)
    BY <1>3, MessagesAre
  <2>2. f[i + 1] = Merge(f[i], Msg(messages[i + 1], i + 1)) /\ messages[i + 1] \in Roles
    BY <1>1, <2>1, MessagesAre
  <2> HIDE DEF S, n
  <2> QED
    BY <2>1, <2>2, MergeTells
<1>4. Told(f[n], n)
  <2> HIDE DEF S
  <2>1. n \in S
    BY <1>2, <1>3, MessagesAre, Induction
  <2> QED
    BY <2>1, MessagesAre DEF S
<1> DEFINE end == f[n]
           p == Params(Messages)
<1>5. /\ p.system = end.system
      /\ p.dialog = IF end.current.role # NoRole THEN Append(end.done, end.current) ELSE end.done
  BY <1>1 DEF Params
<1> HIDE DEF p, end
<1>6. end \in Reading /\ end.done \in Seq(Piece) /\ end.current \in Piece /\ end.system \in Seq(Nat)
  BY <1>4 DEF Told, Reading, end
<1>7. Content(p.dialog) = Text(end)
  BY <1>5, <1>6, ContentAppend DEF Text
<1>8. p.dialog \in Seq(Piece)
  <2>1. Append(end.done, end.current) \in Seq(Piece)
    BY <1>6
  <2> QED
    BY <1>5, <1>6, <2>1
<1> QED
  BY <1>4, <1>5, <1>6, <1>7, <1>8 DEF Told, p, end

-----------------------------------------------------------------------------
(* What the loop of buildGRPCRequest for GPT holds of a prefix: no message *)
(* is left out, and none is there twice.                                   *)
Listed(s, i) ==
  /\ s \in Reading
  /\ Carries(s.system, SystemsUpTo(i))
  /\ Carries(Content(s.done), OthersUpTo(i, {"system"}))
  /\ Len(s.system) + Len(Content(s.done)) = i

(* One more on either side is one more in all.                             *)
LEMMA OneMore ==
  ASSUME NEW a \in Nat, NEW b \in Nat, NEW i \in Nat \ {0}, a + b = i - 1
  PROVE  (a + 1) + b = i /\ a + (b + 1) = i
  OBVIOUS

(* The next message goes to one side or to the other.                      *)
LEMMA SplitLists ==
  ASSUME NEW s, NEW i \in Nat \ {0}, messages[i] \in Roles, Listed(s, i - 1)
  PROVE  Listed(Split(s, Msg(messages[i], i)), i)
<1> DEFINE r == messages[i]
           msg == Msg(r, i)
           t == Split(s, msg)
<1>1. /\ s \in Reading /\ s.system \in Seq(Nat) /\ s.done \in Seq(Piece)
      /\ Content(s.done) \in Seq(Nat)
  BY ContentType DEF Listed, Reading
<1>2. msg.role = r /\ msg.content = One(i) /\ One(i) \in Seq(Nat) /\ Len(One(i)) = 1
  BY MessageFields DEF Msg, One
<1>3. msg \in Piece
  BY <1>2, MessageFields DEF Msg
<1> HIDE DEF msg
<1>4. Content(Append(s.done, msg)) = Content(s.done) \o One(i)
  BY <1>1, <1>2, <1>3, ContentAppend
<1>5. /\ Len(s.system \o One(i)) = Len(s.system) + 1
      /\ Len(Content(s.done) \o One(i)) = Len(Content(s.done)) + 1
      /\ Len(s.system) \in Nat /\ Len(Content(s.done)) \in Nat
      /\ Len(s.system) + Len(Content(s.done)) = i - 1
  <2>1. \A c \in Seq(Nat) : Len(c) \in Nat /\ Len(c \o One(i)) = Len(c) + 1
    BY DEF One
  <2> QED
    BY <1>1, <2>1 DEF Listed
<1>6. CASE r = "system"
  <2>1. t = [s EXCEPT !.system = @ \o One(i)]
    BY <1>2, <1>6 DEF Split
  <2>2. s.system \o One(i) \in Seq(Nat)
    BY <1>1, <1>2
  <2>3. t.system = s.system \o One(i) /\ t.done = s.done
    BY <1>1, <2>1 DEF Reading
  <2>4. t \in Reading
    BY <1>1, <2>1, <2>2 DEF Reading
  <2> HIDE DEF t
  <2>5. Carries(t.system, SystemsUpTo(i))
    BY <1>1, <1>6, <2>3, CarriesUpTo DEF Listed
  <2>6. Carries(Content(t.done), OthersUpTo(i, {"system"}))
    BY <1>1, <1>6, <2>3, CarriesUpTo DEF Listed
  <2>7. Len(t.system) + Len(Content(t.done)) = i
    <3>1. Len(t.system) = Len(s.system) + 1 /\ Len(Content(t.done)) = Len(Content(s.done))
      BY <1>5, <2>3
    <3>2. Len(t.system) + Len(Content(t.done)) = (Len(s.system) + 1) + Len(Content(s.done))
      BY <3>1, Zenon
    <3>3. (Len(s.system) + 1) + Len(Content(s.done)) = i
      BY <1>5, OneMore, Zenon
    <3> QED
      BY <3>2, <3>3, Zenon
  <2> QED
    BY <2>4, <2>5, <2>6, <2>7 DEF Listed, t, msg
<1>7. CASE r # "system"
  <2>1. t = [s EXCEPT !.done = Append(@, msg)]
    BY <1>2, <1>7 DEF Split
  <2>2. Append(s.done, msg) \in Seq(Piece)
    BY <1>1, <1>3
  <2>3. t.system = s.system /\ t.done = Append(s.done, msg)
    BY <1>1, <2>1 DEF Reading
  <2>4. t \in Reading
    BY <1>1, <2>1, <2>2 DEF Reading
  <2> HIDE DEF t
  <2>5. Carries(t.system, SystemsUpTo(i))
    BY <1>1, <1>7, <2>3, CarriesUpTo DEF Listed
  <2>6. Carries(Content(t.done), OthersUpTo(i, {"system"}))
    <3>1. Content(t.done) = IF r \in {"system"} THEN Content(s.done) ELSE Content(s.done) \o One(i)
      BY <1>4, <1>7, <2>3
    <3> QED
      BY <1>1, <3>1, CarriesUpTo DEF Listed
  <2>7. Len(t.system) + Len(Content(t.done)) = i
    <3>1. Len(t.system) = Len(s.system) /\ Len(Content(t.done)) = Len(Content(s.done)) + 1
      BY <1>4, <1>5, <2>3
    <3>2. Len(t.system) + Len(Content(t.done)) = Len(s.system) + (Len(Content(s.done)) + 1)
      BY <3>1, Zenon
    <3>3. Len(s.system) + (Len(Content(s.done)) + 1) = i
      BY <1>5, OneMore, Zenon
    <3> QED
      BY <3>2, <3>3, Zenon
  <2> QED
    BY <2>4, <2>5, <2>6, <2>7 DEF Listed, t, msg
<1> QED
  BY <1>6, <1>7

(* What buildGRPCRequest makes of all the messages for GPT.                *)
LEMMA LinesList ==
  ASSUME messages \in Seq(Roles)
  PROVE  LET p == Lines(Messages)
             n == Len(messages)
         IN  /\ p.system \in Seq(Nat) /\ p.dialog \in Seq(Piece)
             /\ Carries(p.system, SystemsUpTo(n))
             /\ Carries(Content(p.dialog), OthersUpTo(n, {"system"}))
             /\ Len(p.system) + Len(Content(p.dialog)) = n
<1> DEFINE n == Len(messages)
<1>1. PICK f : /\ f[0] = Unread
               /\ \A i \in 1 .. n : f[i] = Split(f[i - 1], Messages[i])
               /\ FoldLeft(Split, Unread, Messages) = f[n]
  BY MessagesAre, SplitSteps
<1> DEFINE S == {i \in Nat : i <= n => Listed(f[i], i)}
<1>2. 0 \in S
  <2>1. Len(<<>>) = 0
    OBVIOUS
  <2> QED
    <3>1. OthersUpTo(0, {"system"}) = {} /\ SystemsUpTo(0) = {}
      BY NothingTold
    <3>2. Listed(Unread, 0)
      <4>1. Unread \in Reading /\ Unread.system = <<>> /\ Content(Unread.done) = <<>>
        BY NothingTold, ContentEmpty
      <4>2. Len(Unread.system) = 0 /\ Len(Content(Unread.done)) = 0
        BY <2>1, <4>1
      <4>3. Len(Unread.system) + Len(Content(Unread.done)) = 0
        BY <4>2
      <4>4. Carries(Unread.system, SystemsUpTo(0))
        BY <3>1, <4>1, CarriesNothing
      <4>5. Carries(Content(Unread.done), OthersUpTo(0, {"system"}))
        BY <3>1, <4>1, CarriesNothing
      <4> QED
        BY <4>1, <4>3, <4>4, <4>5, Zenon DEF Listed
    <3> QED
      BY <1>1, <3>2
<1>3. ASSUME NEW i \in Nat, i \in S PROVE i + 1 \in S
  <2> SUFFICES ASSUME i + 1 <= n PROVE Listed(f[i + 1], i + 1)
    OBVIOUS
  <2>1. /\ i + 1 \in 1 .. n /\ (i + 1) - 1 = i /\ i + 1 \in Nat \ {0}
        /\ Listed(f[i], (i + 1) - 1)
    BY <1>3, MessagesAre
  <2>2. f[i + 1] = Split(f[i], Msg(messages[i + 1], i + 1)) /\ messages[i + 1] \in Roles
    BY <1>1, <2>1, MessagesAre
  <2> HIDE DEF S, n
  <2> QED
    BY <2>1, <2>2, SplitLists
<1>4. Listed(f[n], n)
  <2> HIDE DEF S
  <2>1. n \in S
    BY <1>2, <1>3, MessagesAre, Induction
  <2> QED
    BY <2>1, MessagesAre DEF S
<1>5. Lines(Messages).system = f[n].system /\ Lines(Messages).dialog = f[n].done
  BY <1>1 DEF Lines
<1> QED
  BY <1>4, <1>5 DEF Listed, Reading

(* The messages as they came are all there.                                *)
LEMMA MessagesWhole ==
  ASSUME messages \in Seq(Roles)
  PROVE  /\ Len(Content(Messages)) = Len(messages)
         /\ ToSet(Content(Messages)) = 1 .. Len(messages)
<1> DEFINE n == Len(messages)
<1>1. PICK f : /\ f[0] = <<>>
               /\ \A i \in 1 .. n : f[i] = Join(f[i - 1], Messages[i])
               /\ Content(Messages) = f[n]
  BY MessagesAre, JoinSteps
<1> DEFINE S == {i \in Nat : i <= n => f[i] \in Seq(Nat) /\ Len(f[i]) = i /\ Carries(f[i], 1 .. i)}
<1>2. 0 \in S
  <2>1. <<>> \in Seq(Nat) /\ Len(<<>>) = 0 /\ 1 .. 0 = {}
    OBVIOUS
  <2> QED
    BY <1>1, <2>1, CarriesNothing
<1>3. ASSUME NEW i \in Nat, i \in S PROVE i + 1 \in S
  <2> SUFFICES ASSUME i + 1 <= n
               PROVE  /\ f[i + 1] \in Seq(Nat) /\ Len(f[i + 1]) = i + 1
                      /\ Carries(f[i + 1], 1 .. i + 1)
    OBVIOUS
  <2>1. /\ i + 1 \in 1 .. n /\ (i + 1) - 1 = i /\ i + 1 \in Nat \ {0}
        /\ f[i] \in Seq(Nat) /\ Len(f[i]) = i /\ Carries(f[i], 1 .. i)
    BY <1>3, MessagesAre
  <2>2. f[i + 1] = f[i] \o One(i + 1)
    <3>1. Messages[i + 1].content = One(i + 1)
      BY <2>1, MessagesAre, MessageFields DEF Msg
    <3> QED
      BY <1>1, <2>1, <3>1 DEF Join
  <2>3. 1 .. i + 1 = (1 .. i) \cup {i + 1} /\ 1 .. i \subseteq 1 .. ((i + 1) - 1)
    OBVIOUS
  <2>4. Len(f[i] \o One(i + 1)) = i + 1
    BY <2>1 DEF One
  <2> HIDE DEF S, n
  <2> QED
    BY <2>1, <2>2, <2>3, <2>4, CarriesNext
<1>4. n \in S
  <2> HIDE DEF S
  <2> QED
    BY <1>2, <1>3, MessagesAre, Induction
<1> QED
  BY <1>1, <1>4, MessagesAre DEF Carries

-----------------------------------------------------------------------------
(* The roles of what is sent to Vertex.                                    *)
\* A message without a role stands between the two.
Silent(a, b) == \E j \in a .. b : messages[j] = NoRole

(* Messages that have been told apart by buildTokenCountParams: neighbours *)
(* of one role have a message without a role between them.                 *)
ApartAt(done, k) ==
  done[k].role = done[k + 1].role =>
    Silent(Last(done[k].content), Head(done[k + 1].content))

\* A piece of the first i messages that has a role.
Spoken(piece, i) ==
  /\ piece.role # NoRole
  /\ Len(piece.content) # 0
  /\ Last(piece.content) <= i

\* The piece that is being merged follows the last one that is done.
Follows(done, piece, i) ==
  /\ piece.role = NoRole => Silent(Last(done[Len(done)].content), i)
  /\ piece.role = done[Len(done)].role =>
       Silent(Last(done[Len(done)].content), Head(piece.content))

\* Every piece differs from the one before it, or follows a silence.
Parted(done, current, i) ==
  /\ \A k \in 1 .. Len(done) : Spoken(done[k], i)
  /\ \A k \in 1 .. Len(done) - 1 : ApartAt(done, k)
  /\ current.role # NoRole => Spoken(current, i)
  /\ Len(done) # 0 => Follows(done, current, i)

Apart(s, i) == s \in Reading /\ Parted(s.done, s.current, i)

(* A gap does not close.                                                   *)
LEMMA SilentLonger ==
  ASSUME NEW a \in Nat, NEW i \in Nat \ {0}, Silent(a, i - 1)
  PROVE  Silent(a, i)
<1>1. PICK j \in a .. (i - 1) : messages[j] = NoRole
  BY DEF Silent
<1>2. j \in a .. i
  OBVIOUS
<1> QED
  BY <1>1, <1>2 DEF Silent

(* The ends of a content that is not empty are numbers of messages.        *)
LEMMA EndsAreNumbers ==
  ASSUME NEW c \in Seq(Nat), Len(c) # 0
  PROVE  /\ Last(c) \in Nat /\ Head(c) \in Nat
         /\ \A i : Head(c \o One(i)) = Head(c)
<1>1. Len(c) \in 1 .. Len(c) /\ Len(c) \in Nat
  OBVIOUS
<1>2. Last(c) \in Nat
  BY <1>1 DEF Last
<1>3. Head(c) \in Nat
  OBVIOUS
<1>4. ASSUME NEW i PROVE Head(c \o One(i)) = Head(c)
  BY DEF One
<1> QED
  BY <1>2, <1>3, <1>4

(* The message that is appended is the last.                               *)
LEMMA EndsWith ==
  ASSUME NEW c \in Seq(Nat), NEW i \in Nat
  PROVE  /\ Last(c \o One(i)) = i /\ Len(c \o One(i)) # 0
         /\ Last(One(i)) = i /\ Head(One(i)) = i /\ Len(One(i)) # 0
<1>1. Len(c \o One(i)) = Len(c) + 1 /\ (c \o One(i))[Len(c) + 1] = i
  BY DEF One
<1>2. Len(One(i)) = 1 /\ One(i)[1] = i /\ Head(One(i)) = i
  BY DEF One
<1>3. Len(c \o One(i)) # 0
  BY DEF One
<1>4. Len(One(i)) # 0
  BY DEF One
<1> QED
  BY <1>1, <1>2, <1>3, <1>4 DEF Last

(* Time alone changes nothing of it.                                       *)
LEMMA ApartLonger ==
  ASSUME NEW s, NEW i \in Nat \ {0}, Apart(s, i - 1)
  PROVE  Apart(s, i)
<1>1. \A piece \in Piece : Spoken(piece, i - 1) => Spoken(piece, i)
  <2> SUFFICES ASSUME NEW piece \in Piece, Spoken(piece, i - 1) PROVE Spoken(piece, i)
    OBVIOUS
  <2>1. Last(piece.content) \in Nat
    BY EndsAreNumbers DEF Spoken, Piece
  <2> QED
    BY <2>1 DEF Spoken
<1>2. s.done \in Seq(Piece) /\ s.current \in Piece
  BY DEF Apart, Parted, Reading
<1>3. \A k \in 1 .. Len(s.done) : s.done[k] \in Piece
  BY <1>2
<1>4. ASSUME Len(s.done) # 0 PROVE Follows(s.done, s.current, i)
  <2>1. Len(s.done) \in 1 .. Len(s.done)
    BY <1>2, <1>4
  <2>2. Spoken(s.done[Len(s.done)], i - 1) /\ s.done[Len(s.done)] \in Piece
    BY <1>3, <2>1 DEF Apart, Parted
  <2>3. Last(s.done[Len(s.done)].content) \in Nat
    BY <2>2, EndsAreNumbers DEF Spoken, Piece
  <2>4. Follows(s.done, s.current, i - 1)
    BY <1>4 DEF Apart, Parted
  <2> QED
    BY <2>3, <2>4, SilentLonger DEF Follows
<1> QED
  BY <1>1, <1>2, <1>3, <1>4 DEF Apart, Parted

(* A message of the current role is merged, so that the next one to begin  *)
(* has another role, or comes after one without.                           *)
LEMMA MergeParts ==
  ASSUME NEW s, NEW i \in Nat \ {0}, messages[i] \in Roles, Apart(s, i - 1)
  PROVE  Apart(Merge(s, Msg(messages[i], i)), i)
<1> DEFINE r == messages[i]
           t == Merge(s, Msg(r, i))
<1>1. /\ s \in Reading /\ s.done \in Seq(Piece) /\ s.current \in Piece
      /\ s.current.content \in Seq(Nat)
  BY DEF Apart, Parted, Reading, Piece
<1>2. /\ t \in Reading
      /\ Listens(s, t, r, i) \/ Begins(s, t, r, i) \/ Continues(s, t, r, i) \/ Turns(s, t, r, i)
  BY <1>1, MergeFields
<1> HIDE DEF t
<1>3. Apart(s, i)
  BY ApartLonger
<1>4. /\ Msg(r, i).role = r /\ Msg(r, i).content = One(i)
      /\ Last(One(i)) = i /\ Head(One(i)) = i /\ Len(One(i)) # 0
  <2>1. <<>> \in Seq(Nat)
    OBVIOUS
  <2> QED
    BY <2>1, MessageFields, EndsWith DEF Msg
<1>5. Spoken(Msg(r, i), i) \/ r = NoRole
  BY <1>4 DEF Spoken
<1>6. CASE Listens(s, t, r, i)
  BY <1>2, <1>3, <1>6 DEF Listens, Apart, t
<1>7. CASE Begins(s, t, r, i)
  <2>1. t.done = s.done /\ t.current = Msg(r, i) /\ s.current.role = NoRole
    BY <1>7 DEF Begins
  <2>2. ASSUME Len(s.done) # 0 PROVE Follows(s.done, Msg(r, i), i)
    <3>1. Silent(Last(s.done[Len(s.done)].content), i)
      BY <1>3, <2>1, <2>2 DEF Apart, Parted, Follows
    <3> QED
      BY <1>4, <3>1 DEF Follows
  <2>3. Parted(s.done, Msg(r, i), i)
    BY <1>3, <1>4, <1>5, <2>2 DEF Apart, Parted
  <2> QED
    BY <1>2, <2>1, <2>3 DEF Apart, t
<1>8. CASE Continues(s, t, r, i)
  <2>1. /\ t.done = s.done /\ s.current.role = r /\ t.current.role = r /\ r # NoRole
        /\ t.current.content = s.current.content \o One(i)
    BY <1>8 DEF Continues
  <2>2. /\ Len(s.current.content) # 0
        /\ Last(t.current.content) = i /\ Len(t.current.content) # 0
        /\ Head(t.current.content) = Head(s.current.content)
    <3>1. Len(s.current.content) # 0
      BY <1>3, <2>1 DEF Apart, Parted, Spoken
    <3>2. Last(t.current.content) = i /\ Len(t.current.content) # 0
      BY <1>1, <2>1, EndsWith
    <3>3. Head(t.current.content) = Head(s.current.content)
      BY <1>1, <2>1, <3>1, EndsAreNumbers
    <3> QED
      BY <3>1, <3>2, <3>3
  <2>3. Spoken(t.current, i)
    BY <2>1, <2>2 DEF Spoken
  <2>4. ASSUME Len(s.done) # 0 PROVE Follows(s.done, t.current, i)
    <3>1. Follows(s.done, s.current, i)
      BY <1>3, <2>4 DEF Apart, Parted
    <3> QED
      BY <2>1, <2>2, <3>1 DEF Follows
  <2>5. Parted(s.done, t.current, i)
    BY <1>3, <2>3, <2>4 DEF Apart, Parted
  <2> QED
    BY <1>2, <2>1, <2>5 DEF Apart, t
<1>9. CASE Turns(s, t, r, i)
  <2>1. /\ t.done = Append(s.done, s.current) /\ t.current = Msg(r, i)
        /\ s.current.role # NoRole /\ s.current.role # r
    BY <1>9 DEF Turns
  <2> DEFINE n == Len(s.done)
  <2>2. /\ n \in Nat /\ Len(t.done) = n + 1 /\ t.done[n + 1] = s.current
        /\ \A k \in 1 .. n : t.done[k] = s.done[k]
        /\ n # 0 => Len(s.done) # 0
    BY <1>1, <2>1
  <2> HIDE DEF n
  <2>3. Spoken(s.current, i) /\ Spoken(s.current, i - 1)
    BY <1>3, <2>1 DEF Apart, Parted
  <2>4. ASSUME NEW k \in 1 .. Len(t.done) PROVE Spoken(t.done[k], i)
    <3>1. CASE k \in 1 .. n
      BY <1>3, <2>2, <3>1 DEF Apart, Parted, n
    <3>2. CASE k \notin 1 .. n
      <4>1. k = n + 1
        BY <2>2, <3>2
      <4> QED
        BY <2>2, <2>3, <4>1
    <3> QED
      BY <3>1, <3>2
  <2>5. ASSUME NEW k \in 1 .. Len(t.done) - 1 PROVE ApartAt(t.done, k)
    <3>1. CASE k = n
      <4>1. t.done[k] = s.done[n] /\ t.done[k + 1] = s.current
        BY <2>2, <2>5, <3>1
      <4>2. Follows(s.done, s.current, i)
        BY <1>3, <2>2, <2>5, <3>1 DEF Apart, Parted
      <4> QED
        BY <4>1, <4>2 DEF ApartAt, Follows, n
    <3>2. CASE k # n
      <4>1. k \in 1 .. n - 1 /\ t.done[k] = s.done[k] /\ t.done[k + 1] = s.done[k + 1]
        BY <2>2, <2>5, <3>2
      <4>2. ApartAt(s.done, k)
        BY <1>3, <4>1 DEF Apart, Parted, n
      <4> QED
        BY <4>1, <4>2 DEF ApartAt
    <3> QED
      BY <3>1, <3>2
  <2>6. Follows(t.done, t.current, i)
    <3>1. t.done[Len(t.done)] = s.current
      BY <2>2
    <3>2. Last(s.current.content) \in Nat /\ Last(s.current.content) <= i - 1
      BY <1>1, <2>3, EndsAreNumbers DEF Spoken
    <3>3. ASSUME r = NoRole PROVE Silent(Last(s.current.content), i)
      <4>1. i \in Last(s.current.content) .. i
        BY <3>2
      <4> QED
        BY <3>3, <4>1 DEF Silent
    <3> QED
      BY <1>4, <2>1, <3>1, <3>3 DEF Follows
  <2>7. t.current.role # NoRole => Spoken(t.current, i)
    BY <1>4, <1>5, <2>1
  <2>8. Parted(t.done, t.current, i)
    BY <2>4, <2>5, <2>6, <2>7 DEF Parted
  <2> QED
    BY <1>2, <2>8 DEF Apart, t
<1> QED
  BY <1>2, <1>6, <1>7, <1>8, <1>9 DEF t

(* What buildTokenCountParams makes of all the messages.                   *)
LEMMA ParamsAreApart ==
  ASSUME messages \in Seq(Roles)
  PROVE  \A k \in 1 .. Len(Params(Messages).dialog) - 1 : ApartAt(Params(Messages).dialog, k)
<1> DEFINE n == Len(messages)
<1>1. PICK f : /\ f[0] = Unread
               /\ \A i \in 1 .. n : f[i] = Merge(f[i - 1], Messages[i])
               /\ FoldLeft(Merge, Unread, Messages) = f[n]
  BY MessagesAre, MergeSteps
<1> DEFINE S == {i \in Nat : i <= n => Apart(f[i], i)}
<1>2. 0 \in S
  <2>1. Len(<<>>) = 0
    OBVIOUS
  <2> QED
    BY <1>1, <2>1, NothingTold DEF Apart, Parted
<1>3. ASSUME NEW i \in Nat, i \in S PROVE i + 1 \in S
  <2> SUFFICES ASSUME i + 1 <= n PROVE Apart(f[i + 1], i + 1)
    OBVIOUS
  <2>1. /\ i + 1 \in 1 .. n /\ (i + 1) - 1 = i /\ i + 1 \in Nat \ {0}
        /\ Apart(f[i], (i + 1) - 1)
    BY <1>3, MessagesAre
  <2>2. f[i + 1] = Merge(f[i], Msg(messages[i + 1], i + 1)) /\ messages[i + 1] \in Roles
    BY <1>1, <2>1, MessagesAre
  <2> HIDE DEF S, n
  <2> QED
    BY <2>1, <2>2, MergeParts
<1>4. Apart(f[n], n)
  <2> HIDE DEF S
  <2>1. n \in S
    BY <1>2, <1>3, MessagesAre, Induction
  <2> QED
    BY <2>1, MessagesAre DEF S
<1> DEFINE end == f[n]
           d == Params(Messages).dialog
<1>5. d = IF end.current.role # NoRole THEN Append(end.done, end.current) ELSE end.done
  BY <1>1 DEF Params
<1> HIDE DEF d, end
<1>6. end.done \in Seq(Piece) /\ end.current \in Piece /\ Apart(end, n)
  BY <1>4 DEF Apart, Parted, Reading, end
<1>7. CASE end.current.role = NoRole
  BY <1>5, <1>6, <1>7 DEF Apart, Parted, d
<1>8. CASE end.current.role # NoRole
  <2> DEFINE l == Len(end.done)
  <2>1. /\ l \in Nat /\ Len(d) = l + 1 /\ d[l + 1] = end.current
        /\ \A k \in 1 .. l : d[k] = end.done[k]
        /\ l # 0 => Len(end.done) # 0
    BY <1>5, <1>6, <1>8
  <2> HIDE DEF l
  <2>2. ASSUME NEW k \in 1 .. Len(d) - 1 PROVE ApartAt(d, k)
    <3>1. CASE k = l
      <4>1. d[k] = end.done[l] /\ d[k + 1] = end.current
        BY <2>1, <2>2, <3>1
      <4>2. Follows(end.done, end.current, n)
        BY <1>6, <2>1, <2>2, <3>1 DEF Apart, Parted
      <4> QED
        BY <4>1, <4>2 DEF ApartAt, Follows, l
    <3>2. CASE k # l
      <4>1. k \in 1 .. l - 1 /\ d[k] = end.done[k] /\ d[k + 1] = end.done[k + 1]
        BY <2>1, <2>2, <3>2
      <4>2. ApartAt(end.done, k)
        BY <1>6, <4>1 DEF Apart, Parted, l
      <4> QED
        BY <4>1, <4>2 DEF ApartAt
    <3> QED
      BY <3>1, <3>2
  <2> QED
    BY <2>2 DEF d
<1> QED
  BY <1>7, <1>8

(* What is built of a request of any model.                                *)
LEMMA BuildKeeps ==
  ASSUME messages \in Seq(Roles), NEW m \in Names \cup {NoName}
  PROVE  LET b == BuildRequest(m)
             lost == IF IsGPTModel(b.model) THEN {"system"} ELSE {"system", NoRole}
         IN  /\ IsGPTModel(b.model) <=> IsGPTModel(m)
             /\ b.system \in Seq(Nat) /\ b.dialog \in Seq(Piece)
             /\ Carries(b.system, SystemsUpTo(Len(messages)))
             /\ Carries(Content(b.dialog), OthersUpTo(Len(messages), lost))
             /\ ~IsGPTModel(b.model) =>
                  \A k \in 1 .. Len(b.dialog) - 1 : ApartAt(b.dialog, k)
<1> DEFINE b == BuildRequest(m)
<1>1. CASE IsGPTModel(m)
  <2>1. /\ b.model = m
        /\ b.system = Lines(Messages).system /\ b.dialog = Lines(Messages).dialog
    BY <1>1 DEF BuildRequest, Built
  <2> HIDE DEF b
  <2> QED
    BY <1>1, <2>1, LinesList DEF b
<1>2. CASE ~IsGPTModel(m)
  <2>1. /\ b.model = Normalize(m)
        /\ b.system = Params(Messages).system /\ b.dialog = Params(Messages).dialog
    BY <1>2 DEF BuildRequest, Built
  <2>2. ~IsGPTModel(b.model)
    BY <1>2, <2>1 DEF Normalize, IsGPTModel, Names, NoName
  <2> HIDE DEF b
  <2> QED
    BY <1>2, <2>1, <2>2, ParamsTell, ParamsAreApart DEF b
<1> QED
  BY <1>1, <1>2

(* Two sequences in a row hold what either holds.                          *)
LEMMA JoinedSet ==
  ASSUME NEW c \in Seq(Nat), NEW d \in Seq(Nat)
  PROVE  ToSet(c \o d) = ToSet(c) \cup ToSet(d) /\ Len(c \o d) = Len(c) + Len(d)
<1> DEFINE e == c \o d
<1>1. /\ e \in Seq(Nat) /\ Len(e) = Len(c) + Len(d) /\ Len(c) \in Nat /\ Len(d) \in Nat
      /\ DOMAIN e = 1 .. Len(e) /\ DOMAIN c = 1 .. Len(c) /\ DOMAIN d = 1 .. Len(d)
      /\ \A j \in 1 .. Len(c) : e[j] = c[j]
      /\ \A j \in 1 .. Len(d) : e[Len(c) + j] = d[j]
  OBVIOUS
<1> HIDE DEF e
<1>2. ASSUME NEW x \in ToSet(e) PROVE x \in ToSet(c) \cup ToSet(d)
  <2>1. PICK j \in 1 .. Len(e) : x = e[j]
    BY <1>1, <1>2 DEF ToSet
  <2>2. CASE j \in 1 .. Len(c)
    BY <1>1, <2>1, <2>2 DEF ToSet
  <2>3. CASE j \notin 1 .. Len(c)
    <3>1. j - Len(c) \in 1 .. Len(d) /\ j = Len(c) + (j - Len(c))
      BY <1>1, <2>3
    <3>2. x = d[j - Len(c)]
      BY <1>1, <2>1, <3>1
    <3> QED
      BY <1>1, <3>1, <3>2 DEF ToSet
  <2> QED
    BY <2>2, <2>3
<1>3. ASSUME NEW x \in ToSet(c) PROVE x \in ToSet(e)
  <2>1. PICK j \in 1 .. Len(c) : x = c[j]
    BY <1>1, <1>3 DEF ToSet
  <2>2. j \in DOMAIN e /\ x = e[j]
    BY <1>1, <2>1
  <2> QED
    BY <2>2 DEF ToSet
<1>4. ASSUME NEW x \in ToSet(d) PROVE x \in ToSet(e)
  <2>1. PICK j \in 1 .. Len(d) : x = d[j]
    BY <1>1, <1>4 DEF ToSet
  <2>2. Len(c) + j \in DOMAIN e /\ x = e[Len(c) + j]
    BY <1>1, <2>1
  <2> QED
    BY <2>2 DEF ToSet
<1>5. ToSet(e) = ToSet(c) \cup ToSet(d)
  BY <1>2, <1>3, <1>4
<1> QED
  BY <1>1, <1>5 DEF e

(* What is counted of a request is what is built of it.                    *)
LEMMA CountMatches ==
  ASSUME messages \in Seq(Roles), NEW m
  PROVE  LET b == BuildRequest(m)
             content == b.system \o Content(b.dialog)
         IN  Len(Counted(m)) = Len(content) /\ ToSet(Counted(m)) = ToSet(content)
<1>1. CASE IsGPTModel(m)
  <2> DEFINE system == Lines(Messages).system
             others == Content(Lines(Messages).dialog)
             n == Len(messages)
  <2>1. /\ Counted(m) = Content(Messages)
        /\ BuildRequest(m).system \o Content(BuildRequest(m).dialog) = system \o others
    BY <1>1 DEF Counted, BuildRequest, Built
  <2>2. system \in Seq(Nat) /\ others \in Seq(Nat) /\ Len(system) + Len(others) = n
    BY LinesList, ContentType
  <2>3. ToSet(system) = SystemsUpTo(n) /\ ToSet(others) = OthersUpTo(n, {"system"})
    BY LinesList DEF Carries
  <2> HIDE DEF system, others
  <2>4. Len(system \o others) = n /\ ToSet(system \o others) = ToSet(system) \cup ToSet(others)
    BY <2>2, JoinedSet
  <2>5. SystemsUpTo(n) \cup OthersUpTo(n, {"system"}) = 1 .. n
    BY DEF SystemsUpTo, OthersUpTo
  <2> QED
    BY <2>1, <2>3, <2>4, <2>5, MessagesWhole
<1>2. CASE ~IsGPTModel(m)
  <2>1. BuildRequest(m).system \o Content(BuildRequest(m).dialog) = Counted(m)
    BY <1>2 DEF Counted, BuildRequest, Built
  <2> QED
    BY <2>1
<1> QED
  BY <1>1, <1>2

-----------------------------------------------------------------------------
(* What the request that is under way was built from, and what is counted. *)
Faithful ==
  /\ messages \in Seq(Roles)
  /\ ContentKept /\ RolesAlternate /\ CountedIsSent
  /\ pc = "calling" => sent = <<BuildRequest(model)>>
  /\ pc # "returned" => reply.kind = "none"

(* A call sends what is built of the messages that were asked.             *)
LEMMA CallIsFaithful ==
  ASSUME CompletionInv, Faithful, Call
  PROVE  Faithful'
<1> DEFINE b == BuildRequest(model)
           n == Len(messages)
<1>1. /\ pc = "call" /\ pc' = "calling" /\ sent' = <<b>>
      /\ messages' = messages /\ model' = model /\ reply' = reply
      /\ model \in Names \cup {NoName}
  BY DEF Call, CompletionInv, OneAttempt, Unsent, Named
<1>2. b' = b
  <2>1. Messages' = Messages
    BY <1>1 DEF Messages
  <2> QED
    BY <1>1, <2>1 DEF BuildRequest
<1> HIDE DEF b
<1>3. DOMAIN sent' = {1} /\ sent'[1] = b
  BY <1>1
<1>4. \A lost : {i \in DOMAIN messages : messages[i] \notin lost} = OthersUpTo(n, lost)
  BY MessagesAre DEF Faithful, OthersUpTo
<1>5. {i \in DOMAIN messages : messages[i] = "system"} = SystemsUpTo(n)
  BY MessagesAre DEF Faithful, SystemsUpTo
<1> DEFINE lost == IF IsGPTModel(b.model) THEN {"system"} ELSE {"system", NoRole}
<1>6. /\ Carries(b.system, SystemsUpTo(n))
      /\ Carries(Content(b.dialog), OthersUpTo(n, lost))
      /\ ~IsGPTModel(b.model) => \A k \in 1 .. Len(b.dialog) - 1 : ApartAt(b.dialog, k)
  BY <1>1, BuildKeeps DEF Faithful, b
<1>7. ContentKept'
  <2>1. /\ Carries(Content(b.dialog), {i \in DOMAIN messages : messages[i] \notin lost})
        /\ Carries(b.system, {i \in DOMAIN messages : messages[i] = "system"})
    BY <1>4, <1>5, <1>6
  <2>2. \A k \in DOMAIN sent' : sent'[k] = b
    BY <1>3
  <2> QED
    BY <1>1, <2>1, <2>2 DEF ContentKept
<1>9. RolesAlternate'
  <2>1. \A k \in DOMAIN sent' : sent'[k] = b
    BY <1>3
  <2>2. \A i \in 1 .. Len(b.dialog) - 1 :
          b.dialog[i].role = b.dialog[i + 1].role /\ ~IsGPTModel(b.model) =>
            \E j \in Last(b.dialog[i].content) .. Head(b.dialog[i + 1].content) :
              messages[j] = NoRole
    BY <1>6 DEF ApartAt, Silent
  <2> QED
    BY <1>1, <2>1, <2>2 DEF RolesAlternate
<1>8. CountedIsSent'
  BY <1>1 DEF Faithful, CountedIsSent
<1> QED
  BY <1>1, <1>2, <1>7, <1>8, <1>9 DEF Faithful, b

(* An answer reports what the call of this attempt has sent.               *)
LEMMA AnswerIsFaithful ==
  ASSUME Faithful, CallAnswers
  PROVE  Faithful'
<1>1. /\ pc = "calling" /\ pc' = "returned" /\ reply'.counted = Counted(model)
      /\ UNCHANGED <<messages, model, sent>>
  BY DEF CallAnswers, Answer, Stream, Reply
<1>2. sent = <<BuildRequest(model)>> /\ Last(sent) = BuildRequest(model)
  <2>1. sent = <<BuildRequest(model)>>
    BY <1>1 DEF Faithful
  <2>2. Len(sent) = 1 /\ sent[1] = BuildRequest(model)
    BY <2>1
  <2> QED
    BY <2>1, <2>2 DEF Last
<1>3. CountedIsSent'
  BY <1>1, <1>2, CountMatches DEF CountedIsSent, Faithful
<1>4. ContentKept' /\ RolesAlternate'
  BY <1>1 DEF ContentKept, RolesAlternate, Faithful
<1> QED
  BY <1>1, <1>3, <1>4 DEF Faithful

(* The other steps neither send nor count, and leave the messages alone.   *)
LEMMA OthersAreFaithful ==
  ASSUME CompletionInv, Faithful,
         \/ Attempt \/ GiveUp \/ Resolve \/ Connected \/ NoConnection \/ CallFails
         \/ RefuseBody \/ UNCHANGED vars
  PROVE  Faithful'
<1>1. /\ UNCHANGED <<messages, sent>>
      /\ pc' # "calling" \/ (pc' = pc /\ model' = model)
      /\ reply' = reply \/ (pc' = "returned" /\ reply'.kind \notin {"answer", "stream"})
      /\ pc' = "returned" \/ pc = "returned" \/ reply' = reply
      /\ pc = "returned" => pc' = "returned"
  <2>1. CASE NoConnection \/ CallFails
    BY <2>1, FailTypes DEF NoConnection, CallFails, Causes
  <2>2. CASE Resolve
    BY <2>2, FailTypes DEF Resolve
  <2>3. CASE Attempt \/ GiveUp \/ Connected \/ RefuseBody \/ UNCHANGED vars
    BY <2>3 DEF Attempt, GiveUp, Connected, RefuseBody, vars, OutOfRetries, BadRequest, Reply
  <2> QED
    BY <2>1, <2>2, <2>3
<1>2. ContentKept' /\ RolesAlternate'
  BY <1>1 DEF ContentKept, RolesAlternate, Faithful
<1>3. CountedIsSent'
  BY <1>1 DEF CountedIsSent, Faithful
<1>4. pc' = "calling" => sent' = <<BuildRequest(model)>>'
  <2>1. Messages' = Messages
    BY <1>1 DEF Messages
  <2> QED
    BY <1>1, <2>1 DEF Faithful, BuildRequest
<1> QED
  BY <1>1, <1>2, <1>3, <1>4 DEF Faithful

(* New messages come when nothing has been sent.                           *)
LEMMA HandleIsFaithful ==
  ASSUME CompletionInv, Faithful, NEW m \in Names \cup {NoName}, HandleCompletion(m)
  PROVE  Faithful'
<1>1. /\ pc = "unread" /\ pc' \in {"returned", "resolve", "loop"} /\ sent' = sent
      /\ reply' = NoFlusher \/ reply' = reply
      /\ pc' # "returned" => reply' = reply
  BY DEF HandleCompletion
<1>2. sent' = <<>> /\ reply'.kind \notin {"answer", "stream"}
  BY <1>1 DEF CompletionInv, Faithful, NoFlusher, Reply
<1>3. messages' \in Seq(Roles)
  <2>1. PICK k \in 0 .. MaxMessages : messages' \in [1 .. k -> Roles]
    BY DEF HandleCompletion
  <2> QED
    BY <2>1
<1>4. ContentKept' /\ RolesAlternate' /\ CountedIsSent'
  <2>1. DOMAIN sent' = {}
    BY <1>2
  <2> QED
    BY <1>2, <2>1 DEF ContentKept, RolesAlternate, CountedIsSent
<1> QED
  BY <1>1, <1>3, <1>4 DEF Faithful

(* No step of the request breaks it.                                       *)
LEMMA FaithfulStep ==
  ASSUME RequestInv, Faithful, [RequestNext]_<<gate, completion>>
  PROVE  Faithful'
<1>1. \/ Complete \/ UNCHANGED vars \/ RefuseBody
      \/ \E m \in Names \cup {NoName} : HandleCompletion(m)
  BY DEF RequestNext, Handle, completion, RequestInv, GateInv
<1> QED
  BY <1>1, CallIsFaithful, AnswerIsFaithful, OthersAreFaithful, HandleIsFaithful
  DEF Complete, RequestInv

(* So it always holds.                                                     *)
LEMMA FaithfulInvariant == RequestSpec => []Faithful
<1>1. RequestInit => Faithful
  <2> SUFFICES ASSUME Init PROVE Faithful
    BY DEF RequestInit
  <2>1. messages \in Seq(Roles) /\ DOMAIN sent = {} /\ pc = "unread" /\ reply.kind = "none"
    BY DEF Init, NoReply, Reply
  <2> QED
    BY <2>1 DEF Faithful, ContentKept, RolesAlternate, CountedIsSent
<1> QED
  BY <1>1, FaithfulStep, RequestInvariant, PTL DEF RequestSpec

(* For every conversation and every model: each call carries every message *)
(* in its order and once, but those without a role when it is to Vertex.   *)
THEOREM ContentIsKept == RequestSpec => []ContentKept
<1>1. Faithful => ContentKept
  BY DEF Faithful
<1> QED
  BY <1>1, FaithfulInvariant, PTL

(* Two neighbours sent to Vertex have one role only where a message        *)
(* without a role was lost between them.                                   *)
THEOREM VertexTurnsAlternate == RequestSpec => []RolesAlternate
<1>1. Faithful => RolesAlternate
  BY DEF Faithful
<1> QED
  BY <1>1, FaithfulInvariant, PTL

(* The usage counts as many messages as were sent, and the same ones,      *)
(* although the count and the request are made apart from each other.      *)
THEOREM UsageIsOfTheCall == RequestSpec => []CountedIsSent
<1>1. Faithful => CountedIsSent
  BY DEF Faithful
<1> QED
  BY <1>1, FaithfulInvariant, PTL
=============================================================================
