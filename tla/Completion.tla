----------------------------- MODULE Completion -----------------------------
(***************************************************************************)
(* One completion: HandleCompletion decodes the request and leads either   *)
(* to the retry loop of ChatService.CreateCompletion around                *)
(* GRPCService.SendCompletion, or once to SendCompletionStream.  Both      *)
(* settle the model, take a connection, build the message for GPT or for   *)
(* Vertex and call the service.  What becomes of a stream that has been    *)
(* opened is the subject of StreamPipeline.                                *)
(*                                                                         *)
(* The content of a message is its number, so that what is sent and what   *)
(* is counted can be compared with what was asked.                         *)
(***************************************************************************)
EXTENDS Models

CONSTANTS
  MaxMessages,      \* bound: the length of a conversation
  Retries           \* the values of MAX_RETRIES to look at

NoRole == ""

Roles == {"system", "user", "assistant", NoRole}

ASSUME CompletionAssumption ==
  /\ MaxMessages \in Nat
  /\ Retries \subseteq Int

VARIABLES
  maxRetries,    \* config.MaxRetries
  defaultModel,  \* config.DefaultModel
  stream,        \* req.Stream
  messages,      \* the roles of req.Messages
  asked,         \* the model named in the body that is decoded
  model,         \* req.Model
  original,      \* originalModel of the attempt that runs
  attempt,       \* the variable i of the loop
  pc,            \* where the request stands
  sent,          \* what each call sent, oldest first
  reply          \* what the client is answered

settings == <<maxRetries, defaultModel>>
request == <<settings, stream, messages, asked>>
vars == <<request, model, original, attempt, pc, sent, reply>>

-----------------------------------------------------------------------------
(* req.Messages: the content of a message is what it has been merged from. *)
Message(role, content) == [role |-> role, content |-> content]

Messages == [i \in 1 .. Len(messages) |-> Message(messages[i], <<i>>)]

Unread == [system |-> <<>>, done |-> <<>>, current |-> Message(NoRole, <<>>)]

\* A faulty loop that starts a new message at every message.
MergeNever(s, msg) ==
  CASE msg.role = "system" -> [s EXCEPT !.system = @ \o msg.content]
    [] msg.role # "system" /\ s.current.role = NoRole -> [s EXCEPT !.current = msg]
    [] OTHER -> [s EXCEPT !.done = Append(@, s.current), !.current = msg]

(* The loop of buildTokenCountParams: messages of one role in a row are    *)
(* merged.  A message without a role is overwritten by the next one.       *)
Merge(s, msg) ==
  CASE msg.role = "system" -> [s EXCEPT !.system = @ \o msg.content]
    [] msg.role # "system" /\ s.current.role = NoRole -> [s EXCEPT !.current = msg]
    [] msg.role # "system" /\ s.current.role # NoRole /\ s.current.role = msg.role ->
         [s EXCEPT !.current.content = @ \o msg.content]
    [] OTHER -> [s EXCEPT !.done = Append(@, s.current), !.current = msg]

\* A faulty build that forgets the message it is merging.
ParamsForgettingLast(msgs) ==
  LET end == FoldLeft(Merge, Unread, msgs)
  IN  [system |-> end.system, dialog |-> end.done]

(* buildTokenCountParams: the system messages apart from the merged ones.  *)
Params(msgs) ==
  LET end == FoldLeft(Merge, Unread, msgs)
  IN  [system |-> end.system,
       dialog |-> IF end.current.role # NoRole THEN Append(end.done, end.current) ELSE end.done]

(* The loop of buildGRPCRequest for GPT: every other message has a line of *)
(* its own.                                                                *)
Split(s, msg) ==
  IF msg.role = "system" THEN [s EXCEPT !.system = @ \o msg.content]
  ELSE [s EXCEPT !.done = Append(@, msg)]

Lines(msgs) ==
  LET end == FoldLeft(Split, Unread, msgs)
  IN  [system |-> end.system, dialog |-> end.done]

Built(m, text) == [model |-> m, system |-> text.system, dialog |-> text.dialog]

\* A faulty build that trusts the name it is given.
BuildUnnormalized(m) ==
  Built(m, IF IsGPTModel(m) THEN Lines(Messages) ELSE Params(Messages))

(* buildGRPCRequest: the name as it is for GPT, normalized for Vertex.     *)
BuildRequest(m) ==
  IF IsGPTModel(m) THEN Built(m, Lines(Messages))
                   ELSE Built(Normalize(m), Params(Messages))

-----------------------------------------------------------------------------
Join(s, msg) == s \o msg.content

\* What is written of a dialog, one message after the other.
Content(dialog) == FoldLeft(Join, <<>>, dialog)

\* A faulty count that takes the messages as they came, for either service.
CountAsked(m) == Content(Messages)

(* The messages whose tokens are counted: all of them for GPT, and what    *)
(* buildTokenCountParams leaves of them for Vertex.                        *)
Counted(m) ==
  IF IsGPTModel(m) THEN Content(Messages)
  ELSE Params(Messages).system \o Content(Params(Messages).dialog)

-----------------------------------------------------------------------------
(* What SendCompletion makes of an error: fmt.Errorf with %v keeps the     *)
(* text and loses the status.                                              *)
Causes == {"Unavailable", "DeadlineExceeded", "InvalidArgument", "none"}

Reply(kind, m, counted) ==
  [kind |-> kind, status |-> "none", text |-> "none", model |-> m, counted |-> counted]

Failure(status, text) ==
  [Reply("error", NoName, <<>>) EXCEPT !.status = status, !.text = text]

Wrap(cause) == Failure("none", cause)

NoReply == Reply("none", NoName, <<>>)
APIError == Reply("apiError", NoName, <<>>)
OutOfRetries == Reply("outOfRetries", NoName, <<>>)
CtxError == Reply("ctxError", NoName, <<>>)
BadRequest == Reply("badRequest", NoName, <<>>)
NoFlusher == Reply("noFlusher", NoName, <<>>)
Answer(m, counted) == Reply("answer", m, counted)
Stream(m, counted) == Reply("stream", m, counted)

(* The statuses to be retried; what else shouldRetry looks for, errors of  *)
(* the context and of the network, Wrap loses as well.                     *)
Retryable == {"Unavailable", "DeadlineExceeded"}

ShouldRetry(err) == err.status \in Retryable

(* CreateCompletion returns an error that is not to be retried; otherwise  *)
(* it waits and goes round, unless the context ends the wait.              *)
(* CreateCompletionStream reports any error.                               *)
Outcomes(err) ==
  IF ShouldRetry(err) /\ ~stream THEN {NoReply, CtxError} ELSE {err}

Fail(err) ==
  \E r \in Outcomes(err) :
    /\ reply' = r
    /\ pc' = IF r = NoReply THEN "loop" ELSE "returned"
    /\ attempt' = IF r = NoReply THEN attempt + 1 ELSE attempt

-----------------------------------------------------------------------------
Init ==
  /\ maxRetries \in Retries
  /\ defaultModel \in {NoName} \cup {m \in Names : IsModelSupported(m)}
  /\ stream = FALSE
  /\ messages = <<>>
  /\ asked = NoName
  /\ model = NoName
  /\ original = NoName
  /\ attempt = 0
  /\ pc = "unread"
  /\ sent = <<>>
  /\ reply = NoReply

(* HandleCompletion, with the model m in the body.  A stream needs an      *)
(* http.Flusher, which the timeout middleware hides when it sets a limit.  *)
HandleCompletion(m) ==
  /\ pc = "unread"
  /\ \E s, flusher \in BOOLEAN :
       /\ stream' = s
       /\ IF s /\ ~flusher
            THEN pc' = "returned" /\ reply' = NoFlusher
            ELSE pc' = (IF s THEN "resolve" ELSE "loop") /\ UNCHANGED reply
  /\ messages' \in UNION {[1 .. n -> Roles] : n \in 0 .. MaxMessages}
  /\ asked' = m
  /\ model' = m
  /\ UNCHANGED <<settings, original, attempt, sent>>

\* The body is not the JSON of a request.
RefuseBody ==
  /\ pc = "unread"
  /\ pc' = "returned"
  /\ reply' = BadRequest
  /\ UNCHANGED <<request, model, original, attempt, sent>>

Attempt ==
  /\ pc = "loop"
  /\ attempt < maxRetries
  /\ pc' = "resolve"
  /\ UNCHANGED <<request, model, original, attempt, sent, reply>>

GiveUp ==
  /\ pc = "loop"
  /\ attempt >= maxRetries
  /\ pc' = "returned"
  /\ reply' = OutOfRetries
  /\ UNCHANGED <<request, model, original, attempt, sent>>

\* A faulty resolution that does not look whether there is a default model.
ResolveBlindly ==
  /\ pc = "resolve"
  /\ original' = model
  /\ model' = IF IsModelSupported(model) THEN Normalize(model) ELSE defaultModel
  /\ pc' = "connect"
  /\ UNCHANGED <<request, attempt, sent, reply>>

\* The model is settled in req itself.
Resolve ==
  /\ pc = "resolve"
  /\ original' = model
  /\ model' = IF IsModelSupported(model) \/ defaultModel = NoName
                THEN Normalize(model) ELSE defaultModel
  /\ IF IsModelSupported(model) \/ defaultModel # NoName
       THEN pc' = "connect" /\ UNCHANGED <<attempt, reply>>
       ELSE Fail(APIError)
  /\ UNCHANGED <<request, sent>>

Connected ==
  /\ pc = "connect"
  /\ pc' = "call"
  /\ UNCHANGED <<request, model, original, attempt, sent, reply>>

NoConnection ==
  /\ pc = "connect"
  /\ Fail(Wrap("none"))
  /\ UNCHANGED <<request, model, original, sent>>

Call ==
  /\ pc = "call"
  /\ sent' = Append(sent, BuildRequest(model))
  /\ pc' = "calling"
  /\ UNCHANGED <<request, model, original, attempt, reply>>

\* The answer arrives, or the stream is open.
CallAnswers ==
  /\ pc = "calling"
  /\ reply' = IF stream THEN Stream(original, Counted(model))
                        ELSE Answer(original, Counted(model))
  /\ pc' = "returned"
  /\ UNCHANGED <<request, model, original, attempt, sent>>

\* The call fails with a status, or its answer has no content ("none").
CallFails ==
  /\ pc = "calling"
  /\ \E cause \in Causes : Fail(Wrap(cause))
  /\ UNCHANGED <<request, model, original, sent>>

Complete ==
  \/ Attempt \/ GiveUp
  \/ Resolve
  \/ Connected \/ NoConnection
  \/ Call \/ CallAnswers \/ CallFails

Next ==
  \/ \E m \in Names \cup {NoName} : HandleCompletion(m)
  \/ RefuseBody
  \/ Complete

Spec == Init /\ [][Next]_vars

-----------------------------------------------------------------------------
TypeOK ==
  /\ maxRetries \in Retries
  /\ defaultModel \in Names \cup {NoName}
  /\ stream \in BOOLEAN
  /\ messages \in Seq(Roles)
  /\ {asked, model} \subseteq Names \cup {NoName}
  /\ original \in Names \cup {NoName}
  /\ attempt \in {0} \cup 0 .. maxRetries
  /\ pc \in {"unread", "loop", "resolve", "connect", "call", "calling", "returned"}
  /\ \A k \in DOMAIN sent : sent[k].model \in Names
  /\ reply.kind \in {"none", "answer", "stream", "error", "apiError", "ctxError",
                      "outOfRetries", "badRequest", "noFlusher"}

\* These messages, in their order, and each of them once.
Carries(content, numbers) ==
  /\ \A i, j \in DOMAIN content : i < j => content[i] < content[j]
  /\ ToSet(content) = numbers

(* Whatever the client sends, each call carries every system message, and  *)
(* in order the content of every other message: of all of them to GPT, of  *)
(* those that have a role to Vertex, where one without is lost for good.   *)
ContentKept ==
  \A k \in DOMAIN sent :
    LET lost == IF IsGPTModel(sent[k].model) THEN {"system"} ELSE {"system", NoRole}
    IN  /\ Carries(Content(sent[k].dialog), {i \in DOMAIN messages : messages[i] \notin lost})
        /\ Carries(sent[k].system, {i \in DOMAIN messages : messages[i] = "system"})

(* Two neighbours sent to Vertex have the same role only if a message that *)
(* had none, and was lost, stood between them.                             *)
RolesAlternate ==
  \A k \in DOMAIN sent :
    \A i \in 1 .. Len(sent[k].dialog) - 1 :
      LET p == sent[k].dialog[i]
          q == sent[k].dialog[i + 1]
      IN  p.role = q.role /\ ~IsGPTModel(sent[k].model) =>
            \E j \in Last(p.content) .. Head(q.content) : messages[j] = NoRole

(* The service is only asked for a model in the list, under the name the   *)
(* list has for it, also when DEFAULT_MODEL is written the other way.      *)
ModelSentIsListed == \A k \in DOMAIN sent : sent[k].model \in SupportedModels

(* The usage reported with an answer is that of the prompt that was sent:  *)
(* the count and the request are made apart from each other, for either    *)
(* service in its own way, and cover the same messages, each once.         *)
CountedIsSent ==
  reply.kind \in {"answer", "stream"} =>
    LET last == Last(sent)
        content == last.system \o Content(last.dialog)
    IN  /\ Len(reply.counted) = Len(content)
        /\ ToSet(reply.counted) = ToSet(content)

(* MAX_RETRIES is the number of retries (readme.md:199), and a call that   *)
(* fails in passing is made again after a while (chat.go:45): its error is *)
(* no answer as long as there are attempts left.                           *)
TransientIsRetried ==
  reply.kind = "error" /\ ~stream /\ attempt + 1 < maxRetries =>
    reply.text \notin Retryable
=============================================================================
