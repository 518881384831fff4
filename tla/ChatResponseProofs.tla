------------------------- MODULE ChatResponseProofs -------------------------
(***************************************************************************)
(* Proofs about the timeout middleware, for any length of a stream, and    *)
(* about a request as a whole: what holds of the middleware and of the     *)
(* pipeline by themselves holds of the two together.                       *)
(***************************************************************************)
EXTENDS ChatResponse, StreamPipelineProofs, SequenceTheorems, TLAPS

(* What the handler has sent, by where it stands, as long as nobody but    *)
(* the handler writes.                                                     *)
Header == Piece("handler", "header")

SentSoFar ==
  /\ hd \in {"work", "mark", "write", "test", "header"} => wire = <<>> /\ ~wroteHeader
  /\ hd = "body" => wire \in {<<>>, <<Header>>}
  /\ hd = "done" => wire = <<Header, Piece("handler", says)>>

(* Before the context ends only the handler acts, and the middleware waits *)
(* for it.                                                                 *)
Undisturbed ==
  ~expired /\ ~gone =>
    /\ mw \in {"wait", "returned"}
    /\ mw = "returned" => hd = "done"
    /\ ~late
    /\ ~(wantsStream /\ ~limited) => SentSoFar

(* What the handler says is settled before it writes.                      *)
Settled == hd \notin {"work", "done"} => says \in {"answer", "error"}

(* written is set before anything of an answer is sent, and stays; what is *)
(* sent after it is on the wire or too late.                               *)
Marked == limited /\ hd \in {"test", "header", "body", "done"} => written

Sounding ==
  written /\ wire = <<>> => hd \in {"test", "header", "body"} \/ late

(* The middleware returns when the answer is marked as begun, when the     *)
(* client is gone, or when something has been sent.                        *)
Answered == limited /\ mw = "returned" /\ ~gone => written \/ wire # <<>>

Unlimited == ~limited => mw \in {"wait", "returned"}

TimeoutInv ==
  /\ TimeoutTypeOK
  /\ Undisturbed
  /\ Settled
  /\ Marked
  /\ Unlimited
  /\ Sounding
  /\ Answered

USE DEF fixed, ends

-----------------------------------------------------------------------------
(* Nothing is on the wire at the start.                                    *)
LEMMA InitTimeout == TimeoutInit => TimeoutInv
<1>1. ASSUME TimeoutInit PROVE TimeoutTypeOK
  <2>1. wire \in Seq(Pieces)
    BY <1>1 DEF TimeoutInit
  <2>2. expired => limited /\ ~gone
    BY <1>1 DEF TimeoutInit
  <2> QED
    BY <1>1, <2>1, <2>2 DEF TimeoutInit, TimeoutTypeOK
<1> QED
  BY <1>1 DEF TimeoutInit, TimeoutInv, Undisturbed, Settled, Marked, Unlimited,
              Sounding, Answered, SentSoFar

(* Pieces are added to the wire, or the response is finished.              *)
LEMMA PutKeepsType ==
  ASSUME TimeoutTypeOK, NEW ps \in Seq(Pieces), Put(ps)
  PROVE  /\ wire' \in Seq(Pieces)
         /\ late' \in BOOLEAN
         /\ mw # "returned" => wire' = wire \o ps /\ late' = late
<1>1. CASE mw = "returned"
  BY <1>1 DEF TimeoutTypeOK, Put
<1>2. CASE mw # "returned"
  BY <1>2, ConcatProperties DEF TimeoutTypeOK, Put
<1> QED
  BY <1>1, <1>2

(* Something that is sent is on the wire, unless it is too late.           *)
LEMMA PutIsSeen ==
  ASSUME TimeoutTypeOK, NEW ps \in Seq(Pieces), ps # <<>>, Put(ps)
  PROVE  /\ late' \/ wire' # <<>>
         /\ late => late'
         /\ wire # <<>> => wire' # <<>>
         /\ mw # "returned" => wire' # <<>>
<1>1. CASE mw = "returned"
  BY <1>1 DEF Put
<1>2. CASE mw # "returned"
  <2>1. wire' = wire \o ps /\ late' = late /\ wire \in Seq(Pieces)
    BY <1>2 DEF Put, TimeoutTypeOK
  <2>2. Len(wire') = Len(wire) + Len(ps) /\ Len(wire) \in Nat /\ Len(ps) \in Nat \ {0}
    BY <2>1, EmptySeq
  <2>3. Len(wire') # 0
    BY <2>2
  <2>4. wire' # <<>>
    BY <2>3
  <2> QED
    BY <1>2, <2>1, <2>4
<1> QED
  BY <1>1, <1>2

(* What appending to nothing and to one piece gives.                       *)
LEMMA TwoPieces ==
  ASSUME NEW p, NEW q
  PROVE  <<>> \o <<p, q>> = <<p, q>> /\ <<p>> \o <<q>> = <<p, q>>
<1> DEFINE S == {p, q}
<1>1. <<>> \in Seq(S) /\ <<p>> \in Seq(S) /\ <<q>> \in Seq(S) /\ <<p, q>> \in Seq(S)
  OBVIOUS
<1>2. <<>> \o <<p, q>> = <<p, q>>
  BY <1>1, ConcatEmptySeq
<1>3. /\ <<p>> \o <<q>> \in Seq(S)
      /\ Len(<<p>> \o <<q>>) = 2
      /\ (<<p>> \o <<q>>)[1] = p
      /\ (<<p>> \o <<q>>)[2] = q
  BY <1>1
<1>4. \A i \in 1 .. Len(<<p>> \o <<q>>) : (<<p>> \o <<q>>)[i] = <<p, q>>[i]
  BY <1>3
<1>5. <<p>> \o <<q>> = <<p, q>>
  BY <1>1, <1>3, <1>4, SeqEqual
<1> QED
  BY <1>2, <1>5

(* A header is added once, or too late.                                    *)
LEMMA HeaderKeepsType ==
  ASSUME TimeoutTypeOK, NEW by \in {"handler", "timeout"}, PutHeader(by)
  PROVE  /\ wire' \in Seq(Pieces)
         /\ late' \in BOOLEAN
         /\ wroteHeader'
         /\ late' \/ wire' # <<>>
         /\ late => late'
         /\ wire # <<>> => wire' # <<>>
         /\ mw # "returned" /\ wire = <<>> =>
              wire' = <<Piece(by, "header")>> /\ late' = late
<1> DEFINE h == <<Piece(by, "header")>>
<1>1. h \in Seq(Pieces) /\ h # <<>>
  BY DEF Piece, Pieces
<1>2. CASE wire = <<>> \/ mw = "returned"
  <2>1. Put(h)
    BY <1>2 DEF PutHeader
  <2>2. <<>> \o h = h
    BY <1>1, ConcatEmptySeq
  <2> QED
    BY <1>1, <2>1, <2>2, PutKeepsType, PutIsSeen DEF PutHeader
<1>3. CASE ~(wire = <<>> \/ mw = "returned")
  BY <1>3 DEF PutHeader, TimeoutTypeOK
<1> QED
  BY <1>2, <1>3

(* A part of the body is added, with the header if there is none.          *)
LEMMA BodyKeepsType ==
  ASSUME TimeoutTypeOK, NEW by \in {"handler", "timeout"},
         NEW part \in {"answer", "error", "chunk"}, PutBody(by, part)
  PROVE  /\ wire' \in Seq(Pieces)
         /\ late' \in BOOLEAN
         /\ late' \/ wire' # <<>>
         /\ late => late'
         /\ wire # <<>> => wire' # <<>>
         /\ mw # "returned" => wire' # <<>> /\ late' = late
         /\ mw # "returned" /\ wire \in {<<>>, <<Piece(by, "header")>>} =>
              wire' = <<Piece(by, "header"), Piece(by, part)>>
<1> DEFINE both == <<Piece(by, "header"), Piece(by, part)>>
           one == <<Piece(by, part)>>
<1>1. Piece(by, "header") \in Pieces /\ Piece(by, part) \in Pieces
  BY DEF Piece, Pieces
<1>2. both \in Seq(Pieces) /\ both # <<>> /\ one \in Seq(Pieces) /\ one # <<>>
  BY <1>1
<1>3. CASE wire = <<>>
  <2>1. Put(both)
    BY <1>3 DEF PutBody
  <2> QED
    BY <1>2, <1>3, <2>1, PutKeepsType, PutIsSeen, TwoPieces
<1>4. CASE wire # <<>>
  <2>1. Put(one)
    BY <1>4 DEF PutBody
  <2>2. <<Piece(by, "header")>> \o one = both
    BY TwoPieces
  <2> QED
    BY <1>2, <1>4, <2>1, <2>2, PutKeepsType, PutIsSeen
<1> QED
  BY <1>3, <1>4

(* The types survive every step.                                           *)
LEMMA StepKeepsType ==
  ASSUME TimeoutTypeOK, Settled, [TimeoutNext]_timeoutVars
  PROVE  TimeoutTypeOK'
<1>1. CASE Expire \/ Leave
  <2>1. CASE Expire
    BY <2>1 DEF Expire, TimeoutTypeOK
  <2>2. CASE Leave
    BY <2>2 DEF Leave, TimeoutTypeOK
  <2> QED
    BY <1>1, <2>1, <2>2
<1>2. CASE Respond \/ StreamEnds \/ Mark \/ HandlerTest
  BY <1>2 DEF Respond, StreamEnds, Mark, HandlerTest, TimeoutTypeOK
<1>3. CASE WriteChunk
  BY <1>3, BodyKeepsType DEF WriteChunk, TimeoutTypeOK
<1>4. CASE HandlerHeader
  BY <1>4, HeaderKeepsType DEF HandlerHeader, TimeoutTypeOK
<1>5. CASE HandlerBody
  BY <1>5, BodyKeepsType DEF HandlerBody, Settled, TimeoutTypeOK
<1>6. CASE HandlerDone \/ SeeExpired \/ SeeGone \/ CheckWritten \/ MwTest
  BY <1>6 DEF HandlerDone, SeeExpired, SeeGone, CheckWritten, MwTest, MwGoto, TimeoutTypeOK
<1>7. CASE MwHeader
  BY <1>7, HeaderKeepsType DEF MwHeader, TimeoutTypeOK
<1>8. CASE MwBody
  BY <1>8, BodyKeepsType DEF MwBody, TimeoutTypeOK
<1>9. CASE UNCHANGED timeoutVars
  BY <1>9 DEF timeoutVars, TimeoutTypeOK
<1> QED
  BY <1>1, <1>2, <1>3, <1>4, <1>5, <1>6, <1>7, <1>8, <1>9
  DEF TimeoutNext, Work, HandlerWrites, Middleware

(* The handler is not interrupted before the context ends: no other actor  *)
(* takes a step that it could notice.                                      *)
LEMMA StepUndisturbed ==
  ASSUME TimeoutInv, [TimeoutNext]_timeoutVars
  PROVE  Undisturbed'
<1> USE DEF TimeoutInv, Undisturbed, SentSoFar, Header
<1>1. CASE Expire \/ Leave
  BY <1>1 DEF Expire, Leave
<1>2. CASE Respond \/ StreamEnds \/ Mark \/ HandlerTest
  BY <1>2 DEF Respond, StreamEnds, Mark, HandlerTest
<1>3. CASE WriteChunk
  BY <1>3, BodyKeepsType DEF WriteChunk
<1>4. CASE HandlerHeader
  BY <1>4, HeaderKeepsType DEF HandlerHeader, Piece, TimeoutTypeOK, PutHeader, Put
<1>5. CASE HandlerBody
  BY <1>5, BodyKeepsType DEF HandlerBody, Settled
<1>6. CASE HandlerDone \/ SeeExpired \/ SeeGone \/ CheckWritten \/ MwTest
  BY <1>6 DEF HandlerDone, SeeExpired, SeeGone, CheckWritten, MwTest, MwGoto
<1>7. CASE MwHeader \/ MwBody
  BY <1>7 DEF MwHeader, MwBody
<1>8. CASE UNCHANGED timeoutVars
  BY <1>8 DEF timeoutVars
<1> QED
  BY <1>1, <1>2, <1>3, <1>4, <1>5, <1>6, <1>7, <1>8
  DEF TimeoutNext, Work, HandlerWrites, Middleware

(* The parts about the handler and about the middleware without a limit.   *)
LEMMA StepMarks ==
  ASSUME TimeoutInv, [TimeoutNext]_timeoutVars
  PROVE  Settled' /\ Marked' /\ Unlimited'
<1> USE DEF TimeoutInv, Settled, Marked, Unlimited
<1>1. CASE Expire \/ Leave
  BY <1>1 DEF Expire, Leave
<1>2. CASE Work \/ HandlerWrites
  BY <1>2 DEF Work, HandlerWrites, Respond, WriteChunk, StreamEnds, Mark, HandlerTest,
              HandlerHeader, HandlerBody, TimeoutTypeOK
<1>3. CASE Middleware
  BY <1>3 DEF Middleware, HandlerDone, SeeExpired, SeeGone, CheckWritten, MwTest,
              MwHeader, MwBody, MwGoto, TimeoutTypeOK
<1>4. CASE UNCHANGED timeoutVars
  BY <1>4 DEF timeoutVars
<1> QED
  BY <1>1, <1>2, <1>3, <1>4 DEF TimeoutNext

(* What is sent is seen, and what is seen is not taken back.               *)
LEMMA StepAnswers ==
  ASSUME TimeoutInv, [TimeoutNext]_timeoutVars
  PROVE  Sounding' /\ Answered'
<1> USE DEF TimeoutInv, Sounding, Answered
<1>1. CASE Expire \/ Leave
  BY <1>1 DEF Expire, Leave
<1>2. CASE Respond \/ StreamEnds \/ Mark \/ HandlerTest
  BY <1>2 DEF Respond, StreamEnds, Mark, HandlerTest, Marked
<1>3. CASE WriteChunk
  BY <1>3, BodyKeepsType DEF WriteChunk
<1>4. CASE HandlerHeader
  BY <1>4, HeaderKeepsType DEF HandlerHeader
<1>5. CASE HandlerBody
  BY <1>5, BodyKeepsType DEF HandlerBody, Settled
<1>6. CASE HandlerDone \/ SeeExpired \/ SeeGone \/ CheckWritten \/ MwTest
  BY <1>6 DEF HandlerDone, SeeExpired, SeeGone, CheckWritten, MwTest, MwGoto,
              Marked, TimeoutTypeOK
<1>7. CASE MwHeader
  BY <1>7, HeaderKeepsType DEF MwHeader
<1>8. CASE MwBody
  BY <1>8, BodyKeepsType DEF MwBody
<1>9. CASE UNCHANGED timeoutVars
  BY <1>9 DEF timeoutVars
<1> QED
  BY <1>1, <1>2, <1>3, <1>4, <1>5, <1>6, <1>7, <1>8, <1>9
  DEF TimeoutNext, Work, HandlerWrites, Middleware

-----------------------------------------------------------------------------
(* The invariant holds in whatever order the two goroutines run.           *)
THEOREM TimeoutInvariant == TimeoutSpec => []TimeoutInv
<1>1. TimeoutInv /\ [TimeoutNext]_timeoutVars => TimeoutInv'
  BY StepKeepsType, StepUndisturbed, StepMarks, StepAnswers DEF TimeoutInv
<1> QED
  BY InitTimeout, <1>1, PTL DEF TimeoutSpec

(* The variables keep their types.                                         *)
THEOREM TimeoutTypeCorrect == TimeoutSpec => []TimeoutTypeOK
<1>1. TimeoutInv => TimeoutTypeOK
  BY DEF TimeoutInv
<1> QED
  BY <1>1, TimeoutInvariant, PTL

(* Unless the deadline passes or the client leaves, the response is the    *)
(* handler's, whole and in order, however the two goroutines interleave.   *)
THEOREM AnswersAreComplete == TimeoutSpec => []CompleteUnlessEnded
<1>1. TimeoutInv => CompleteUnlessEnded
  BY DEF TimeoutInv, Undisturbed, SentSoFar, Header, CompleteUnlessEnded
<1> QED
  BY <1>1, TimeoutInvariant, PTL

(* A client that waits and gets nothing was dismissed while the handler    *)
(* stood between its mark and its first write, however the deadline falls. *)
THEOREM SilenceIsMidAnswer == TimeoutSpec => []SilentOnlyMidAnswer
<1>1. TimeoutInv => SilentOnlyMidAnswer
  BY DEF TimeoutInv, Sounding, Answered, Undisturbed, SentSoFar, SilentOnlyMidAnswer,
         TimeoutTypeOK
<1> QED
  BY <1>1, TimeoutInvariant, PTL

-----------------------------------------------------------------------------
(* The whole request.  Each of its steps is one of the middleware or       *)
(* nothing to it, and one of the pipeline or nothing to it.                *)
LEMMA StepOfBoth ==
  ASSUME [ChatNext]_chatVars
  PROVE  [Next]_vars /\ [TimeoutNext]_timeoutVars
<1> USE DEF Behind
<1>1. CASE Limit \/ ClientLeaves \/ OneReply \/ ReplyIsWritten \/ Watch
  BY <1>1 DEF Limit, ClientLeaves, OneReply, ReplyIsWritten, Watch, TimeoutNext, Work
<1>2. CASE Behind(Pump) \/ Behind(PumpToRelay) \/ Behind(Relay) \/ Behind(RelayToHandler)
  BY <1>2 DEF Next
<1>3. CASE StreamHandler
  BY <1>3 DEF StreamHandler, Next, TimeoutNext, Work
<1>4. CASE StreamReturns
  BY <1>4 DEF StreamReturns, TimeoutNext, Work
<1>5. CASE ReaderLeaves \/ RequestEnds
  BY <1>5 DEF ReaderLeaves, RequestEnds, Next, TimeoutNext
<1>6. CASE UNCHANGED chatVars
  BY <1>6 DEF chatVars
<1> QED
  BY <1>1, <1>2, <1>3, <1>4, <1>5, <1>6 DEF ChatNext

(* The request as a whole is a behaviour of the pipeline and one of the    *)
(* middleware, so that all that is proved of either holds of it.           *)
THEOREM ChatIsBoth == ChatSpec => Spec /\ TimeoutSpec
<1>1. ChatInit => Init /\ TimeoutInit
  BY DEF ChatInit
<1> QED
  BY <1>1, StepOfBoth, PTL DEF ChatSpec, Spec, TimeoutSpec

(* The events of a stream that the client receives come in the order of    *)
(* the service, "[DONE]" last, and the response is complete unless the     *)
(* context ended, in one and the same request.                             *)
THEOREM ChatIsSafe ==
  ChatSpec => [](ContentInOrder /\ DoneAfterContent
                   /\ CompleteUnlessEnded /\ SilentOnlyMidAnswer)
<1> QED
  BY ChatIsBoth, ContentArrivesInOrder, DoneComesLast, AnswersAreComplete,
     SilenceIsMidAnswer, PTL
=============================================================================
