--------------------------- MODULE RPCCommProofs ---------------------------
(***************************************************************************)
(* Proofs about RPCComm, for any numbers of directives, any report calls,  *)
(* sizes and size of a chunk.                                              *)
(***************************************************************************)
EXTENDS RPCComm, SequenceTheorems, TLAPS

LEMMA Empty == \A S : <<>> \in Seq(S) /\ Len(<<>>) = 0
OBVIOUS

LEMMA TypeInit == Init => TypeOK
<1> SUFFICES ASSUME Init PROVE TypeOK
  OBVIOUS
<1> USE RPCCommAssumption
<1>1. RetrieverOK
  <2>1. /\ ctxDone \in BOOLEAN /\ closed \in BOOLEAN /\ up \in BOOLEAN
        /\ lossy \in BOOLEAN /\ rptWake \in BOOLEAN /\ asked \in BOOLEAN
    BY DEF Init
  <2>2. /\ stream \in Seq(1 .. MaxSent) /\ Len(stream) <= MaxInFlight
        /\ directives \in Seq(1 .. MaxSent) /\ Len(directives) <= 1
        /\ taken \in Seq(1 .. MaxSent)
    BY Empty DEF Init
  <2>3. /\ held \in (1 .. MaxSent) \cup {None}
        /\ (held # None) <=> (retriever = "send")
        /\ retriever \in {"retrieve", "recv", "send", "wait", "exited"}
        /\ sent \in 0 .. MaxSent
    BY DEF Init
  <2> QED
    BY <2>1, <2>2, <2>3 DEF RetrieverOK
<1>2. CallsOK
  BY DEF Init, CallsOK, NoCall
<1> QED
  BY <1>1, <1>2 DEF TypeOK

\* All steps but those of a report call leave the calls alone.
LEMMA RetrieverTyped == RetrieverOK /\ Retriever => RetrieverOK' /\ UNCHANGED calls
<1> SUFFICES ASSUME RetrieverOK, Retriever PROVE RetrieverOK' /\ UNCHANGED calls
  OBVIOUS
<1> USE RPCCommAssumption DEF RetrieverOK, stopping, network
<1>1. CASE RetrieveOpens
  BY <1>1 DEF RetrieveOpens
<1>2. CASE RetrieveFails
  BY <1>2 DEF RetrieveFails
<1>3. CASE Recv
  BY <1>3 DEF Recv
<1>4. CASE RecvFails
  <2>1. stream' \in Seq(1 .. MaxSent) /\ Len(stream') <= MaxInFlight
    BY <1>4, Empty DEF RecvFails
  <2>2. up' \in BOOLEAN
    BY <1>4 DEF RecvFails
  <2>3. (held' # None) <=> (retriever' = "send")
    BY <1>4 DEF RecvFails
  <2> QED
    BY <1>4, <2>1, <2>2, <2>3 DEF RecvFails
<1>5. CASE Send
  BY <1>5 DEF Send
<1>6. CASE SendGivesUp
  <2>1. stream' \in Seq(1 .. MaxSent) /\ Len(stream') <= MaxInFlight
    BY <1>6, Empty DEF SendGivesUp
  <2>2. up' \in BOOLEAN
    BY <1>6 DEF SendGivesUp
  <2>3. (held' # None) <=> (retriever' = "send")
    BY <1>6 DEF SendGivesUp
  <2> QED
    BY <1>6, <2>1, <2>2, <2>3 DEF SendGivesUp
<1>7. CASE Restart
  BY <1>7 DEF Restart
<1>8. CASE Exit
  BY <1>8 DEF Exit
<1> QED
  BY <1>1, <1>2, <1>3, <1>4, <1>5, <1>6, <1>7, <1>8 DEF Retriever

\* A loop over i that has not reached the end has made fewer chunks than there are bytes.
LEMMA FewChunks ==
    ASSUME CallsOK, NEW c \in Call, Offset(calls[c]) < calls[c].size
    PROVE  /\ Offset(calls[c]) \in Nat
           /\ Len(calls[c].chunks) + 1 <= calls[c].size
<1> DEFINE n == Len(calls[c].chunks)
<1>1. CHUNKSIZE \in Nat \ {0} /\ \A k \in Size \cup {0} : k \in Nat
  BY RPCCommAssumption
<1>2. calls[c].size \in Size \cup {0} /\ calls[c].chunks \in Seq(Nat \X Nat)
  BY DEF CallsOK
<1>3. n \in Nat /\ calls[c].size \in Nat
  <2>1. n \in Nat
    BY <1>2
  <2>2. calls[c].size \in Nat
    BY <1>1, <1>2
  <2> QED
    BY <2>1, <2>2
<1>4. Offset(calls[c]) = CHUNKSIZE * n
  BY DEF Offset
<1> HIDE DEF n
<1>5. n <= CHUNKSIZE * n /\ CHUNKSIZE * n \in Nat
  BY <1>1, <1>3
<1> QED
  BY <1>3, <1>4, <1>5 DEF n

LEMMA CallTyped ==
    ASSUME CallsOK, NEW c \in Call, Report(c) \/ SendChunk(c) \/ ReportReturns(c)
    PROVE  CallsOK'
<1> USE RPCCommAssumption
<1> DEFINE CallType == [size : Size \cup {0}, chunks : Seq(Nat \X Nat)]
           Typed(call) == call \in CallType /\ Len(call.chunks) <= call.size
<1>1. ASSUME NEW new, Typed(new), calls' = [calls EXCEPT ![c] = new]
      PROVE  CallsOK'
  <2> HIDE DEF CallType
  <2>1. calls' \in [Call -> CallType]
    BY <1>1 DEF CallsOK, CallType
  <2>2. \A d \in Call : Len(calls'[d].chunks) <= calls'[d].size
    BY <1>1 DEF CallsOK
  <2> QED
    BY <2>1, <2>2 DEF CallsOK, CallType
<1>2. Typed(calls[c])
  BY DEF CallsOK
<1>3. CASE Report(c)
  <2>1. PICK n \in Size \cup {0} : calls' = [calls EXCEPT ![c] = [calls[c] EXCEPT !.size = n]]
    BY <1>3 DEF Report, Begins
  <2>2. calls[c].chunks = <<>>
    BY <1>3 DEF Report, Begins, NoCall
  <2>3. Typed([calls[c] EXCEPT !.size = n])
    BY <1>2, <2>2
  <2> QED
    BY <1>1, <2>1, <2>3
<1>4. CASE SendChunk(c)
  <2> DEFINE i == Offset(calls[c])
             j == IF i + CHUNKSIZE < calls[c].size THEN i + CHUNKSIZE ELSE calls[c].size
             more == Append(calls[c].chunks, <<i, j>>)
  <2>1. calls' = [calls EXCEPT ![c] = [calls[c] EXCEPT !.chunks = more]]
    BY <1>4 DEF SendChunk
  <2>2. i \in Nat /\ j \in Nat /\ Len(calls[c].chunks) + 1 <= calls[c].size
    BY <1>2, <1>4, FewChunks DEF SendChunk
  <2> HIDE DEF i, j
  <2>3. more \in Seq(Nat \X Nat) /\ Len(more) = Len(calls[c].chunks) + 1
    BY <1>2, <2>2
  <2> HIDE DEF more
  <2>4. Typed([calls[c] EXCEPT !.chunks = more])
    BY <1>2, <2>2, <2>3
  <2> QED
    BY <1>1, <2>1, <2>4
<1>5. CASE ReportReturns(c)
  <2>1. Typed(NoCall)
    BY DEF NoCall
  <2> QED
    BY <1>1, <1>5, <2>1 DEF ReportReturns
<1> QED
  BY <1>3, <1>4, <1>5

LEMMA TypeKept == TypeOK /\ [Next]_vars => TypeOK'
<1> SUFFICES ASSUME RetrieverOK, CallsOK, [Next]_vars PROVE RetrieverOK' /\ CallsOK'
  BY DEF TypeOK
<1> USE RPCCommAssumption DEF stopping, network
<1>1. UNCHANGED calls => CallsOK'
  BY DEF CallsOK
<1>2. CASE DirectorSends
  BY <1>1, <1>2 DEF RetrieverOK, DirectorSends
<1>3. CASE StreamBreaks
  <2>1. PICK n \in 0 .. Len(stream) : stream' = SubSeq(stream, 1, n)
    BY <1>3 DEF StreamBreaks
  <2>2. stream' \in Seq(1 .. MaxSent) /\ Len(stream') = n
    BY <2>1 DEF RetrieverOK
  <2>3. lossy' \in BOOLEAN
    BY <1>3 DEF RetrieverOK, StreamBreaks
  <2>4. Len(stream') <= MaxInFlight
    BY <2>2 DEF RetrieverOK
  <2>5. up' \in BOOLEAN
    BY <1>3 DEF StreamBreaks
  <2> QED
    BY <1>1, <1>3, <2>2, <2>3, <2>4, <2>5 DEF RetrieverOK, StreamBreaks
<1>4. CASE Retriever
  BY <1>1, <1>4, RetrieverTyped
<1>5. ASSUME NEW c \in Call, Report(c) \/ SendChunk(c) \/ ReportReturns(c)
      PROVE  RetrieverOK' /\ CallsOK'
  <2>1. RetrieverOK'
    BY <1>5 DEF RetrieverOK, Report, SendChunk, ReportReturns
  <2> QED
    BY <1>5, <2>1, CallTyped
<1>6. CASE TakeDirective
  BY <1>1, <1>6 DEF RetrieverOK, TakeDirective
<1>7. CASE Close
  BY <1>1, <1>7 DEF RetrieverOK, Close
<1>8. CASE ParentCancelled
  BY <1>1, <1>8 DEF RetrieverOK, ParentCancelled
<1>9. CASE UNCHANGED vars
  BY <1>1, <1>9 DEF RetrieverOK, vars
<1> QED
  BY <1>2, <1>3, <1>4, <1>5, <1>6, <1>7, <1>8, <1>9 DEF Next

\* The retriever's places and the channels' capacities are as TypeOK says, for every
\* number of directives, reports and sizes (comm.go:103-104, 149).
THEOREM ConnectionTypeCorrect == SafetySpec => []TypeOK
BY TypeInit, TypeKept, PTL DEF SafetySpec
----------------------------------------------------------------------------
(* The order of directives: every step either adds the next one at the end *)
(* of the pipeline, or leaves a part of it from the front, all of it       *)
(* unless the network lost something or the connection is ending.          *)

Directives == Seq(1 .. MaxSent)

Held == IF held = None THEN <<>> ELSE <<held>>

LEMMA PipelineTyped ==
    ASSUME RetrieverOK
    PROVE  /\ taken \in Directives /\ directives \in Directives /\ stream \in Directives
           /\ Held \in Directives
           /\ Pipeline = ((taken \o directives) \o Held) \o stream
           /\ Pipeline \in Directives
<1>1. taken \in Directives /\ directives \in Directives /\ stream \in Directives
  BY DEF RetrieverOK, Directives
<1>2. Held \in Directives
  <2>1. CASE held = None
    BY <2>1, EmptySeq DEF Directives, Held
  <2>2. CASE held \in 1 .. MaxSent
    <3>1. Held = <<held>>
      BY <2>2, RPCCommAssumption DEF Held
    <3> QED
      BY <2>2, <3>1 DEF Directives
  <2> QED
    BY <2>1, <2>2 DEF RetrieverOK
<1>3. Pipeline = ((taken \o directives) \o Held) \o stream
  BY DEF Pipeline, Held
<1>4. (taken \o directives) \in Directives
  BY <1>1, ConcatProperties DEF Directives
<1>5. ((taken \o directives) \o Held) \in Directives
  BY <1>2, <1>4, ConcatProperties DEF Directives
<1> QED
  BY <1>1, <1>2, <1>3, <1>5, ConcatProperties DEF Directives

LEMMA PipelineInDirectives == RetrieverOK => Pipeline \in Directives
BY PipelineTyped

LEMMA HeadFirst ==
    ASSUME NEW S, NEW s \in Seq(S), s # <<>>
    PROVE  /\ s = <<Head(s)>> \o Tail(s)
           /\ <<Head(s)>> \in Seq(S) /\ Tail(s) \in Seq(S)
           /\ Len(s) <= 1 => Len(s) = 1 /\ s = <<Head(s)>>
<1>1. Len(s) \in Nat /\ Len(s) >= 1
  BY EmptySeq, LenProperties
<1>2. SubSeq(s, 1, Len(s)) = <<s[1]>> \o SubSeq(s, 2, Len(s))
  BY <1>1, SubSeqRecursiveFirst
<1>3. s[1] = Head(s)
  OBVIOUS
<1>4. SubSeq(s, 1, Len(s)) = s /\ SubSeq(s, 2, Len(s)) = Tail(s)
  BY SubSeqFull, TailIsSubSeq
<1>5. Len(s) = 1 => SubSeq(s, 2, Len(s)) = <<>>
  BY <1>1, SubSeqEmpty
<1>6. Head(s) \in S /\ Tail(s) \in Seq(S)
  BY HeadTailProperties
<1>7. <<Head(s)>> \in Seq(S)
  BY <1>6
<1>8. <<Head(s)>> \o <<>> = <<Head(s)>>
  BY <1>7, ConcatEmptySeq
<1> QED
  BY <1>2, <1>3, <1>4, <1>5, <1>6, <1>7, <1>8

LEMMA FrontOf ==
    ASSUME NEW S, NEW s \in Seq(S), NEW n \in 0 .. Len(s)
    PROVE  \E rest \in Seq(S) : s = SubSeq(s, 1, n) \o rest
<1> DEFINE rest == SubSeq(s, n + 1, Len(s))
<1>1. n \in Int /\ Len(s) \in Nat /\ n >= 0 /\ n <= Len(s)
  BY LenProperties
<1>2. SubSeq(s, 1, n) \o rest = SubSeq(s, 1, Len(s))
  <2>1. 1 \in 1 .. Len(s) + 1 /\ n \in 1 - 1 .. Len(s) /\ Len(s) \in n .. Len(s)
    BY <1>1
  <2> QED
    BY <2>1, ConcatAdjacentSubSeq
<1>3. \A i \in n + 1 .. Len(s) : s[i] \in S
  BY <1>1, ElementOfSeq
<1>4. rest \in Seq(S)
  BY <1>1, <1>3, SubSeqProperties
<1> QED
  BY <1>2, <1>4, SubSeqFull

LEMMA Associative == \A s, t, u \in Directives : (s \o t) \o u = s \o (t \o u)
<1> SUFFICES ASSUME NEW s \in Directives, NEW t \in Directives, NEW u \in Directives
             PROVE  (s \o t) \o u = s \o (t \o u)
  OBVIOUS
<1> QED
  BY ConcatAssociative DEF Directives

\* What remains of the pipeline, and what is lost at its end.
LosesEnd == \E lost \in Directives : Pipeline = Pipeline' \o lost

LEMMA NoneLost ==
    ASSUME RetrieverOK, RetrieverOK', Pipeline' = Pipeline
    PROVE  LosesEnd
<1>1. Pipeline = Pipeline' \o <<>>
  BY PipelineTyped, ConcatEmptySeq DEF Directives
<1> QED
  BY <1>1, EmptySeq DEF LosesEnd, Directives

LEMMA RecvMoves == RetrieverOK /\ RetrieverOK' /\ Recv => Pipeline' = Pipeline
<1> SUFFICES ASSUME RetrieverOK, RetrieverOK', Recv PROVE Pipeline' = Pipeline
  OBVIOUS
<1> DEFINE front == taken \o directives
<1>1. front \in Directives /\ front' = front /\ stream \in Directives /\ stream # <<>>
  BY PipelineTyped, ConcatProperties DEF Directives, Recv
<1>2. Held = <<>>
  BY DEF Held, RetrieverOK, Recv
<1>3. Held' = <<Head(stream)>>
  BY DEF Held, RetrieverOK, Recv
<1>4. stream = <<Head(stream)>> \o stream' /\ stream' \in Directives /\ Held' \in Directives
  BY <1>1, <1>3, HeadFirst DEF Directives, Recv
<1> HIDE DEF front
<1>5. (front \o Held) \o stream = front \o stream
  BY <1>1, <1>2, ConcatEmptySeq DEF Directives
<1>6. (front \o Held') \o stream' = front \o (Held' \o stream')
  BY <1>1, <1>4, Associative
<1>7. Pipeline = (front \o Held) \o stream /\ Pipeline' = (front' \o Held') \o stream'
  BY PipelineTyped DEF front, Pipeline, Held
<1> QED
  BY <1>1, <1>3, <1>4, <1>5, <1>6, <1>7

LEMMA SendMoves == RetrieverOK /\ RetrieverOK' /\ Send => Pipeline' = Pipeline
<1> SUFFICES ASSUME RetrieverOK, RetrieverOK', Send PROVE Pipeline' = Pipeline
  OBVIOUS
<1>1. taken' = taken /\ stream' = stream
  BY DEF Send, network
<1>2. directives = <<>> /\ directives' = Held /\ Held' = <<>>
  BY DEF Held, RetrieverOK, Send
<1>3. taken \o directives = taken
  BY <1>2, PipelineTyped, ConcatEmptySeq DEF Directives
<1>4. taken \o Held \in Directives
  BY PipelineTyped, ConcatProperties DEF Directives
<1>5. (taken \o Held) \o Held' = taken \o Held
  BY <1>2, <1>4, ConcatEmptySeq DEF Directives
<1>6. Pipeline' = ((taken' \o directives') \o Held') \o stream'
  BY DEF Pipeline, Held
<1> QED
  BY <1>1, <1>2, <1>3, <1>5, <1>6, PipelineTyped

LEMMA TakeMoves == RetrieverOK /\ RetrieverOK' /\ TakeDirective => Pipeline' = Pipeline
<1> SUFFICES ASSUME RetrieverOK, RetrieverOK', TakeDirective PROVE Pipeline' = Pipeline
  OBVIOUS
<1>1. stream' = stream /\ Held' = Held
  BY DEF TakeDirective, network, Held
<1>2. directives \in Directives /\ directives # <<>> /\ Len(directives) = 1
  <2>1. directives \in Seq(1 .. MaxSent) /\ directives # <<>> /\ Len(directives) <= 1
    BY DEF TakeDirective, RetrieverOK
  <2> QED
    BY <2>1, HeadFirst DEF Directives
<1>3. directives = <<Head(directives)>> /\ Head(directives) \in 1 .. MaxSent
  <2>1. directives = <<Head(directives)>>
    BY <1>2, HeadFirst DEF Directives
  <2>2. Head(directives) \in 1 .. MaxSent
    BY <1>2, HeadTailProperties DEF Directives
  <2> QED
    BY <2>1, <2>2
<1>4. directives' = <<>>
  <2>1. Tail(directives) \in Seq(1 .. MaxSent) /\ Len(Tail(directives)) = 0
    BY <1>2, HeadTailProperties DEF Directives
  <2> QED
    BY <2>1, EmptySeq DEF TakeDirective
<1>5. taken' = taken \o directives
  <2>1. taken \in Seq(1 .. MaxSent)
    BY DEF RetrieverOK
  <2>2. Append(taken, Head(directives)) = taken \o <<Head(directives)>>
    BY <1>3, <2>1, AppendIsConcat
  <2> QED
    BY <1>3, <2>2 DEF TakeDirective
<1>6. taken' \o directives' = taken'
  <2>1. taken' \in Seq(1 .. MaxSent)
    BY DEF RetrieverOK
  <2> QED
    BY <1>4, <2>1, ConcatEmptySeq
<1>7. Pipeline' = ((taken' \o directives') \o Held') \o stream'
  BY DEF Pipeline, Held
<1> QED
  BY <1>1, <1>5, <1>6, <1>7, PipelineTyped

LEMMA BreakLosesEnd ==
    ASSUME RetrieverOK, RetrieverOK', StreamBreaks
    PROVE  LosesEnd /\ (lossy' \/ Pipeline' = Pipeline)
<1> DEFINE front == (taken \o directives) \o Held
<1>1. front' = front /\ front \in Directives
  <2>1. front' = front
    BY DEF StreamBreaks, Held
  <2>2. taken \o directives \in Directives
    BY PipelineTyped, ConcatProperties DEF Directives
  <2> QED
    BY <2>1, <2>2, PipelineTyped, ConcatProperties DEF Directives
<1>2. Pipeline = front \o stream /\ Pipeline' = front' \o stream'
  BY DEF Pipeline, Held
<1>3. PICK n \in 0 .. Len(stream) :
            stream' = SubSeq(stream, 1, n) /\ lossy' = (lossy \/ n < Len(stream))
  BY DEF StreamBreaks
<1>4. stream \in Directives /\ stream' \in Directives
  BY PipelineTyped DEF RetrieverOK, Directives
<1>5. PICK lost \in Directives : stream = stream' \o lost
  <2>1. \E lost \in Seq(1 .. MaxSent) : stream = SubSeq(stream, 1, n) \o lost
    BY <1>4, FrontOf DEF Directives
  <2> QED
    BY <1>3, <2>1 DEF Directives
<1> HIDE DEF front
<1>6. (front \o stream') \o lost = front \o (stream' \o lost)
  BY <1>1, <1>4, <1>5, Associative
<1>7. n = Len(stream) => stream' = stream
  BY <1>3, <1>4, SubSeqFull DEF Directives
<1>8. LosesEnd
  BY <1>1, <1>2, <1>5, <1>6 DEF LosesEnd
<1>9. n < Len(stream) => lossy'
  BY <1>3
<1>10. n < Len(stream) \/ n = Len(stream)
  BY <1>4 DEF Directives
<1> QED
  BY <1>1, <1>2, <1>7, <1>8, <1>9, <1>10

LEMMA EndLosesEnd ==
    ASSUME RetrieverOK, RetrieverOK', RecvFails \/ SendGivesUp
    PROVE  LosesEnd /\ (cancelled \/ Pipeline' = Pipeline)
<1> DEFINE front == taken \o directives
<1>1. front' = front /\ front \in Directives /\ stream \in Directives /\ Held \in Directives
  BY PipelineTyped, ConcatProperties DEF Directives, RecvFails, SendGivesUp
<1>2. Pipeline = (front \o Held) \o stream /\ Pipeline' = (front' \o Held') \o stream'
  BY DEF Pipeline, Held
<1>3. Held' = <<>> /\ stream' = <<>>
  BY DEF RetrieverOK, RecvFails, SendGivesUp, Held
<1> HIDE DEF front
<1>4. Pipeline' = front
  BY <1>1, <1>2, <1>3, ConcatEmptySeq DEF Directives
<1>5. Pipeline = front \o (Held \o stream)
  BY <1>1, <1>2, Associative
<1>6. Held \o stream \in Directives
  BY <1>1, ConcatProperties DEF Directives
<1>7. LosesEnd
  BY <1>4, <1>5, <1>6 DEF LosesEnd
<1>8. ~cancelled => Held = <<>> /\ stream = <<>>
  BY DEF RetrieverOK, RecvFails, SendGivesUp, Held
<1>9. Held = <<>> /\ stream = <<>> => Pipeline = front
  BY <1>1, <1>2, ConcatEmptySeq DEF Directives
<1> QED
  BY <1>4, <1>7, <1>8, <1>9

LEMMA SendAppends ==
    ASSUME RetrieverOK, RetrieverOK', DirectorSends
    PROVE  sent' = sent + 1 /\ Pipeline' = Append(Pipeline, sent + 1) /\ sent + 1 \in 1 .. MaxSent
<1> DEFINE front == (taken \o directives) \o Held
<1>1. sent' = sent + 1 /\ sent + 1 \in 1 .. MaxSent /\ stream' = Append(stream, sent + 1)
  BY RPCCommAssumption DEF DirectorSends, RetrieverOK
<1>2. front' = front /\ front \in Directives
  <2>1. front' = front
    BY DEF DirectorSends, Held
  <2>2. taken \o directives \in Directives
    BY PipelineTyped, ConcatProperties DEF Directives
  <2> QED
    BY <2>1, <2>2, PipelineTyped, ConcatProperties DEF Directives
<1>3. Pipeline = front \o stream /\ Pipeline' = front' \o stream'
  BY DEF Pipeline, Held
<1>4. stream \in Directives /\ <<sent + 1>> \in Directives
  BY <1>1, PipelineTyped DEF Directives
<1> HIDE DEF front
<1>5. stream' = stream \o <<sent + 1>>
  BY <1>1, <1>4, AppendIsConcat DEF Directives
<1>6. (front \o stream) \o <<sent + 1>> = front \o (stream \o <<sent + 1>>)
  BY <1>2, <1>4, Associative
<1>7. Append(Pipeline, sent + 1) = Pipeline \o <<sent + 1>>
  BY <1>1, PipelineTyped, AppendIsConcat DEF Directives
<1> QED
  BY <1>1, <1>2, <1>3, <1>5, <1>6, <1>7

Ordered ==
    /\ \A i, j \in 1 .. Len(Pipeline) : i < j => Pipeline[i] < Pipeline[j]
    /\ \A i \in 1 .. Len(Pipeline) : Pipeline[i] <= sent

Complete == ~lossy /\ ~cancelled => Pipeline = [i \in 1 .. sent |-> i]

LEMMA AppendKeeps ==
    ASSUME RetrieverOK, RetrieverOK', Ordered, Complete, DirectorSends
    PROVE  Ordered' /\ Complete'
<1> DEFINE P == Pipeline
           Q == Pipeline'
<1>1. /\ P \in Seq(1 .. MaxSent) /\ sent + 1 \in 1 .. MaxSent /\ sent \in Nat
      /\ sent' = sent + 1 /\ Q = Append(P, sent + 1)
  BY SendAppends, PipelineTyped, RPCCommAssumption DEF Directives, RetrieverOK
<1>2. /\ Len(P) \in Nat /\ Q \in Seq(1 .. MaxSent)
      /\ Len(Q) = Len(P) + 1
      /\ \A i \in 1 .. Len(P) : Q[i] = P[i] /\ P[i] \in 1 .. MaxSent
      /\ Q[Len(P) + 1] = sent + 1
  <2>1. \A i \in 1 .. Len(P) : P[i] \in 1 .. MaxSent
    BY <1>1, ElementOfSeq
  <2>2. Len(P) \in Nat
    BY <1>1, LenProperties
  <2> QED
    BY <1>1, <2>1, <2>2, AppendProperties
<1>3. UNCHANGED <<lossy, stopping>>
  BY DEF DirectorSends
<1>4. /\ \A i, j \in 1 .. Len(P) : i < j => P[i] < P[j]
      /\ \A i \in 1 .. Len(P) : P[i] <= sent
      /\ ~lossy /\ ~cancelled => P = [i \in 1 .. sent |-> i]
  BY DEF Ordered, Complete
<1> HIDE DEF P, Q
<1>5. \A i \in 1 .. Len(Q) : i \in 1 .. Len(P) \/ i = Len(P) + 1
  BY <1>2
<1>6. \A i \in 1 .. Len(Q) : Q[i] <= sent + 1
  BY <1>1, <1>2, <1>4, <1>5
<1>7. ASSUME NEW i \in 1 .. Len(Q), NEW j \in 1 .. Len(Q), i < j
      PROVE  Q[i] < Q[j]
  <2>1. i \in 1 .. Len(P)
    BY <1>2, <1>7
  <2>2. CASE j \in 1 .. Len(P)
    BY <1>2, <1>4, <1>7, <2>1, <2>2
  <2>3. CASE j = Len(P) + 1
    <3>1. Q[i] <= sent /\ Q[i] \in Nat
      BY <1>2, <1>4, <2>1, RPCCommAssumption
    <3> QED
      BY <1>1, <1>2, <2>3, <3>1
  <2> QED
    BY <1>5, <2>2, <2>3
<1>8. ASSUME ~lossy, ~cancelled PROVE Q = [i \in 1 .. sent + 1 |-> i]
  <2>1. P = [i \in 1 .. sent |-> i]
    BY <1>4, <1>8
  <2>2. Len(P) = sent /\ \A i \in 1 .. Len(P) : P[i] = i
    BY <1>1, <2>1, LenProperties
  <2>3. Q = [i \in 1 .. Len(Q) |-> Q[i]]
    BY <1>2, LenProperties
  <2>4. \A i \in 1 .. sent + 1 : Q[i] = i
    BY <1>1, <1>2, <2>2
  <2> QED
    BY <1>1, <1>2, <2>2, <2>3, <2>4
<1> QED
  BY <1>1, <1>3, <1>6, <1>7, <1>8 DEF Ordered, Complete, cancelled, stopping, P, Q

LEMMA PrefixKeeps ==
    ASSUME RetrieverOK, RetrieverOK', Ordered, Complete, LosesEnd, sent' = sent,
           lossy => lossy', cancelled => cancelled',
           lossy' \/ cancelled' \/ Pipeline' = Pipeline
    PROVE  Ordered' /\ Complete'
<1> DEFINE P == Pipeline
           Q == Pipeline'
<1>1. PICK lost \in Seq(1 .. MaxSent) : P = Q \o lost
  BY DEF LosesEnd, Directives
<1>2. Q \in Seq(1 .. MaxSent)
  <2>1. (RetrieverOK => Pipeline \in Directives)'
    BY PipelineInDirectives, PTL
  <2> QED
    BY <2>1 DEF Directives
<1>3. Complete'
  BY DEF Complete
<1>4. Ordered => /\ \A i, j \in 1 .. Len(P) : i < j => P[i] < P[j]
                 /\ \A i \in 1 .. Len(P) : P[i] <= sent
  BY DEF Ordered
<1> HIDE DEF P, Q
<1>5. /\ Len(Q) \in Nat /\ Len(lost) \in Nat /\ Len(P) = Len(Q) + Len(lost)
      /\ \A i \in 1 .. Len(Q) : P[i] = Q[i]
  <2>1. Len(Q) \in Nat /\ Len(lost) \in Nat
    BY <1>1, <1>2, LenProperties
  <2>2. /\ Len(Q \o lost) = Len(Q) + Len(lost)
        /\ \A i \in 1 .. Len(Q) + Len(lost) : (Q \o lost)[i] =
                IF i <= Len(Q) THEN Q[i] ELSE lost[i - Len(Q)]
    BY <1>1, <1>2, ConcatProperties
  <2> QED
    BY <1>1, <2>1, <2>2
<1>6. \A i \in 1 .. Len(Q) : i \in 1 .. Len(P)
  BY <1>5
<1>7. /\ \A i, j \in 1 .. Len(Q) : i < j => Q[i] < Q[j]
      /\ \A i \in 1 .. Len(Q) : Q[i] <= sent
  BY <1>4, <1>5, <1>6
<1> QED
  BY <1>3, <1>7 DEF Ordered, P, Q

LEMMA OrderKept ==
    ASSUME RetrieverOK, RetrieverOK', Ordered, Complete, [Next]_vars
    PROVE  Ordered' /\ Complete'
<1>1. CASE DirectorSends
  BY <1>1, AppendKeeps
<1>2. ASSUME Pipeline' = Pipeline, sent' = sent, lossy' = lossy, cancelled => cancelled'
      PROVE  Ordered' /\ Complete'
  BY <1>2 DEF Ordered, Complete
<1>3. CASE StreamBreaks
  <2>1. sent' = sent /\ (lossy => lossy') /\ (cancelled => cancelled')
    BY <1>3 DEF StreamBreaks, cancelled, stopping
  <2> QED
    BY <1>3, <2>1, BreakLosesEnd, PrefixKeeps
<1>4. CASE RecvFails \/ SendGivesUp
  <2>1. sent' = sent /\ (lossy => lossy') /\ (cancelled => cancelled')
    BY <1>4 DEF RecvFails, SendGivesUp, cancelled, stopping
  <2> QED
    BY <1>4, <2>1, EndLosesEnd, PrefixKeeps
<1>5. CASE Recv
  <2>1. sent' = sent /\ lossy' = lossy /\ (cancelled => cancelled')
    BY <1>5 DEF Recv, cancelled, stopping
  <2> QED
    BY <1>2, <1>5, <2>1, RecvMoves
<1>6. CASE Send
  <2>1. sent' = sent /\ lossy' = lossy /\ (cancelled => cancelled')
    BY <1>6 DEF Send, cancelled, stopping, network
  <2> QED
    BY <1>2, <1>6, <2>1, SendMoves
<1>7. CASE TakeDirective
  <2>1. sent' = sent /\ lossy' = lossy /\ (cancelled => cancelled')
    BY <1>7 DEF TakeDirective, cancelled, stopping, network
  <2> QED
    BY <1>2, <1>7, <2>1, TakeMoves
<1>8. ASSUME UNCHANGED <<taken, directives, held, stream, sent, lossy>>, cancelled => cancelled'
      PROVE  Ordered' /\ Complete'
  BY <1>2, <1>8 DEF Pipeline
<1>9. CASE RetrieveOpens \/ RetrieveFails \/ Restart \/ Exit
  BY <1>8, <1>9 DEF RetrieveOpens, RetrieveFails, Restart, Exit, network, stopping, cancelled
<1>10. ASSUME NEW c \in Call, Report(c) \/ SendChunk(c) \/ ReportReturns(c)
       PROVE  Ordered' /\ Complete'
  BY <1>8, <1>10 DEF Report, SendChunk, ReportReturns, network, stopping, cancelled
<1>11. CASE Close \/ ParentCancelled \/ UNCHANGED vars
  BY <1>8, <1>11 DEF Close, ParentCancelled, vars, network, stopping, cancelled
<1> QED
  BY <1>1, <1>3, <1>4, <1>5, <1>6, <1>7, <1>9, <1>10, <1>11 DEF Next, Retriever
----------------------------------------------------------------------------
(* The chunks of a report.                                                 *)

Covered(call) ==
    CoverUpTo(call.chunks, IF Offset(call) < call.size THEN Offset(call) ELSE call.size)

ChunksCover == \A c \in Call : Covered(calls[c])

LEMMA NothingCovered ==
    ASSUME NEW call, call.chunks = <<>>, call.size \in Nat
    PROVE  Covered(call)
<1>1. Len(call.chunks) = 0 /\ Offset(call) = 0
  BY RPCCommAssumption DEF Offset
<1> QED
  BY <1>1 DEF Covered, CoverUpTo

\* The chunk from i to j, added to chunks that reach up to i.
LEMMA OneMore ==
    ASSUME NEW chunks \in Seq(Nat \X Nat), NEW i \in Nat, NEW j \in Nat,
           CoverUpTo(chunks, i), j - i \in 1 .. CHUNKSIZE
    PROVE  CoverUpTo(Append(chunks, <<i, j>>), j)
<1> DEFINE more == Append(chunks, <<i, j>>)
           n == Len(chunks)
<1>1. /\ n \in Nat /\ more # <<>> /\ Len(more) = n + 1 /\ more[n + 1] = <<i, j>>
      /\ \A k \in 1 .. n : more[k] = chunks[k]
  BY AppendProperties, LenProperties
<1>2. /\ \A k \in 1 .. n :
            /\ chunks[k][1] = IF k = 1 THEN 0 ELSE chunks[k - 1][2]
            /\ chunks[k][2] - chunks[k][1] \in 1 .. CHUNKSIZE
      /\ i = IF n = 0 THEN 0 ELSE chunks[n][2]
  <2>1. chunks = <<>> <=> n = 0
    BY EmptySeq, LenProperties
  <2> QED
    BY <2>1 DEF CoverUpTo
<1> HIDE DEF more, n
<1>3. ASSUME NEW k \in 1 .. n + 1
      PROVE  /\ more[k][1] = IF k = 1 THEN 0 ELSE more[k - 1][2]
             /\ more[k][2] - more[k][1] \in 1 .. CHUNKSIZE
  <2>1. CASE k \in 1 .. n
    <3>1. k # 1 => k - 1 \in 1 .. n
      BY <1>1, <2>1
    <3> QED
      BY <1>1, <1>2, <2>1, <3>1
  <2>2. CASE k = n + 1
    <3>1. more[k][1] = i /\ more[k][2] = j
      BY <1>1, <2>2
    <3>2. n # 0 => more[k - 1] = chunks[n] /\ k # 1
      BY <1>1, <2>2
    <3>3. n = 0 => k = 1
      BY <2>2
    <3> QED
      BY <1>2, <3>1, <3>2, <3>3
  <2>3. k \in 1 .. n \/ k = n + 1
    BY <1>1
  <2> QED
    BY <2>1, <2>2, <2>3
<1>4. j = more[Len(more)][2]
  BY <1>1
<1> QED
  BY <1>1, <1>3, <1>4 DEF CoverUpTo, more

LEMMA CoverKept ==
    ASSUME CallsOK, ChunksCover, NEW c \in Call,
           Report(c) \/ SendChunk(c) \/ ReportReturns(c)
    PROVE  ChunksCover'
<1>1. ASSUME NEW new, Covered(new), calls' = [calls EXCEPT ![c] = new]
      PROVE  ChunksCover'
  <2>1. \A d \in Call : calls'[d] = IF d = c THEN new ELSE calls[d]
    BY <1>1 DEF CallsOK
  <2>2. \A d \in Call : Covered(calls'[d])
    BY <1>1, <2>1 DEF ChunksCover
  <2> QED
    BY <2>2 DEF ChunksCover, Covered, CoverUpTo, Offset
<1>2. CASE Report(c)
  <2>1. PICK n \in Size \cup {0} : calls' = [calls EXCEPT ![c] = [calls[c] EXCEPT !.size = n]]
    BY <1>2 DEF Report, Begins
  <2> DEFINE new == [calls[c] EXCEPT !.size = n]
  <2>2. new = [size |-> n, chunks |-> <<>>]
    BY <1>2 DEF Report, Begins, NoCall
  <2>3. n \in Nat
    BY RPCCommAssumption
  <2>4. Covered(new)
    BY <2>2, <2>3, NothingCovered
  <2> QED
    BY <1>1, <2>1, <2>4
<1>3. CASE SendChunk(c)
  <2> DEFINE call == calls[c]
             i == Offset(call)
             j == IF i + CHUNKSIZE < call.size THEN i + CHUNKSIZE ELSE call.size
             new == [call EXCEPT !.chunks = Append(call.chunks, <<i, j>>)]
  <2>1. calls' = [calls EXCEPT ![c] = new] /\ i < call.size
    BY <1>3 DEF SendChunk
  <2>2. /\ call.chunks \in Seq(Nat \X Nat) /\ call.size \in Size \cup {0}
        /\ new.size = call.size /\ new.chunks = Append(call.chunks, <<i, j>>)
    BY DEF CallsOK
  <2>3. call.size \in Nat /\ i \in Nat /\ CHUNKSIZE \in Nat \ {0}
    BY <2>1, <2>2, FewChunks, RPCCommAssumption
  <2>4. CoverUpTo(call.chunks, i)
    BY <2>1 DEF ChunksCover, Covered
  <2>5. Offset(new) = i + CHUNKSIZE
    <3>1. Len(new.chunks) = Len(call.chunks) + 1 /\ Len(call.chunks) \in Nat
      <4> HIDE DEF i, j, new, call
      <4>1. <<i, j>> \in Nat \X Nat
        BY <2>3 DEF j
      <4> QED
        BY <2>2, <4>1, AppendProperties, LenProperties
    <3> HIDE DEF new
    <3>2. \A n \in Nat : CHUNKSIZE * (n + 1) = CHUNKSIZE * n + CHUNKSIZE
      BY <2>3
    <3> QED
      BY <3>1, <3>2 DEF Offset
  <2> HIDE DEF i, call, new
  <2>6. j \in Nat /\ j - i \in 1 .. CHUNKSIZE
    BY <2>1, <2>3
  <2>7. CoverUpTo(new.chunks, j)
    BY <2>2, <2>3, <2>4, <2>6, OneMore
  <2>8. j = IF Offset(new) < new.size THEN Offset(new) ELSE new.size
    BY <2>2, <2>5
  <2>9. Covered(new)
    BY <2>7, <2>8 DEF Covered
  <2> QED
    BY <1>1, <2>1, <2>9
<1>4. CASE ReportReturns(c)
  <2>1. Covered(NoCall)
    BY NothingCovered DEF NoCall
  <2> QED
    BY <1>1, <1>4, <2>1 DEF ReportReturns
<1> QED
  BY <1>2, <1>3, <1>4
----------------------------------------------------------------------------
NothingLostInv == TypeOK /\ Ordered /\ Complete /\ ChunksCover

LEMMA NothingLostInit == Init => NothingLostInv
<1> SUFFICES ASSUME Init PROVE NothingLostInv
  OBVIOUS
<1>1. Pipeline = <<>> /\ sent = 0
  <2>1. Held = <<>>
    BY DEF Init, Held
  <2>2. Pipeline = ((<<>> \o <<>>) \o <<>>) \o <<>>
    BY <2>1 DEF Init, Pipeline, Held
  <2>3. <<>> \o <<>> = <<>>
    BY EmptySeq, ConcatEmptySeq
  <2> QED
    BY <2>2, <2>3 DEF Init
<1>2. Ordered
  BY <1>1 DEF Ordered
<1>3. Complete
  <2>1. <<>> = [i \in 1 .. 0 |-> i]
    OBVIOUS
  <2> QED
    BY <1>1, <2>1 DEF Complete
<1>4. ChunksCover
  <2>1. Covered(NoCall)
    BY NothingCovered DEF NoCall
  <2> QED
    BY <2>1 DEF ChunksCover, Init
<1> QED
  BY <1>2, <1>3, <1>4, TypeInit DEF NothingLostInv

LEMMA NothingLostKept == NothingLostInv /\ [Next]_vars => NothingLostInv'
<1> SUFFICES ASSUME NothingLostInv, [Next]_vars PROVE NothingLostInv'
  OBVIOUS
<1>1. RetrieverOK /\ CallsOK /\ TypeOK'
  BY TypeKept DEF NothingLostInv, TypeOK
<1>2. Ordered' /\ Complete'
  BY <1>1, OrderKept DEF NothingLostInv, TypeOK
<1>3. ASSUME UNCHANGED calls PROVE ChunksCover'
  BY <1>3 DEF NothingLostInv, ChunksCover, Covered, CoverUpTo, Offset
<1>4. ASSUME NEW c \in Call, Report(c) \/ SendChunk(c) \/ ReportReturns(c)
      PROVE  ChunksCover'
  BY <1>1, <1>4, CoverKept DEF NothingLostInv
<1>5. Retriever => UNCHANGED calls
  BY <1>1, RetrieverTyped
<1>6. UNCHANGED calls \/ \E c \in Call : Report(c) \/ SendChunk(c) \/ ReportReturns(c)
  BY <1>5 DEF Next, vars, DirectorSends, StreamBreaks, TakeDirective, Close, ParentCancelled
<1> QED
  BY <1>1, <1>2, <1>3, <1>4, <1>6 DEF NothingLostInv

LEMMA NothingLostFollows == NothingLostInv => NothingLost
BY DEF NothingLostInv, NothingLost, Ordered, Complete, ChunksCover, Covered

\* For every number of directives and every size of a report and of a chunk: directives
\* reach the agent in the Director's order, none of them twice, and none is missing while
\* the network lost nothing and the connection is in use; the chunks of a report are all
\* of it, in order, none too large (comm.go:120-155, 184-209, 253-278).
THEOREM NothingIsLost == SafetySpec => []NothingLost
<1>1. SafetySpec => []NothingLostInv
  BY NothingLostInit, NothingLostKept, PTL DEF SafetySpec
<1> QED
  BY <1>1, NothingLostFollows, PTL
----------------------------------------------------------------------------
(* The contract of DirectiveChannel.                                       *)

LEMMA ChannelInit == Init => Channel!Init
BY DEF Init, Channel!Init, State

LEMMA ChannelStep == RetrieverOK /\ RetrieverOK' /\ [Next]_vars => [Channel!Next]_(Channel!vars)
<1> SUFFICES ASSUME RetrieverOK, RetrieverOK', [Next]_vars
             PROVE  Channel!Next \/ UNCHANGED Channel!vars
  OBVIOUS
<1> DEFINE first == IF directives = <<>> THEN None ELSE directives[1]
<1>1. CASE UNCHANGED <<State, held, directives, ctxDone>>
  BY <1>1 DEF Channel!vars
<1>2. CASE DirectorSends \/ StreamBreaks
  BY <1>1, <1>2 DEF DirectorSends, StreamBreaks, State, stopping
<1>3. CASE RetrieveOpens \/ RetrieveFails \/ Restart
  BY <1>1, <1>3 DEF RetrieveOpens, RetrieveFails, Restart, State, stopping
<1>4. CASE Recv
  <2>1. State \in {"open", "closing"} /\ State' = State /\ held = None
    BY <1>4 DEF Recv, State, RetrieverOK, stopping
  <2>2. held' \in 1 .. MaxSent
    BY <1>4, HeadTailProperties DEF Recv, RetrieverOK
  <2>3. UNCHANGED <<directives, ctxDone>>
    BY <1>4 DEF Recv, stopping
  <2> QED
    BY <2>1, <2>2, <2>3 DEF Channel!Next, Channel!Receive, Channel!Retrieving
<1>5. CASE RecvFails
  BY <1>1, <1>5 DEF RecvFails, State, stopping
<1>6. CASE Send
  <2>1. State \in {"open", "closing"} /\ State' = State /\ held # None /\ ctxDone' = ctxDone
    BY <1>6 DEF Send, State, RetrieverOK, stopping
  <2>2. first = None /\ held' = None /\ directives' = <<held>>
    BY <1>6 DEF Send
  <2>3. directives' # <<>> /\ directives'[1] = held
    BY <2>2
  <2> QED
    BY <2>1, <2>2, <2>3 DEF Channel!Next, Channel!Deliver, Channel!Retrieving
<1>7. CASE SendGivesUp
  <2>1. State \in {"open", "closing"} /\ State' = State /\ (ctxDone \/ State = "closing")
    BY <1>7 DEF SendGivesUp, State, stopping, cancelled
  <2>2. held' = None /\ UNCHANGED <<directives, ctxDone>>
    BY <1>7 DEF SendGivesUp, stopping
  <2> QED
    BY <2>1, <2>2 DEF Channel!Next, Channel!Drop, Channel!Ending, Channel!Retrieving
<1>8. CASE Exit
  <2>1. State \in {"open", "closing"} /\ State' = "closed" /\ (ctxDone \/ State = "closing")
    BY <1>8 DEF Exit, State, cancelled
  <2>2. held' = None /\ UNCHANGED <<directives, ctxDone>>
    BY <1>8 DEF Exit, stopping, RetrieverOK
  <2> QED
    BY <2>1, <2>2 DEF Channel!Next, Channel!Exit, Channel!Ending, Channel!Retrieving
<1>9. ASSUME NEW c \in Call, Report(c) \/ SendChunk(c) \/ ReportReturns(c)
      PROVE  Channel!Next \/ UNCHANGED Channel!vars
  BY <1>1, <1>9 DEF Report, SendChunk, ReportReturns, State, stopping
<1>10. CASE TakeDirective
  <2>1. first # None
    <3>1. directives \in Seq(1 .. MaxSent) /\ directives # <<>>
      BY <1>10 DEF TakeDirective, RetrieverOK
    <3>2. directives[1] = Head(directives)
      OBVIOUS
    <3>3. Head(directives) \in 1 .. MaxSent
      BY <3>1, HeadTailProperties
    <3> QED
      BY <3>1, <3>2, <3>3, RPCCommAssumption
  <2>2. directives' = <<>>
    <3>1. directives \in Seq(1 .. MaxSent) /\ directives # <<>> /\ Len(directives) <= 1
      BY <1>10 DEF TakeDirective, RetrieverOK
    <3>2. Len(directives) = 1
      BY <3>1, HeadFirst
    <3>3. Tail(directives) \in Seq(1 .. MaxSent) /\ Len(Tail(directives)) = 0
      BY <3>1, <3>2, HeadTailProperties
    <3> QED
      BY <1>10, <3>3, EmptySeq DEF TakeDirective
  <2>3. State' = State /\ UNCHANGED <<held, ctxDone>>
    BY <1>10 DEF TakeDirective, State, stopping
  <2> QED
    BY <2>1, <2>2, <2>3 DEF Channel!Next, Channel!Take
<1>11. CASE Close
  <2>1. State' = State \/ (State = "open" /\ State' = "closing")
    BY <1>11 DEF Close, State
  <2>2. UNCHANGED <<held, directives, ctxDone>>
    BY <1>11 DEF Close
  <2> QED
    BY <1>1, <2>1, <2>2 DEF Channel!Next, Channel!Close
<1>12. CASE ParentCancelled
  <2>1. State' = State /\ ctxDone' = TRUE /\ UNCHANGED <<held, directives>>
    BY <1>12 DEF ParentCancelled, State
  <2> QED
    BY <2>1 DEF Channel!Next, Channel!Cancel
<1>13. CASE UNCHANGED vars
  BY <1>1, <1>13 DEF vars, State, stopping
<1> QED
  BY <1>2, <1>3, <1>4, <1>5, <1>6, <1>7, <1>8, <1>9, <1>10, <1>11, <1>12, <1>13 DEF Next, Retriever

\* Every step of a connection is a step of the contract the agent relies on, or leaves
\* what the agent sees of it as it is: one directive is held, one waits, the retriever of a
\* connection in use drops none (the safety part of ImplementsChannel, comm.go:120-160).
THEOREM ChannelImplemented == SafetySpec => Channel!Init /\ [][Channel!Next]_(Channel!vars)
<1>1. TypeOK => RetrieverOK
  BY DEF TypeOK
<1> QED
  BY <1>1, ConnectionTypeCorrect, ChannelInit, ChannelStep, PTL DEF SafetySpec
=============================================================================
