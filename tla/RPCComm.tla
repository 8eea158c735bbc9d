------------------------------ MODULE RPCComm ------------------------------
(***************************************************************************)
(* One connection to the Director (RPCComm in src/pkg/agent/comm.go): its  *)
(* retriever goroutine, which runs the Retrieve call and puts directives   *)
(* into a channel of capacity one, the report calls, which wake it and     *)
(* send a report chunk by chunk, and Close.  The Director numbers its      *)
(* directives 1, 2, ...; the gRPC stream keeps order, may break at any     *)
(* time, and loses what is then in flight.                                 *)
(***************************************************************************)
EXTENDS Integers, Sequences

CONSTANTS
    None,           \* nil
    Call,           \* Report and StreamDiagnostics
    Size,           \* bytes a marshalled report may have
    CHUNKSIZE,      \* bytes of a chunk
    MaxSent,        \* bound: directives the Director sends
    MaxInFlight     \* bound: directives on the stream

ASSUME RPCCommAssumption ==
    /\ None \notin Nat
    /\ MaxSent \in Nat
    /\ MaxInFlight \in Nat
    /\ Size \subseteq Nat \ {0}
    /\ CHUNKSIZE \in Nat \ {0}

VARIABLES
    retriever,      \* where retrieveLoop is
    ctxDone,        \* the context NewComm was called with is cancelled
    closed,         \* Close was called
    up,             \* the Retrieve stream is up
    stream,         \* directives in flight on it
    held,           \* received and not yet in the channel, or None
    directives,     \* the channel, of capacity one
    rptWake,        \* a wake-up waits in rptWake, of capacity one
    sent,           \* directives the Director has sent
    lossy,          \* has a breaking stream lost a directive so far?
    taken,          \* directives the agent has taken, in order
    asked,          \* history: a report call was made since the last attempt
                    \* to open the stream
    calls           \* report calls: the report's size, and the chunks sent, each
                    \* with its first byte and the one after its last

stopping == <<ctxDone, closed>>
network == <<up, stream, sent, lossy>>
vars == <<retriever, stopping, network, held, directives, rptWake, taken, asked, calls>>

NoCall == [size |-> 0, chunks |-> <<>>]

\* retCtx is cancelled by its parent or by Close.
cancelled == ctxDone \/ closed

Init ==
    /\ retriever = "retrieve"
    /\ ctxDone = FALSE
    /\ closed = FALSE
    /\ up = FALSE
    /\ stream = <<>>
    /\ held = None
    /\ directives = <<>>
    /\ rptWake = FALSE
    /\ sent = 0
    /\ lossy = FALSE
    /\ taken = <<>>
    /\ asked = FALSE
    /\ calls = [c \in Call |-> NoCall]
----------------------------------------------------------------------------
(* The Director and the network.                                           *)

DirectorSends ==
    /\ up
    /\ sent < MaxSent
    /\ Len(stream) < MaxInFlight
    /\ sent' = sent + 1
    /\ stream' = Append(stream, sent')
    /\ UNCHANGED <<retriever, stopping, up, lossy, held, directives, rptWake,
                   taken, asked, calls>>

\* What has reached this side is still received, the rest is lost.
StreamBreaks ==
    /\ up
    /\ up' = FALSE
    /\ \E n \in 0 .. Len(stream) :
        /\ stream' = SubSeq(stream, 1, n)
        /\ lossy' = (lossy \/ n < Len(stream))
    /\ UNCHANGED <<retriever, stopping, sent, held, directives, rptWake, taken,
                   asked, calls>>
----------------------------------------------------------------------------
(* retrieve: open the stream, then receive and pass on until it fails.     *)

RetrieveOpens ==
    /\ retriever = "retrieve"
    /\ ~cancelled
    /\ retriever' = "recv"
    /\ up' = TRUE
    /\ asked' = FALSE
    /\ UNCHANGED <<stopping, stream, sent, lossy, held, directives, rptWake, taken, calls>>

RetrieveFails ==
    /\ retriever = "retrieve"
    /\ retriever' = "wait"
    /\ asked' = FALSE
    /\ UNCHANGED <<stopping, network, held, directives, rptWake, taken, calls>>

\* Also a cancelled stream may still hand out what has arrived.
Recv ==
    /\ retriever = "recv"
    /\ stream # <<>>
    /\ held' = Head(stream)
    /\ stream' = Tail(stream)
    /\ retriever' = "send"
    /\ UNCHANGED <<stopping, up, sent, lossy, directives, rptWake, taken, asked, calls>>

RecvFails ==
    /\ retriever = "recv"
    /\ cancelled \/ (~up /\ stream = <<>>)
    /\ up' = FALSE
    /\ stream' = <<>>
    /\ retriever' = "wait"
    /\ UNCHANGED <<stopping, sent, lossy, held, directives, rptWake, taken, asked, calls>>

\* Faulty: the channel has room for everything.
SendUnbounded ==
    /\ retriever = "send"
    /\ directives' = Append(directives, held)
    /\ held' = None
    /\ retriever' = "recv"
    /\ UNCHANGED <<stopping, network, rptWake, taken, asked, calls>>

\* Faulty: a directive that does not fit is dropped.
SendOrDrop ==
    /\ retriever = "send"
    /\ directives' = IF directives = <<>> THEN <<held>> ELSE directives
    /\ held' = None
    /\ retriever' = "recv"
    /\ UNCHANGED <<stopping, network, rptWake, taken, asked, calls>>

Send ==
    /\ retriever = "send"
    /\ directives = <<>>
    /\ directives' = <<held>>
    /\ held' = None
    /\ retriever' = "recv"
    /\ UNCHANGED <<stopping, network, rptWake, taken, asked, calls>>

\* Faulty: the agent's context is watched instead of the connection's own.
SendIgnoresClose ==
    /\ retriever = "send"
    /\ ctxDone
    /\ held' = None
    /\ up' = FALSE
    /\ stream' = <<>>
    /\ retriever' = "wait"
    /\ UNCHANGED <<stopping, sent, lossy, directives, rptWake, taken, asked, calls>>

\* The directive in hand is dropped, and the stream with it.
SendGivesUp ==
    /\ retriever = "send"
    /\ cancelled
    /\ held' = None
    /\ up' = FALSE
    /\ stream' = <<>>
    /\ retriever' = "wait"
    /\ UNCHANGED <<stopping, sent, lossy, directives, rptWake, taken, asked, calls>>
----------------------------------------------------------------------------
(* retrieveLoop: between two Retrieve calls, a select.                     *)

Restart ==
    /\ retriever = "wait"
    /\ rptWake
    /\ rptWake' = FALSE
    /\ retriever' = "retrieve"
    /\ UNCHANGED <<stopping, network, held, directives, taken, asked, calls>>

Exit ==
    /\ retriever = "wait"
    /\ cancelled
    /\ retriever' = "exited"
    /\ UNCHANGED <<stopping, network, held, directives, rptWake, taken, asked, calls>>
----------------------------------------------------------------------------
(* The calls of the agent.                                                 *)

\* The agent makes one call of a kind at a time (SingleFlight of Agent). The stream it
\* opens for the report may fail at once.
Begins(c) ==
    /\ calls[c] = NoCall
    /\ \E n \in Size \cup {0} : calls' = [calls EXCEPT ![c].size = n]

\* Faulty: rptWake has no buffer, so only a waiting retriever is woken.
ReportUnbuffered(c) ==
    /\ rptWake' = (retriever = "wait")
    /\ asked' = TRUE
    /\ Begins(c)
    /\ UNCHANGED <<retriever, stopping, network, held, directives, taken>>

\* Report and StreamDiagnostics wake the retriever first, without blocking.
Report(c) ==
    /\ rptWake' = TRUE
    /\ asked' = TRUE
    /\ Begins(c)
    /\ UNCHANGED <<retriever, stopping, network, held, directives, taken>>

\* The variable i of the loop over chunks.
Offset(call) == CHUNKSIZE * Len(call.chunks)

SendChunk(c) ==
    LET i == Offset(calls[c])
        j == i + CHUNKSIZE
    IN  /\ i < calls[c].size
        /\ calls' = [calls EXCEPT ![c].chunks =
                        Append(@, <<i, IF j < calls[c].size THEN j ELSE calls[c].size>>)]
        /\ UNCHANGED <<retriever, stopping, network, held, directives, rptWake, taken,
                       asked>>

\* The Director has the report, or a send or the final answer failed: either way the
\* call is over, and nothing is sent again.
ReportReturns(c) ==
    /\ calls[c] # NoCall
    /\ calls' = [calls EXCEPT ![c] = NoCall]
    /\ UNCHANGED <<retriever, stopping, network, held, directives, rptWake, taken,
                   asked>>

TakeDirective ==
    /\ directives # <<>>
    /\ taken' = Append(taken, Head(directives))
    /\ directives' = Tail(directives)
    /\ UNCHANGED <<retriever, stopping, network, held, rptWake, asked, calls>>

\* Cancel the retriever's context and take its transport away.
Close ==
    /\ ~closed
    /\ closed' = TRUE
    /\ up' = FALSE
    /\ UNCHANGED <<retriever, ctxDone, stream, sent, lossy, held, directives,
                   rptWake, taken, asked, calls>>

\* The context of Watch ends; the transport stays.
ParentCancelled ==
    /\ ~ctxDone
    /\ ctxDone' = TRUE
    /\ UNCHANGED <<retriever, closed, network, held, directives, rptWake, taken,
                   asked, calls>>
----------------------------------------------------------------------------
Retriever == RetrieveOpens \/ RetrieveFails \/ Recv \/ RecvFails \/ Send
             \/ SendGivesUp \/ Restart \/ Exit

Next ==
    \/ DirectorSends
    \/ StreamBreaks
    \/ Retriever
    \/ \E c \in Call : Report(c) \/ SendChunk(c) \/ ReportReturns(c)
    \/ TakeDirective
    \/ Close
    \/ ParentCancelled

\* The retriever is scheduled, and its select is fair to a cancelled context. The
\* agent's loop reads the channel of a connection in use, not that of a closed one.
Fairness ==
    /\ WF_vars(TakeDirective /\ ~cancelled)
    /\ WF_vars(Retriever)
    /\ SF_vars(Exit)
    /\ WF_vars(Send)

SafetySpec == Init /\ [][Next]_vars
Spec == SafetySpec /\ Fairness
----------------------------------------------------------------------------
(* Properties.                                                             *)

RetrieverOK ==
    /\ retriever \in {"retrieve", "recv", "send", "wait", "exited"}
    /\ ctxDone \in BOOLEAN /\ closed \in BOOLEAN /\ up \in BOOLEAN
    /\ lossy \in BOOLEAN /\ rptWake \in BOOLEAN /\ asked \in BOOLEAN
    /\ sent \in 0 .. MaxSent
    /\ stream \in Seq(1 .. MaxSent) /\ Len(stream) <= MaxInFlight
    /\ held \in (1 .. MaxSent) \cup {None}
    /\ (held # None) <=> (retriever = "send")
    /\ directives \in Seq(1 .. MaxSent) /\ Len(directives) <= 1
    /\ taken \in Seq(1 .. MaxSent)

CallsOK ==
    /\ calls \in [Call -> [size : Size \cup {0}, chunks : Seq(Nat \X Nat)]]
    /\ \A c \in Call : Len(calls[c].chunks) <= calls[c].size

\* The retriever's places and channels have the capacities of comm.go:103-104,
\* it holds a directive exactly while it tries to pass it on (comm.go:149), and a
\* report has no more chunks than bytes.
TypeOK == RetrieverOK /\ CallsOK

\* Everything between the Director and the agent, oldest first.
Pipeline == taken \o directives \o (IF held = None THEN <<>> ELSE <<held>>) \o stream

\* Chunks that make up the first n bytes, in order, none larger than gRPC allows.
CoverUpTo(chunks, n) ==
    /\ \A k \in 1 .. Len(chunks) :
        /\ chunks[k][1] = IF k = 1 THEN 0 ELSE chunks[k - 1][2]
        /\ chunks[k][2] - chunks[k][1] \in 1 .. CHUNKSIZE
    /\ n = IF chunks = <<>> THEN 0 ELSE chunks[Len(chunks)][2]

\* The agent executes directives in the Director's order and none of them twice,
\* however often the stream broke and Retrieve was restarted; while the network
\* lost nothing and the connection was not closed, it misses none, however slow it is;
\* and when the loop over a report's chunks ends, at whatever size, they are all of it
\* (comm.go:120-155, 184-209, 253-278).
NothingLost ==
    /\ \A i, j \in 1 .. Len(Pipeline) : i < j => Pipeline[i] < Pipeline[j]
    /\ ~lossy /\ ~cancelled => Pipeline = [i \in 1 .. sent |-> i]
    /\ \A c \in Call :
        CoverUpTo(calls[c].chunks,
                  IF Offset(calls[c]) < calls[c].size THEN Offset(calls[c]) ELSE calls[c].size)

\* Close, and the end of the agent's context, end the retriever, also while it
\* waits for room in a channel nobody reads any more, and although report calls
\* go on waking it (comm.go:131-133, 151-153, 157-160).
CloseEndsRetriever == cancelled ~> retriever = "exited"

\* "A wrapper around the Report method that makes sure the Retrieve call is
\* running" (doc.go:105-106): if it is down, a report call leads to an attempt to
\* open it, also if the call comes before the retriever waits for a wake-up.
ReportRestartsRetrieve == (asked /\ ~up) ~> (~asked \/ up \/ cancelled)

State == IF retriever = "exited" THEN "closed" ELSE IF closed THEN "closing" ELSE "open"

Channel == INSTANCE DirectiveChannel
              WITH Directive <- 1 .. MaxSent,
                   state <- State,
                   directive <- IF directives = <<>> THEN None ELSE directives[1],
                   ctxDone <- ctxDone

\* A connection keeps the contract the agent relies on (DirectiveChannel).
ImplementsChannel == Channel!Spec
=============================================================================
