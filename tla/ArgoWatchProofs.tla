-------------------------- MODULE ArgoWatchProofs --------------------------
(***************************************************************************)
(* Proofs about ArgoWatch, for any objects, and any numbers of changes,    *)
(* faults and watches.                                                     *)
(***************************************************************************)
EXTENDS ArgoWatch, TLAPS

\* What the proofs need of the types.
WatchesOK ==
    /\ watch \in [Watch -> [started : BOOLEAN, cancelled : BOOLEAN, closed : BOOLEAN]]
    /\ mux \in Watch \cup {None}
    /\ current = [r \in Resource |-> current[r]]

\* Why no channel is closed under a handler that has seen the flag down: who closes
\* one raises the flag in the same stretch under the mutex.
ClosedIsDone == \A w \in Watch : watch[w].closed => done

ClientInv == WatchesOK /\ ClosedIsDone /\ NoSendOnClosed /\ OneWatch

LEMMA ClientInit == Init => ClientInv
<1> SUFFICES ASSUME Init PROVE ClientInv
  OBVIOUS
<1>1. watch = [w \in Watch |-> Unused] /\ mux = None /\ current = [r \in Resource |-> None]
  BY DEF Init, ProcessInit
<1> QED
  BY <1>1 DEF ClientInv, WatchesOK, ClosedIsDone, NoSendOnClosed, OneWatch, Unused

\* Everything but the steps below leaves the watches and the client alone.
LEMMA ClientAlone == ClientInv /\ UNCHANGED <<watch, mux, current, done>> => ClientInv'
BY DEF ClientInv, WatchesOK, ClosedIsDone, NoSendOnClosed, OneWatch, Kind

LEMMA DiscoverKeeps == ClientInv /\ Discover => ClientInv'
<1> SUFFICES ASSUME ClientInv, Discover PROVE ClientInv'
  OBVIOUS
<1>1. \A w \in Watch : Kind(w) \in Resource
  BY DEF Watch, Kind
<1>2. UNCHANGED <<mux, done>>
  BY DEF Discover, client
<1>3. \A w \in Watch :
        /\ watch'[w].started = (watch[w].started \/ (ToStart(Kind(w)) /\ NextWatch(Kind(w)) = w))
        /\ watch'[w].cancelled = (watch[w].cancelled \/ (ToCancel(Kind(w)) /\ current[Kind(w)] = w))
        /\ watch'[w].closed = watch[w].closed
  BY DEF Discover, Started
<1>4. WatchesOK'
  <2>1. watch' \in [Watch -> [started : BOOLEAN, cancelled : BOOLEAN, closed : BOOLEAN]]
    BY DEF Discover, ClientInv, WatchesOK
  <2>2. current' = [r \in Resource |-> current'[r]]
    BY DEF Discover
  <2> QED
    BY <1>2, <2>1, <2>2 DEF ClientInv, WatchesOK
<1>5. ClosedIsDone' /\ NoSendOnClosed'
  BY <1>2, <1>3 DEF ClientInv, WatchesOK, ClosedIsDone, NoSendOnClosed
<1>6. OneWatch'
  <2> SUFFICES ASSUME NEW w \in Watch, watch'[w].started, ~watch'[w].cancelled
               PROVE  current'[Kind(w)] = w
    BY DEF OneWatch
  <2> DEFINE r == Kind(w)
  <2>1. r \in Resource /\ w # None
    BY <1>1, ArgoAssumption
  <2>2. current'[r] = IF ToStart(r) THEN NextWatch(r)
                      ELSE IF ToCancel(r) THEN None ELSE current[r]
    BY <2>1 DEF Discover
  <2>3. CASE watch[w].started
    <3>1. current[r] = w
      BY <1>3, <2>3 DEF ClientInv, OneWatch
    <3>2. ~ToStart(r) /\ ~ToCancel(r)
      BY <1>3, <2>1, <3>1 DEF ToStart, ToCancel
    <3> QED
      BY <2>2, <3>1, <3>2
  <2>4. CASE ~watch[w].started
    <3>1. ToStart(r) /\ NextWatch(r) = w
      BY <1>3, <2>4
    <3> QED
      BY <2>2, <3>1
  <2> QED
    BY <2>3, <2>4
<1> QED
  BY <1>4, <1>5, <1>6 DEF ClientInv

LEMMA ReturnsKeep == ClientInv /\ ArgoWatchReturns => ClientInv'
<1> SUFFICES ASSUME ClientInv, ArgoWatchReturns PROVE ClientInv'
  OBVIOUS
<1>1. UNCHANGED <<mux, done, current>>
  BY DEF ArgoWatchReturns, client
<1>2. watch' \in [Watch -> [started : BOOLEAN, cancelled : BOOLEAN, closed : BOOLEAN]]
  BY DEF ArgoWatchReturns, ClientInv, WatchesOK
<1>3. \A w \in Watch :
        /\ watch'[w].started = watch[w].started
        /\ watch'[w].closed = watch[w].closed
        /\ watch[w].cancelled => watch'[w].cancelled
  BY DEF ArgoWatchReturns, ClientInv, WatchesOK
<1> QED
  BY <1>1, <1>2, <1>3 DEF ClientInv, WatchesOK, ClosedIsDone, NoSendOnClosed, OneWatch

\* A handler gets the mutex only with the flag down, so no channel is closed.
LEMMA SendKeeps ==
    ASSUME ClientInv, NEW w \in Watch, SendCallback(w)
    PROVE  ClientInv'
<1>1. UNCHANGED <<watch, current, done>>
  BY DEF SendCallback
<1>2. CASE done
  BY <1>1, <1>2, ClientAlone DEF SendCallback
<1>3. CASE ~done
  <2>1. mux' = w /\ ~watch[w].closed
    BY <1>3 DEF SendCallback, ClientInv, ClosedIsDone
  <2> QED
    BY <1>1, <2>1 DEF ClientInv, WatchesOK, ClosedIsDone, NoSendOnClosed, OneWatch
<1> QED
  BY <1>2, <1>3

\* The closing goroutine waits for the mutex, so no handler is in the send.
LEMMA CloserKeeps ==
    ASSUME ClientInv, NEW w \in Watch, CloserRuns(w)
    PROVE  ClientInv'
<1>1. UNCHANGED <<mux, current>> /\ mux = None /\ done' = TRUE
  BY DEF CloserRuns
<1>2. watch' \in [Watch -> [started : BOOLEAN, cancelled : BOOLEAN, closed : BOOLEAN]]
  BY DEF CloserRuns, ClientInv, WatchesOK
<1>3. \A v \in Watch :
        watch'[v].started = watch[v].started /\ watch'[v].cancelled = watch[v].cancelled
  BY DEF CloserRuns, ClientInv, WatchesOK
<1> QED
  BY <1>1, <1>2, <1>3 DEF ClientInv, WatchesOK, ClosedIsDone, NoSendOnClosed, OneWatch

LEMMA ReceiveKeeps ==
    ASSUME ClientInv, NEW w \in Watch, Receive(w)
    PROVE  ClientInv'
<1>1. UNCHANGED <<watch, current, done>> /\ mux' = None
  BY DEF Receive
<1> QED
  BY <1>1 DEF ClientInv, WatchesOK, ClosedIsDone, NoSendOnClosed, OneWatch, Kind

LEMMA RaceKeeps == ClientInv /\ MapRace => ClientInv'
<1> SUFFICES ASSUME MapRace PROVE ClientInv'
  OBVIOUS
<1>1. watch' = [w \in Watch |-> Unused] /\ mux' = None /\ current' = [r \in Resource |-> None]
  BY DEF MapRace
<1> QED
  BY <1>1 DEF ClientInv, WatchesOK, ClosedIsDone, NoSendOnClosed, OneWatch, Unused

LEMMA ClientKept == ClientInv /\ [Next]_vars => ClientInv'
<1> SUFFICES ASSUME ClientInv, [Next]_vars PROVE ClientInv'
  OBVIOUS
<1>1. CASE Environment
  BY <1>1, ClientAlone
     DEF Environment, ObjectChange, Install, Uninstall, Restart, Disconnect, client
<1>2. CASE Manager
  BY <1>2, DiscoverKeeps, ReturnsKeep DEF Manager
<1>3. CASE Read
  BY <1>3, ClientAlone DEF Read, client
<1>4. CASE MapRace
  BY <1>4, RaceKeeps
<1>5. ASSUME NEW w \in Watch, Informer(w) PROVE ClientInv'
  <2>1. CASE SendCallback(w)
    BY <2>1, SendKeeps
  <2>2. CASE List(w) \/ InformerStops(w) \/ Handle(w)
    BY <2>2, ClientAlone DEF List, InformerStops, Handle, client
  <2> QED
    BY <1>5, <2>1, <2>2 DEF Informer
<1>6. ASSUME NEW w \in Watch, CloserRuns(w) PROVE ClientInv'
  BY <1>6, CloserKeeps
<1>7. ASSUME NEW w \in Watch, Consumer(w) PROVE ClientInv'
  <2>1. CASE Receive(w)
    BY <2>1, ReceiveKeeps
  <2>2. CASE ConsumerEnds(w) \/ FromCallback(w) \/ Publish(w)
    BY <2>2, ClientAlone DEF ConsumerEnds, FromCallback, Publish, client
  <2> QED
    BY <1>7, <2>1, <2>2 DEF Consumer
<1>8. CASE UNCHANGED vars
  BY <1>8, ClientAlone DEF vars, client
<1> QED
  BY <1>1, <1>2, <1>3, <1>4, <1>5, <1>6, <1>7, <1>8 DEF Next

LEMMA ClientAlways == SafetySpec => []ClientInv
BY ClientInit, ClientKept, PTL DEF SafetySpec

\* No handler sends on a channel that was closed, whatever the number of watches that
\* share the client and the order in which their goroutines end (k8s.go:87-106).
THEOREM NeverSendsOnClosed == SafetySpec => []NoSendOnClosed
BY ClientAlways, PTL DEF ClientInv

\* However often definitions come and go, a kind has at most one live watch, the one
\* argoWatch can cancel (agent.go:378-403).
THEOREM OneLiveWatch == SafetySpec => []OneWatch
BY ClientAlways, PTL DEF ClientInv
=============================================================================
