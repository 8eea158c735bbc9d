------------------------ MODULE LeaderElectionProofs ------------------------
(***************************************************************************)
(* Proofs about LeaderElection, for any number of replicas and any periods *)
(* that leave room for the way of an answer.                               *)
(***************************************************************************)
EXTENDS LeaderElection, TLAPS

\* Why the lease outlives its holder's belief in it: a write that is under way, and
\* the last one a leader knows of, are not overwritten, for the lease is younger
\* than the time since they began.
Recent ==
    \A r \in Replica :
        /\ lag[r] # None => holder = r /\ age <= lag[r]
        /\ proc[r] = "leading" => holder = r /\ age <= since[r] + MaxLatency

LeaseInv == TypeOK /\ Recent

LEMMA LeaseInit == Init => LeaseInv
BY LeaseAssumption DEF Init, LeaseInv, TypeOK, Recent

\* A lease in use is neither free nor over.
LEMMA LeaseTaken ==
    ASSUME LeaseInv, NEW r \in Replica, lag[r] # None \/ proc[r] = "leading"
    PROVE  holder = r /\ age < LeaseDuration
BY LeaseAssumption DEF LeaseInv, TypeOK, Recent

\* The first write is made by one who finds the lease free or its own.
LEMMA WriteAlone ==
    ASSUME LeaseInv, NEW r \in Replica, NEW q \in Replica, Free \/ holder = r, q # r
    PROVE  lag[q] = None /\ proc[q] # "leading"
BY LeaseTaken, LeaseAssumption DEF Free, LeaseInv, TypeOK

LEMMA TickKeeps == LeaseInv /\ Tick => LeaseInv'
<1> SUFFICES ASSUME LeaseInv, Tick PROVE LeaseInv'
  OBVIOUS
<1> USE LeaseAssumption
<1>1. TypeOK'
  BY DEF LeaseInv, TypeOK, Tick, process
<1>2. Recent'
  <2> SUFFICES ASSUME NEW r \in Replica
               PROVE  /\ lag'[r] # None => holder' = r /\ age' <= lag'[r]
                      /\ proc'[r] = "leading" => holder' = r /\ age' <= since'[r] + MaxLatency
    BY DEF Recent
  <2>1. age' <= age + 1 /\ holder' = holder /\ proc' = proc /\ age \in Nat /\ age' \in Nat
    BY DEF LeaseInv, TypeOK, Tick, process
  <2>2. CASE lag[r] # None
    BY <2>1, <2>2 DEF LeaseInv, TypeOK, Recent, Tick
  <2>3. CASE lag[r] = None
    BY <2>1, <2>3 DEF LeaseInv, TypeOK, Recent, Tick
  <2> QED
    BY <2>2, <2>3
<1> QED
  BY <1>1, <1>2 DEF LeaseInv

LEMMA ElectionKeeps ==
    ASSUME LeaseInv, NEW r \in Replica, Election(r)
    PROVE  LeaseInv'
<1> USE LeaseAssumption
<1>1. CASE TryWrite(r)
  <2>1. TypeOK'
    BY <1>1 DEF LeaseInv, TypeOK, TryWrite, process
  <2>2. Recent'
    BY <1>1, WriteAlone DEF LeaseInv, TypeOK, Recent, TryWrite, process
  <2> QED
    BY <2>1, <2>2 DEF LeaseInv
<1>2. CASE Answer(r)
  BY <1>2 DEF LeaseInv, TypeOK, Recent, Answer, lease
<1>3. CASE AnswerLost(r)
  BY <1>3 DEF LeaseInv, TypeOK, Recent, AnswerLost, lease, process
<1>4. CASE GiveUp(r)
  BY <1>4 DEF LeaseInv, TypeOK, Recent, GiveUp, lease
<1>5. CASE Release(r)
  <2>1. TypeOK'
    BY <1>5 DEF LeaseInv, TypeOK, Release
  <2>2. Recent'
    BY <1>5 DEF LeaseInv, TypeOK, Recent, Release
  <2> QED
    BY <2>1, <2>2 DEF LeaseInv
<1>6. CASE Resign(r)
  BY <1>6 DEF LeaseInv, TypeOK, Recent, Resign, lease
<1> QED
  BY <1>1, <1>2, <1>3, <1>4, <1>5, <1>6 DEF Election

\* A process that ends has no request under way.
LEMMA DownKeeps ==
    ASSUME LeaseInv, NEW r \in Replica, Down(r), faults' \in 0 .. MaxFaults
    PROVE  LeaseInv'
BY LeaseAssumption DEF LeaseInv, TypeOK, Recent, Down, lease

LEMMA MainKeeps ==
    ASSUME LeaseInv, NEW r \in Replica, Main(r)
    PROVE  LeaseInv'
<1> USE LeaseAssumption
<1>1. CASE Start(r)
  BY <1>1 DEF LeaseInv, TypeOK, Recent, Start, lease
<1>2. CASE StartWatch(r)
  BY <1>2 DEF LeaseInv, TypeOK, Recent, StartWatch, lease
<1>3. CASE WatchReturns(r)
  BY <1>3 DEF LeaseInv, TypeOK, Recent, WatchReturns, lease
<1>4. CASE StopLeading(r)
  BY <1>4 DEF LeaseInv, TypeOK, Recent, StopLeading, lease
<1>5. CASE Exit(r)
  BY <1>5, DownKeeps DEF Exit, LeaseInv, TypeOK
<1> QED
  BY <1>1, <1>2, <1>3, <1>4, <1>5 DEF Main

LEMMA LeaseStep == LeaseInv /\ [Next]_vars => LeaseInv'
<1> SUFFICES ASSUME LeaseInv, [Next]_vars PROVE LeaseInv'
  OBVIOUS
<1> USE LeaseAssumption
<1>1. CASE Tick
  BY <1>1, TickKeeps
<1>2. ASSUME NEW r \in Replica, Election(r) PROVE LeaseInv'
  BY <1>2, ElectionKeeps
<1>3. ASSUME NEW r \in Replica, Main(r) PROVE LeaseInv'
  BY <1>3, MainKeeps
<1>4. ASSUME NEW r \in Replica, Terminate(r) PROVE LeaseInv'
  BY <1>4 DEF LeaseInv, TypeOK, Recent, Terminate, lease
<1>5. ASSUME NEW r \in Replica, Crash(r) PROVE LeaseInv'
  BY <1>5, DownKeeps DEF Crash, LeaseInv, TypeOK
<1>6. CASE UNCHANGED vars
  BY <1>6 DEF LeaseInv, TypeOK, Recent, vars, lease, process
<1> QED
  BY <1>1, <1>2, <1>3, <1>4, <1>5, <1>6 DEF Next

LEMMA LeaseAlways == SafetySpec => []LeaseInv
BY LeaseInit, LeaseStep, PTL DEF SafetySpec

\* Every variable has its type, a request is under way only during an election, and
\* Watch is called by leaders, former leaders and where leases are forbidden
\* (main.go:89-103, 128-135).
THEOREM LeaseTypeCorrect == SafetySpec => []TypeOK
<1>1. LeaseInv => TypeOK
  BY DEF LeaseInv
<1> QED
  BY <1>1, LeaseAlways, PTL

\* A replica that believes it leads holds a lease that is not over, and whoever
\* watches without leading is about to stop (main.go:94-99, 118-143).
THEOREM LeadsUnderLease == SafetySpec => []UnderLease
<1>1. LeaseInv => UnderLease
  <2> SUFFICES ASSUME LeaseInv, NEW r \in Replica
               PROVE  /\ proc[r] = "leading" => holder = r /\ age < LeaseDuration
                      /\ Watching(r) => proc[r] = "leading" \/ Stopping(r) \/ forbidden
    BY DEF UnderLease
  <2>1. proc[r] = "leading" => holder = r /\ age < LeaseDuration
    BY LeaseTaken
  <2>2. Watching(r) => proc[r] = "leading" \/ Stopping(r) \/ forbidden
    BY DEF LeaseInv, TypeOK, Watching, Stopping
  <2> QED
    BY <2>1, <2>2
<1> QED
  BY <1>1, LeaseAlways, PTL

\* Two replicas never believe at the same time that they lead (main.go:94-127).
THEOREM OneLeader ==
    SafetySpec => [](\A r, q \in Replica : proc[r] = "leading" /\ proc[q] = "leading" => r = q)
<1>1. UnderLease => \A r, q \in Replica : proc[r] = "leading" /\ proc[q] = "leading" => r = q
  BY DEF UnderLease
<1> QED
  BY <1>1, LeadsUnderLease, PTL
=============================================================================
