--------------------------- MODULE LeaderElection ---------------------------
(***************************************************************************)
(* The life cycle of the agent's replicas (main in src/cmd/main.go) around *)
(* client-go's leader election: a replica watches the cluster from being   *)
(* elected until its lease is lost or it is told to terminate, and its     *)
(* process ends with its leadership.  Time passes in ticks, and every      *)
(* replica's clock is as fast as the others'.                              *)
(***************************************************************************)
EXTENDS Integers

CONSTANTS
    None,           \* nobody
    Replica,        \* the pods
    RetryPeriod,    \* ticks from an answered renewal to the next attempt
    RenewDeadline,  \* ticks of failing attempts until the leader gives up
    LeaseDuration,  \* ticks until others take a lease that is not renewed
    MaxLatency,     \* bound: ticks until a request is answered
    MaxFaults       \* bound: crashes and terminations

\* main.go:125-127: eight, forty and sixty seconds. The rest is for the way of an
\* answer.
ASSUME LeaseAssumption ==
    /\ None \notin Replica /\ None \notin Nat
    /\ RetryPeriod \in Nat /\ RenewDeadline \in Nat /\ LeaseDuration \in Nat
    /\ MaxLatency \in Nat /\ MaxFaults \in Nat
    /\ MaxLatency + RetryPeriod + RenewDeadline < LeaseDuration

VARIABLES
    forbidden,      \* leases may not be read in this cluster
    holder,         \* the lease's holder, or None
    age,            \* ticks since the lease was written, up to LeaseDuration
    proc,           \* where a replica's main goroutine is
    watch,          \* the call of Watch: none, starting, running or returned
    cancelled,      \* is the context of Watch cancelled?
    terminated,     \* has the process got a signal?
    since,          \* ticks since a leader's last write was answered
    lag,            \* ticks since a write that is not answered yet, or None
    faults          \* crashes and terminations so far

lease == <<holder, age>>
process == <<proc, watch, cancelled, terminated>>
vars == <<forbidden, lease, process, since, lag, faults>>

Init ==
    /\ forbidden \in BOOLEAN
    /\ holder = None
    /\ age = LeaseDuration
    /\ proc = [r \in Replica |-> "down"]
    /\ watch = [r \in Replica |-> "none"]
    /\ cancelled = [r \in Replica |-> FALSE]
    /\ terminated = [r \in Replica |-> FALSE]
    /\ since = [r \in Replica |-> 0]
    /\ lag = [r \in Replica |-> None]
    /\ faults = 0
----------------------------------------------------------------------------
(* The election: client-go's LeaderElector.                                *)

\* A leader may not go on past its deadline, an answer may not take longer than
\* MaxLatency.
Tick ==
    /\ \A r \in Replica :
        /\ proc[r] = "leading" => since[r] < RetryPeriod + RenewDeadline
        /\ lag[r] # None => lag[r] < MaxLatency
    /\ age' = IF age < LeaseDuration THEN age + 1 ELSE age
    /\ since' = [r \in Replica |-> IF proc[r] = "leading" THEN since[r] + 1 ELSE since[r]]
    /\ lag' = [r \in Replica |-> IF lag[r] # None THEN lag[r] + 1 ELSE None]
    /\ UNCHANGED <<forbidden, holder, process, faults>>

Free == holder = None \/ age = LeaseDuration

\* Faulty: a lease that is not fresh is taken.
TryWriteEarly(r) ==
    /\ proc[r] \in {"electing", "leading"}
    /\ ~terminated[r]
    /\ lag[r] = None
    /\ Free \/ holder = r \/ age > RetryPeriod
    /\ holder' = r
    /\ age' = 0
    /\ lag' = [lag EXCEPT ![r] = 0]
    /\ UNCHANGED <<forbidden, process, since, faults>>

\* tryAcquireOrRenew, as far as the API server.
TryWrite(r) ==
    /\ proc[r] \in {"electing", "leading"}
    /\ ~terminated[r]
    /\ lag[r] = None
    /\ Free \/ holder = r
    /\ holder' = r
    /\ age' = 0
    /\ lag' = [lag EXCEPT ![r] = 0]
    /\ UNCHANGED <<forbidden, process, since, faults>>

\* Elected, or renewed. On being elected, OnStartedLeading is called in a goroutine.
Answer(r) ==
    /\ lag[r] # None
    /\ lag' = [lag EXCEPT ![r] = None]
    /\ since' = [since EXCEPT ![r] = 0]
    /\ proc' = [proc EXCEPT ![r] = "leading"]
    /\ watch' = [watch EXCEPT ![r] = IF proc[r] = "electing" THEN "starting" ELSE @]
    /\ UNCHANGED <<forbidden, lease, cancelled, terminated, faults>>

\* The write is not known to have been made.
AnswerLost(r) ==
    /\ lag[r] # None
    /\ lag' = [lag EXCEPT ![r] = None]
    /\ UNCHANGED <<forbidden, lease, process, since, faults>>

\* Faulty: an answer that comes after giving up still counts.
GiveUpAnswered(r) ==
    /\ proc[r] = "leading"
    /\ terminated[r] \/ since[r] >= RenewDeadline
    /\ proc' = [proc EXCEPT ![r] = "releasing"]
    /\ UNCHANGED <<forbidden, lease, watch, cancelled, terminated, since, lag, faults>>

\* renew ends: the deadline has passed, or its context is cancelled.
GiveUp(r) ==
    /\ proc[r] = "leading"
    /\ terminated[r] \/ since[r] >= RenewDeadline
    /\ proc' = [proc EXCEPT ![r] = "releasing"]
    /\ lag' = [lag EXCEPT ![r] = None]
    /\ UNCHANGED <<forbidden, lease, watch, cancelled, terminated, since, faults>>

\* ReleaseOnCancel; a release that fails is not repeated. A lease of another is not
\* released.
Release(r) ==
    /\ proc[r] = "releasing"
    /\ holder' \in {holder, IF holder = r THEN None ELSE holder}
    /\ proc' = [proc EXCEPT ![r] = "cancelling"]
    /\ UNCHANGED <<forbidden, age, watch, cancelled, terminated, since, lag, faults>>

\* acquire ends without the lease.
Resign(r) ==
    /\ proc[r] = "electing"
    /\ terminated[r]
    /\ proc' = [proc EXCEPT ![r] = "cancelling"]
    /\ lag' = [lag EXCEPT ![r] = None]
    /\ UNCHANGED <<forbidden, lease, watch, cancelled, terminated, since, faults>>
----------------------------------------------------------------------------
(* main.                                                                   *)

\* Without the permission to read leases every replica watches.
Start(r) ==
    /\ proc[r] = "down"
    /\ proc' = [proc EXCEPT ![r] = IF forbidden THEN "unleased" ELSE "electing"]
    /\ watch' = [watch EXCEPT ![r] = IF forbidden THEN "running" ELSE "none"]
    /\ UNCHANGED <<forbidden, lease, cancelled, terminated, since, lag, faults>>

\* OnStartedLeading gets to run, perhaps only after the leadership is over.
StartWatch(r) ==
    /\ watch[r] = "starting"
    /\ watch' = [watch EXCEPT ![r] = "running"]
    /\ UNCHANGED <<forbidden, lease, proc, cancelled, terminated, since, lag, faults>>

\* Watch returns when its context is cancelled, and for no other reason.
WatchReturns(r) ==
    /\ watch[r] = "running"
    /\ cancelled[r]
    /\ watch' = [watch EXCEPT ![r] = "returned"]
    /\ UNCHANGED <<forbidden, lease, proc, cancelled, terminated, since, lag, faults>>

\* Faulty: the end of Watch is waited for before its context is cancelled.
StopLeadingWaits(r) ==
    /\ proc[r] = "cancelling"
    /\ watch[r] # "running"
    /\ cancelled' = [cancelled EXCEPT ![r] = TRUE]
    /\ proc' = [proc EXCEPT ![r] = "returned"]
    /\ UNCHANGED <<forbidden, lease, watch, terminated, since, lag, faults>>

\* The context of OnStartedLeading, which that of Watch descends from, and
\* OnStoppedLeading; RunOrDie returns. It waits for nobody.
StopLeading(r) ==
    /\ proc[r] = "cancelling"
    /\ cancelled' = [cancelled EXCEPT ![r] = TRUE]
    /\ proc' = [proc EXCEPT ![r] = "returned"]
    /\ UNCHANGED <<forbidden, lease, watch, terminated, since, lag, faults>>

Down(r) ==
    /\ proc' = [proc EXCEPT ![r] = "down"]
    /\ watch' = [watch EXCEPT ![r] = "none"]
    /\ cancelled' = [cancelled EXCEPT ![r] = FALSE]
    /\ terminated' = [terminated EXCEPT ![r] = FALSE]
    /\ since' = [since EXCEPT ![r] = 0]
    /\ lag' = [lag EXCEPT ![r] = None]
    /\ UNCHANGED <<forbidden, lease>>

\* Faulty: main waits for the signal when the election is over.
ExitOnSignal(r) ==
    /\ proc[r] # "down"
    /\ terminated[r]
    /\ Down(r)
    /\ UNCHANGED faults

\* The group's only goroutine has returned, or os.Exit after a signal.
Exit(r) ==
    /\ \/ proc[r] = "returned"
       \/ proc[r] = "unleased" /\ watch[r] = "returned"
       \/ proc[r] # "down" /\ terminated[r]
    /\ Down(r)
    /\ UNCHANGED faults

\* The signal's goroutine: every context is cancelled, and os.Exit is next.
Terminate(r) ==
    /\ faults < MaxFaults
    /\ faults' = faults + 1
    /\ proc[r] # "down"
    /\ ~terminated[r]
    /\ terminated' = [terminated EXCEPT ![r] = TRUE]
    /\ cancelled' = [cancelled EXCEPT ![r] = TRUE]
    /\ UNCHANGED <<forbidden, lease, proc, watch, since, lag>>

Crash(r) ==
    /\ faults < MaxFaults
    /\ faults' = faults + 1
    /\ proc[r] # "down"
    /\ Down(r)
----------------------------------------------------------------------------
Main(r) == Start(r) \/ StartWatch(r) \/ WatchReturns(r) \/ StopLeading(r) \/ Exit(r)

Election(r) == TryWrite(r) \/ Answer(r) \/ AnswerLost(r) \/ GiveUp(r) \/ Release(r) \/ Resign(r)

Next ==
    \/ Tick
    \/ \E r \in Replica : Election(r) \/ Main(r) \/ Terminate(r) \/ Crash(r)

\* Goroutines run, that of Watch before forty seconds of failing renewals are over,
\* and time passes; the API server answers again and again.
Fairness ==
    /\ WF_vars(Tick)
    /\ \A r \in Replica :
        /\ WF_vars(Main(r))
        /\ SF_vars(StartWatch(r))
        /\ WF_vars(Election(r))
        /\ SF_vars(TryWrite(r) /\ proc[r] = "electing")
        /\ SF_vars(Answer(r))

SafetySpec == Init /\ [][Next]_vars
Spec == SafetySpec /\ Fairness
----------------------------------------------------------------------------
(* Properties.                                                             *)

Stopping(r) == proc[r] \in {"releasing", "cancelling", "returned"} \/ terminated[r]

Watching(r) == watch[r] = "running"

\* A leader's clock never runs past its deadline, a request is under way only
\* while there is an election, and Watch is called by leaders, by those who no
\* longer lead, and where leases are forbidden (main.go:89-103, 128-135).
TypeOK ==
    /\ forbidden \in BOOLEAN
    /\ holder \in Replica \cup {None}
    /\ age \in 0 .. LeaseDuration
    /\ proc \in [Replica -> {"down", "electing", "leading", "releasing", "cancelling",
                             "returned", "unleased"}]
    /\ watch \in [Replica -> {"none", "starting", "running", "returned"}]
    /\ cancelled \in [Replica -> BOOLEAN]
    /\ terminated \in [Replica -> BOOLEAN]
    /\ since \in [Replica -> 0 .. RetryPeriod + RenewDeadline]
    /\ lag \in [Replica -> (0 .. MaxLatency) \cup {None}]
    /\ faults \in 0 .. MaxFaults
    /\ \A r \in Replica :
        /\ lag[r] # None => proc[r] \in {"electing", "leading"}
        /\ watch[r] # "none" =>
            \/ proc[r] \in {"leading", "releasing", "cancelling", "returned"}
            \/ proc[r] = "unleased" /\ forbidden

\* However long a leader is cut off and whenever others try, a replica that believes
\* it leads holds a lease that is not over, so that no other one believes so too:
\* forty seconds of failing renewals, eight before them and the way of an answer are
\* less than sixty. Whoever watches without leading is about to stop, unless leases
\* are forbidden (main.go:94-99, 118-143).
UnderLease ==
    \A r \in Replica :
        /\ proc[r] = "leading" => holder = r /\ age < LeaseDuration
        /\ Watching(r) => proc[r] = "leading" \/ Stopping(r) \/ forbidden

\* Whatever a leader dies of, some replica watches again, and again
\* (main.go:60-166).
SomeoneWatches == []<>(\E r \in Replica : Watching(r))

\* A replica that lost the lease or was told to terminate stops watching
\* (main.go:75-80, 136-143).
StoppingStops == \A r \in Replica : Stopping(r) ~> ~Watching(r)

\* "any code you have that is protected by the lease must terminate before you call
\* cancel. Otherwise, you could have a background loop still running and another
\* process could get elected before your background loop finished"
\* (main.go:118-123): no two replicas watch at the same time.
OneWatches ==
    ~forbidden => \A r, q \in Replica : Watching(r) /\ Watching(q) => r = q
=============================================================================
