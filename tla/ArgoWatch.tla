------------------------------ MODULE ArgoWatch ------------------------------
(***************************************************************************)
(* The watch of Argo's resources (argoWatch in src/pkg/agent/agent.go, the *)
(* DynamicClient of k8s.go, the stores of argo.go), which the main loop    *)
(* reads when it makes a snapshot.                                         *)
(*                                                                         *)
(* argoWatch asks the cluster every so often which of two kinds exist and  *)
(* starts or cancels a watch of each.  A watch w has three goroutines: the *)
(* informer, whose handlers send callbacks through sendCallback; the       *)
(* consumer, which puts them into a store; and the closer, which waits for *)
(* the end of the watch's context and closes the channel.  All watches     *)
(* share one mutex and one done flag, those of the DynamicClient.          *)
(***************************************************************************)
EXTENDS Integers, FiniteSets, SequencesExt

CONSTANTS
    Name,                 \* namespaced names of objects, the same for both kinds
    None,                 \* nil, or an object that does not exist
    Populated,            \* bound: the kinds of which there are objects
    MaxChanges,           \* bound: changes of objects
    MaxFaults,            \* bound: removals of a definition, lost connections,
                          \* returns of argoWatch and crashes, all together
    MaxWatches            \* bound: watches of a kind in the life of a process

VARIABLES
    \* The cluster.
    present,              \* the resource definitions that are installed
    world,                \* the objects of each kind
    changes,              \* changes of objects so far
    faults,               \* faults so far
    \* The process.
    up,                   \* there is one
    manager,              \* argoWatch runs, or has returned
    current,              \* the watch whose cancel function argoWatch holds
    watch,                \* how far each watch is: its context and its channel
    informer,             \* the informer goroutines and their handlers
    consumer,             \* the consumer goroutines and their stores
    mux,                  \* the handler that holds the client's mutex
    done,                 \* the client's done flag
    published,            \* the store rolloutStore / applicationStore points to
    reading,              \* the store the main loop iterates over
    missed                \* a reconnection hid that an object was replaced

Resource == {"rollouts", "applications"}

\* The first, second, ... watch of a kind, and the kind of a watch.
Watch == Resource \X (1 .. MaxWatches)
Kind(w) == w[1]

\* An object has a name, the identity of its present incarnation, and a revision.
Object ==
    {o \in [name : Name, uid : 1 .. MaxChanges, revision : 1 .. MaxChanges] :
        o.uid <= o.revision}

\* What a handler is called with, what it sends, and what a store holds.
Event == [type : {"added", "updated", "deleted"}, obj : Object]
Callback == [type : {"added", "updated", "deleted"}, obj : Object, sotw : SUBSET Object]
Store == UNION {[uids -> Object] : uids \in SUBSET (1 .. MaxChanges)}

ASSUME ArgoAssumption ==
    /\ None \notin Name \cup Resource \cup Watch
    /\ None \notin Callback /\ None \notin Store
    /\ {MaxChanges, MaxFaults, MaxWatches} \subseteq Nat

cluster == <<present, world, changes, faults>>
client == <<mux, done>>
loop == <<published, reading>>
vars == <<cluster, up, manager, current, watch, informer, consumer, client,
          loop, missed>>

Unused == [started |-> FALSE, cancelled |-> FALSE, closed |-> FALSE]
NewInformer == [phase |-> "off", cache |-> {}, queue |-> <<>>, callback |-> None]
NewConsumer == [stage |-> "select", callback |-> None, store |-> None]

----------------------------------------------------------------------------
ProcessInit ==
    /\ manager = "run"
    /\ current = [r \in Resource |-> None]
    /\ watch = [w \in Watch |-> Unused]
    /\ informer = [w \in Watch |-> NewInformer]
    /\ consumer = [w \in Watch |-> NewConsumer]
    /\ mux = None
    /\ done = FALSE
    /\ published = [r \in Resource |-> None]
    /\ reading = None
    /\ missed = FALSE

Init ==
    /\ present \in SUBSET Resource
    /\ world = [r \in Resource |-> {}]
    /\ changes = 0 /\ faults = 0
    /\ up = TRUE
    /\ ProcessInit
----------------------------------------------------------------------------
(* The cluster, and how an informer hears of it.                           *)

\* What tells a cache of old of the objects of new: the informer compares by name.
Events(old, new) ==
    {[type |-> "added", obj |-> o] :
        o \in {n \in new : \A p \in old : p.name # n.name}}
    \cup {[type |-> "updated", obj |-> o] :
        o \in {n \in new \ old : \E p \in old : p.name = n.name}}
    \cup {[type |-> "deleted", obj |-> o] :
        o \in {p \in old : \A n \in new : p.name # n.name}}

\* The cache moves to the given objects; events are queued for the handlers.
Hear(i, objects, events) ==
    [i EXCEPT !.cache = objects, !.queue = i.queue \o events]

\* The cluster tells every informer that watches a kind what has become of its
\* objects, in one order.
Announce(r, after, phase) ==
    /\ world' = [world EXCEPT ![r] = after]
    /\ \E events \in SetToSeqs(Events(world[r], after)) :
        informer' = [w \in Watch |->
            IF Kind(w) = r /\ informer[w].phase = "synced"
            THEN [Hear(informer[w], after, events) EXCEPT !.phase = phase]
            ELSE informer[w]]

ObjectChange ==
    /\ changes < MaxChanges
    /\ changes' = changes + 1
    /\ \E r \in present \cap Populated, n \in Name :
        LET here == {o \in world[r] : o.name = n}
            rest == world[r] \ here
            new(uid) == [name |-> n, uid |-> uid, revision |-> changes']
            objects == IF here = {} THEN {rest \cup {new(changes')}}
                       ELSE {rest} \cup {rest \cup {new(o.uid)} : o \in here}
        IN  \E after \in objects : Announce(r, after, "synced")
    /\ UNCHANGED <<present, faults, up, manager, current, watch, consumer,
                   client, loop, missed>>

\* A resource definition is installed, or removed after all of its objects.
Install ==
    /\ \E r \in Resource \ present : present' = present \cup {r}
    /\ UNCHANGED <<world, changes, faults, up, manager, current, watch,
                   informer, consumer, client, loop, missed>>

Uninstall ==
    /\ faults < MaxFaults
    /\ faults' = faults + 1
    /\ \E r \in present :
        /\ present' = present \ {r}
        /\ Announce(r, {}, "off")
    /\ UNCHANGED <<changes, up, manager, current, watch, consumer, client,
                   loop, missed>>

Disconnect(w) ==
    /\ faults < MaxFaults
    /\ faults' = faults + 1
    /\ informer[w].phase = "synced"
    /\ informer' = [informer EXCEPT ![w].phase = "off"]
    /\ UNCHANGED <<present, world, changes, up, manager, current, watch,
                   consumer, client, loop, missed>>

\* The informer lists the objects, at first and after every disconnection.  An
\* object that was replaced by another of its name is an update to it.
List(w) ==
    /\ watch[w].started
    /\ informer[w].phase = "off"
    /\ Kind(w) \in present
    /\ LET old == informer[w].cache
           new == world[Kind(w)]
       IN  /\ \E events \in SetToSeqs(Events(old, new)) :
                informer' = [informer EXCEPT ![w] =
                               [Hear(@, new, events) EXCEPT !.phase = "synced"]]
           /\ missed' = (missed \/ \E o \in old, n \in new :
                                     o.name = n.name /\ o.uid # n.uid)
    /\ UNCHANGED <<cluster, up, manager, current, watch, consumer, client,
                   loop>>
----------------------------------------------------------------------------
(* argoWatch.                                                              *)

Started == {w \in Watch : watch[w].started}
NextWatch(r) == <<r, 1 + Cardinality({w \in Started : Kind(w) = r})>>

\* Faulty: a watch is started although the last one still runs.
ToStartAgain(r) == r \in present

ToStart(r) == r \in present /\ current[r] = None

ToCancel(r) == r \notin present /\ current[r] # None

\* A discovery: watches are started and cancelled as the definitions come and go.
Discover ==
    /\ up
    /\ manager = "run"
    /\ \A r \in Resource : ToStart(r) => NextWatch(r) \in Watch
    /\ current' = [r \in Resource |-> IF ToStart(r) THEN NextWatch(r)
                                     ELSE IF ToCancel(r) THEN None ELSE current[r]]
    /\ watch' = [w \in Watch |->
          [started |-> w \in Started \/ (ToStart(Kind(w)) /\ NextWatch(Kind(w)) = w),
           cancelled |-> watch[w].cancelled \/ (ToCancel(Kind(w)) /\ current[Kind(w)] = w),
           closed |-> watch[w].closed]]
    /\ UNCHANGED <<cluster, up, manager, informer, consumer, client, loop,
                   missed>>

\* argoWatch returns, and the deferred function cancels what it has started,
\* when a discovery fails or Watch's context, which theirs derive from, ends.
ArgoWatchReturns ==
    /\ up
    /\ manager = "run"
    /\ faults < MaxFaults
    /\ faults' = faults + 1
    /\ manager' = "gone"
    /\ watch' = [w \in Watch |->
          IF current[Kind(w)] = w THEN [watch[w] EXCEPT !.cancelled = TRUE]
          ELSE watch[w]]
    /\ UNCHANGED <<present, world, changes, up, current, informer, consumer,
                   client, loop, missed>>
----------------------------------------------------------------------------
(* The goroutines of a watch.                                              *)

\* The informer stops with its context; what is still queued is dropped.
InformerStops(w) ==
    /\ watch[w].cancelled
    /\ informer[w].phase # "stopped"
    /\ informer' = [informer EXCEPT ![w].phase = "stopped", ![w].queue = <<>>]
    /\ UNCHANGED <<cluster, up, manager, current, watch, consumer, client,
                   loop, missed>>

GenericCallback(event, sotw) == [type |-> event.type, obj |-> event.obj, sotw |-> sotw]

ListCache(w) == informer[w].cache

\* Faulty: a deleted object is forgotten, as if DeleteFunc did not know its type.
HandleForgets(w) ==
    /\ informer[w].queue # <<>>
    /\ informer[w].callback = None
    /\ LET event == Head(informer[w].queue)
           callback == [GenericCallback(event, ListCache(w)) EXCEPT
                           !.obj = IF event.type = "deleted" THEN None ELSE @]
       IN  informer' = [informer EXCEPT ![w].queue = Tail(@),
                                        ![w].callback = callback]
    /\ UNCHANGED <<cluster, up, manager, current, watch, consumer, client,
                   loop, missed>>

\* AddFunc, UpdateFunc, DeleteFunc: the cache is listed when the handler runs.
Handle(w) ==
    /\ informer[w].queue # <<>>
    /\ informer[w].callback = None
    /\ informer' = [informer EXCEPT
          ![w].queue = Tail(@),
          ![w].callback = GenericCallback(Head(informer[w].queue), ListCache(w))]
    /\ UNCHANGED <<cluster, up, manager, current, watch, consumer, client,
                   loop, missed>>

\* Faulty: the done flag is not looked at under the mutex.
SendCallbackUnchecked(w) ==
    /\ informer[w].callback # None
    /\ mux = None
    /\ mux' = w
    /\ UNCHANGED <<cluster, up, manager, current, watch, informer, consumer,
                   done, loop, missed>>

\* sendCallback: take the mutex, and give up if any watch has ended ...
SendCallback(w) ==
    /\ informer[w].callback # None
    /\ mux = None
    /\ IF done
       THEN /\ informer' = [informer EXCEPT ![w].callback = None]
            /\ UNCHANGED mux
       ELSE mux' = w /\ UNCHANGED informer
    /\ UNCHANGED <<cluster, up, manager, current, watch, consumer, done, loop,
                   missed>>

\* ... or send on the unbuffered channel, which waits for the consumer.
Receive(w) ==
    /\ mux = w
    /\ consumer[w].stage = "select"
    /\ consumer' = [consumer EXCEPT ![w].stage = "update",
                                    ![w].callback = informer[w].callback]
    /\ informer' = [informer EXCEPT ![w].callback = None]
    /\ mux' = None
    /\ UNCHANGED <<cluster, up, manager, current, watch, done, loop, missed>>

CloserRuns(w) ==
    /\ watch[w].cancelled
    /\ ~watch[w].closed
    /\ mux = None
    /\ done' = TRUE
    /\ watch' = [watch EXCEPT ![w].closed = TRUE]
    /\ UNCHANGED <<cluster, up, manager, current, informer, consumer, mux,
                   loop, missed>>

\* Faulty: the context is not among the cases of the consumer's select.
ConsumerEndsNever(w) == FALSE /\ UNCHANGED vars

\* A closed channel is ready as well, but receiving from it changes nothing.
ConsumerEnds(w) ==
    /\ watch[w].cancelled
    /\ consumer[w].stage = "select"
    /\ consumer' = [consumer EXCEPT ![w].stage = "gone"]
    /\ UNCHANGED <<cluster, up, manager, current, watch, informer, client,
                   loop, missed>>

\* Faulty: a deleted object stays in the store.
ApplyKeepsDeleted(sotw, callback) ==
    [uid \in DOMAIN sotw \cup {callback.obj.uid} |->
        IF uid = callback.obj.uid THEN callback.obj ELSE sotw[uid]]

\* The state of the world after a callback.
Apply(sotw, callback) ==
    IF callback.type = "deleted"
    THEN [uid \in DOMAIN sotw \ {callback.obj.uid} |-> sotw[uid]]
    ELSE [uid \in DOMAIN sotw \cup {callback.obj.uid} |->
            IF uid = callback.obj.uid THEN callback.obj ELSE sotw[uid]]

\* It is kept by uid.
toUntructuredMap(objects) ==
    [uid \in {o.uid : o \in objects} |-> CHOOSE o \in objects : o.uid = uid]

\* The first callback brings it.
Initial(store, callback) ==
    IF store = None THEN toUntructuredMap(callback.sotw) ELSE store

FromCallback(w) ==
    /\ consumer[w].stage = "update"
    /\ LET callback == consumer[w].callback
       IN  consumer' = [consumer EXCEPT ![w] =
                          [stage |-> "publish", callback |-> None,
                           store |-> Apply(Initial(@.store, callback), callback)]]
    /\ UNCHANGED <<cluster, up, manager, current, watch, informer, client,
                   loop, missed>>

\* argoLock: not while the main loop reads.
Publish(w) ==
    /\ consumer[w].stage = "publish"
    /\ reading = None
    /\ published' = [published EXCEPT ![Kind(w)] = w]
    /\ consumer' = [consumer EXCEPT ![w].stage = "select"]
    /\ UNCHANGED <<cluster, up, manager, current, watch, informer, client,
                   reading, missed>>
----------------------------------------------------------------------------
(* The main loop makes a snapshot: first the rollouts, then the applications. *)

Held == {r \in Resource : published[r] # None}

\* argoLock is held from the first iteration to the last; a store that is nil is
\* passed over.
Read ==
    /\ up
    /\ \/ /\ reading = None /\ Held # {}
          /\ reading' = IF "rollouts" \in Held THEN "rollouts" ELSE "applications"
       \/ /\ reading = "rollouts"
          /\ reading' = IF "applications" \in Held THEN "applications" ELSE None
       \/ reading = "applications" /\ reading' = None
    /\ UNCHANGED <<cluster, up, manager, current, watch, informer, consumer,
                   client, published, missed>>

StateOfWorld(sotw) == Range(sotw)

Reported(r) ==
    IF published[r] = None THEN {} ELSE StateOfWorld(consumer[published[r]].store)

\* FromCallback writes the map that StateOfWorld iterates over.
MapShared ==
    /\ reading # None
    /\ published[reading] # None
    /\ consumer[published[reading]].stage = "update"

\* The runtime may notice the concurrent use of a map, and ends the process.
MapRace ==
    /\ MapShared
    /\ faults < MaxFaults
    /\ faults' = faults + 1
    /\ up' = FALSE
    /\ manager' = "run"
    /\ current' = [r \in Resource |-> None]
    /\ watch' = [w \in Watch |-> Unused]
    /\ informer' = [w \in Watch |-> NewInformer]
    /\ consumer' = [w \in Watch |-> NewConsumer]
    /\ mux' = None
    /\ done' = FALSE
    /\ published' = [r \in Resource |-> None]
    /\ reading' = None
    /\ missed' = FALSE
    /\ UNCHANGED <<present, world, changes>>

Restart ==
    /\ ~up
    /\ up' = TRUE
    /\ UNCHANGED <<cluster, manager, current, watch, informer, consumer,
                   client, loop, missed>>
----------------------------------------------------------------------------
Environment == ObjectChange \/ Install \/ Uninstall \/ Restart
               \/ \E w \in Watch : Disconnect(w)

Manager == Discover \/ ArgoWatchReturns

Informer(w) == List(w) \/ InformerStops(w) \/ Handle(w) \/ SendCallback(w)

Consumer(w) == Receive(w) \/ ConsumerEnds(w) \/ FromCallback(w) \/ Publish(w)

Next ==
    \/ Environment
    \/ Manager
    \/ Read
    \/ MapRace
    \/ \E w \in Watch : Informer(w) \/ CloserRuns(w) \/ Consumer(w)

\* Goroutines are scheduled and lists succeed in the end; a Go mutex is handed
\* to who has waited long, and a select picks at random.  The periodic discovery
\* succeeds again and again unless it has ended the watch.
Fairness ==
    /\ WF_vars(Restart)
    /\ WF_vars(Discover)
    /\ WF_vars(Read /\ reading # None)
    /\ \A w \in Watch :
        /\ WF_vars(List(w) \/ InformerStops(w))
        /\ SF_vars(Handle(w) \/ SendCallback(w))
        /\ SF_vars(CloserRuns(w))
        /\ SF_vars(ConsumerEnds(w))
        /\ SF_vars(Receive(w) \/ FromCallback(w) \/ Publish(w))

SafetySpec == Init /\ [][Next]_vars
Spec == SafetySpec /\ Fairness
----------------------------------------------------------------------------
(* Properties.                                                             *)

\* Every object on its way is one the cluster has had, a callback carries it with the
\* state of the world, and a store keeps it by its uid (k8s.go:28-38, 43-48;
\* argo.go:14-41).
TypeOK ==
    /\ present \in SUBSET Resource
    /\ world \in [Resource -> SUBSET Object]
    /\ changes \in 0 .. MaxChanges /\ faults \in 0 .. MaxFaults
    /\ up \in BOOLEAN /\ done \in BOOLEAN /\ missed \in BOOLEAN
    /\ manager \in {"run", "gone"}
    /\ current \in [Resource -> Watch \cup {None}]
    /\ watch \in [Watch -> [started : BOOLEAN, cancelled : BOOLEAN, closed : BOOLEAN]]
    /\ informer \in [Watch ->
            [phase : {"off", "synced", "stopped"}, cache : SUBSET Object,
             queue : Seq(Event), callback : Callback \cup {None}]]
    /\ consumer \in [Watch ->
            [stage : {"select", "update", "publish", "gone"},
             callback : Callback \cup {None}, store : Store \cup {None}]]
    /\ mux \in Watch \cup {None}
    /\ published \in [Resource -> Watch \cup {None}]
    /\ reading \in Resource \cup {None}
    /\ \A w \in Watch :
        /\ consumer[w].stage = "update" <=> consumer[w].callback # None
        /\ consumer[w].store # None =>
              \A uid \in DOMAIN consumer[w].store : consumer[w].store[uid].uid = uid

\* A send on a closed channel would panic: the channel of a handler that is about
\* to send, or blocked in the send, is open (k8s.go:87-106).
NoSendOnClosed == mux # None => ~watch[mux].closed

\* There is at most one watch of a kind whose context is live, the one argoWatch
\* can cancel, however the definitions come and go (agent.go:378-403).
OneWatch ==
    \A w \in Watch :
        watch[w].started /\ ~watch[w].cancelled => current[Kind(w)] = w

\* The objects left when callbacks are applied to a store one after the other: the
\* last callback of an object decides, or the store where there is none.
Decides(calls, i) ==
    \A j \in DOMAIN calls : j > i => calls[j].obj.uid # calls[i].obj.uid

Untouched(store, calls) ==
    {uid \in DOMAIN store : \A i \in DOMAIN calls : calls[i].obj.uid # uid}

Outcome(store, calls) ==
    {calls[i].obj : i \in {j \in DOMAIN calls : calls[j].type # "deleted" /\ Decides(calls, j)}}
    \cup {store[uid] : uid \in Untouched(store, calls)}

\* The callbacks on their way to the store: the consumer's and the handler's.
Waiting(w) ==
    (IF consumer[w].callback = None THEN <<>> ELSE <<consumer[w].callback>>)
    \o (IF informer[w].callback = None THEN <<>> ELSE <<informer[w].callback>>)

\* What they are applied to: the store, or what the first of them will bring.
Base(w) ==
    IF consumer[w].store # None THEN consumer[w].store
    ELSE toUntructuredMap(IF Waiting(w) # <<>> THEN Head(Waiting(w)).sotw
                          ELSE ListCache(w))

\* What a store will hold once they and those of the queued events are applied.
Replay(w) == Outcome(Base(w), Waiting(w) \o informer[w].queue)

\* The first callback's state of the world may be newer than its object, and the
\* informer's cache newer than the queue (k8s.go:113-135, argo.go:108-121): all
\* the same, a store and the callbacks on their way to it always make up the
\* informer's cache, until a watch ends or a reconnection hides a replacement.
StoreReplays ==
    \A w \in Watch :
        watch[w].started /\ ~watch[w].cancelled /\ ~done /\ ~missed
            => Replay(w) = ListCache(w)

\* A cancelled watch's consumer ends, also when its closed channel is ready all
\* the time (agent.go:426-440).
ConsumersEnd ==
    \A w \in Watch :
        watch[w].cancelled ~> (consumer[w].stage = "gone" \/ ~watch[w].started)

Following(r) == up /\ manager = "run" /\ r \in present

\* With every watch it started still running, the agent comes to report exactly
\* the objects there are, for each kind that stays installed, unless a
\* reconnection hid that one was replaced (agent.go:350-442, argo.go:105-123).
StoreFollows ==
    \A r \in Resource :
        <>[](Following(r) /\ ~missed /\ \A w \in Watch : ~watch[w].cancelled)
            => <>[](Reported(r) = world[r])
=============================================================================
