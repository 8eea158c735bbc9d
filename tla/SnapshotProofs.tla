--------------------------- MODULE SnapshotProofs ---------------------------
(***************************************************************************)
(* Proofs about Snapshot, for any objects, namespaces and faults.          *)
(***************************************************************************)
EXTENDS Snapshot, SequenceTheorems, TLAPS

\* What NothingUnwanted says of one list.
Wanted(k, list) ==
    list = None
        \/ \A o \in list : /\ o.ns # "kube-system" /\ (k = "pods" => o.phase # "Succeeded")
                           /\ o.kind # None /\ ~o.managed

\* Caches hold objects of their kind.
CachesOK ==
    /\ world = [k \in Kind |-> world[k]]
    /\ cache = [k \in Kind |-> cache[k]]
    /\ \A k \in Kind : world[k] \subseteq Objects[k] /\ cache[k].has \subseteq Objects[k]

\* A snapshot under construction has, of each kind of CoreWatchers, a list that is as
\* it should be, unless that kind is still to be loaded: what was there before, of
\* Emissary's snapshot, is then replaced.
Filling ==
    pc = "load" =>
        /\ snapshot = [id |-> snapshot.id, lists |-> snapshot.lists, todo |-> snapshot.todo]
        /\ snapshot.lists = [k \in Kind |-> snapshot.lists[k]]
        /\ snapshot.todo \in Seq(Kind)
        /\ \A k \in Core :
            (\E i \in 1 .. Len(snapshot.todo) : snapshot.todo[i] = k) \/ Wanted(k, snapshot.lists[k])

SnapshotInv == CachesOK /\ Filling /\ NothingUnwanted

LEMMA Kinds ==
    /\ Core = {"pods", "configmaps", "deployments", "endpoints"}
    /\ Fallback = {"services", "ingresses"}
    /\ Core \subseteq Kind /\ Fallback \subseteq Kind
<1>1. 1 .. 4 = {1, 2, 3, 4} /\ 1 .. 2 = {1, 2}
  OBVIOUS
<1>2. Core = {CoreOrder[1], CoreOrder[2], CoreOrder[3], CoreOrder[4]}
  BY <1>1 DEF Core
<1>3. Fallback = {FallbackOrder[1], FallbackOrder[2]}
  BY <1>1 DEF Fallback
<1> QED
  BY <1>2, <1>3 DEF CoreOrder, FallbackOrder, Kind

LEMMA SecondPart ==
    ASSUME NEW S, NEW s \in Seq(S), NEW t \in Seq(S), Len(s) = 2, Len(t) = 4
    PROVE  /\ s \o t \in Seq(S) /\ Len(s \o t) = 6
           /\ \A i \in 1 .. 4 : (s \o t)[i + 2] = t[i]
<1>1. /\ s \o t \in Seq(S) /\ Len(s \o t) = Len(s) + Len(t)
      /\ \A i \in 1 .. Len(s) + Len(t) : (s \o t)[i] =
            IF i <= Len(s) THEN s[i] ELSE t[i - Len(s)]
  BY ConcatProperties
<1>2. Len(s) + Len(t) = 6
  OBVIOUS
<1>3. \A j \in 1 .. 6 : (s \o t)[j] = IF j <= 2 THEN s[j] ELSE t[j - 2]
  BY <1>1, <1>2
<1>4. ASSUME NEW i \in 1 .. 4 PROVE (s \o t)[i + 2] = t[i]
  <2>1. i + 2 \in 1 .. 6 /\ ~(i + 2 <= 2) /\ (i + 2) - 2 = i
    OBVIOUS
  <2> QED
    BY <1>3, <2>1
<1> QED
  BY <1>1, <1>2, <1>4

LEMMA Orders ==
    /\ CoreOrder \in Seq(Kind)
    /\ FallbackOrder \o CoreOrder \in Seq(Kind)
    /\ \A k \in Core : /\ \E i \in 1 .. Len(CoreOrder) : CoreOrder[i] = k
                       /\ \E i \in 1 .. Len(FallbackOrder \o CoreOrder) :
                            (FallbackOrder \o CoreOrder)[i] = k
<1>1. CoreOrder \in Seq(Kind) /\ FallbackOrder \in Seq(Kind)
  BY Kinds DEF CoreOrder, FallbackOrder
<1>2. Len(CoreOrder) = 4 /\ Len(FallbackOrder) = 2
  BY DEF CoreOrder, FallbackOrder
<1>3. \A k \in Core : \E i \in 1 .. 4 : CoreOrder[i] = k
  BY DEF Core
<1>4. /\ FallbackOrder \o CoreOrder \in Seq(Kind)
      /\ Len(FallbackOrder \o CoreOrder) = 6
      /\ \A i \in 1 .. 4 : (FallbackOrder \o CoreOrder)[i + 2] = CoreOrder[i]
  BY <1>1, <1>2, SecondPart
<1>5. \A k \in Core : \E i \in 1 .. 6 : (FallbackOrder \o CoreOrder)[i] = k
  <2> SUFFICES ASSUME NEW k \in Core PROVE \E i \in 1 .. 6 : (FallbackOrder \o CoreOrder)[i] = k
    OBVIOUS
  <2>1. PICK i \in 1 .. 4 : CoreOrder[i] = k
    BY <1>3
  <2>2. i + 2 \in 1 .. 6
    OBVIOUS
  <2> QED
    BY <1>4, <2>1, <2>2
<1> QED
  BY <1>1, <1>2, <1>3, <1>4, <1>5

\* What is filtered out, and what the modifier writes.
LEMMA ModifierWrites ==
    ASSUME NEW k \in Core, NEW o \in Objects[k]
    PROVE  LET p == objectModifier(k, o)
           IN  /\ p.ns = o.ns /\ (k = "pods" => p.phase = o.phase)
               /\ p.kind # None /\ ~p.managed
<1> DEFINE name == CASE k = "pods" -> "Pod"
                     [] k = "configmaps" -> "ConfigMap"
                     [] k = "deployments" -> "Deployment"
                     [] k = "endpoints" -> "Endpoint"
                     [] k = "services" -> "Service"
                     [] k = "ingresses" -> "Ingress"
           p == [o EXCEPT !.managed = FALSE, !.kind = name]
<1>1. name \in {"Pod", "ConfigMap", "Deployment", "Endpoint"}
  BY Kinds
<1>2. {"ns", "kind", "managed"} \subseteq DOMAIN o /\ (k = "pods" => "phase" \in DOMAIN o)
  BY SnapshotAssumption, Kinds
<1> HIDE DEF name
<1>3. p.ns = o.ns /\ (k = "pods" => p.phase = o.phase) /\ p.kind = name /\ p.managed = FALSE
  BY <1>2
<1>4. p.kind # None
  BY <1>1, <1>3, SnapshotAssumption
<1> QED
  BY <1>3, <1>4 DEF objectModifier, name

LEMMA LoadWanted ==
    ASSUME NEW k \in Core, NEW objects, objects \subseteq Objects[k]
    PROVE  Wanted(k, IF k = "pods" THEN loadPods(objects) ELSE loadOthers(k, objects))
<1>1. CASE k = "pods"
  <2> SUFFICES ASSUME NEW o \in loadPods(objects)
               PROVE  /\ o.ns # "kube-system" /\ o.phase # "Succeeded"
                      /\ o.kind # None /\ ~o.managed
    BY <1>1 DEF Wanted
  <2>1. PICK p \in objects : /\ allowedNamespace(p.ns) /\ p.phase # "Succeeded"
                             /\ o = objectModifier("pods", p)
    BY DEF loadPods
  <2> QED
    BY <1>1, <2>1, ModifierWrites DEF allowedNamespace
<1>2. CASE k # "pods"
  <2> SUFFICES ASSUME NEW o \in loadOthers(k, objects)
               PROVE  o.ns # "kube-system" /\ o.kind # None /\ ~o.managed
    BY <1>2 DEF Wanted
  <2>1. PICK p \in objects : allowedNamespace(p.ns) /\ o = objectModifier(k, p)
    BY DEF loadOthers
  <2> QED
    BY <2>1, ModifierWrites DEF allowedNamespace
<1> QED
  BY <1>1, <1>2
----------------------------------------------------------------------------
LEMMA SnapshotInit == Init => SnapshotInv
<1> SUFFICES ASSUME Init PROVE SnapshotInv
  OBVIOUS
<1>1. CachesOK
  <2>1. world = [k \in Kind |-> world[k]] /\ \A k \in Kind : world[k] \subseteq Objects[k]
    BY SnapshotAssumption DEF Init
  <2>2. cache = [k \in Kind |-> cache[k]] /\ \A k \in Kind : cache[k].has = {}
    BY DEF Init, Off
  <2> QED
    BY <2>1, <2>2 DEF CachesOK
<1>2. Filling /\ NothingUnwanted
  BY DEF Init, Filling, NothingUnwanted
<1> QED
  BY <1>1, <1>2 DEF SnapshotInv

LEMMA StartedOK ==
    ASSUME CachesOK, NEW k \in Kind
    PROVE  Started(k).has \subseteq Objects[k] /\ Visible(k) \subseteq Objects[k]
BY DEF CachesOK, Started, Visible

\* Steps that leave the snapshot under construction and the report alone.
LEMMA CachesChange ==
    ASSUME SnapshotInv, CachesOK', UNCHANGED <<snapshot, report>>, pc' = "load" => pc = "load"
    PROVE  SnapshotInv'
BY DEF SnapshotInv, Filling, NothingUnwanted

LEMMA ClusterKeeps ==
    ASSUME SnapshotInv, ObjectChanges \/ ApiChanges \/ EmissaryChanges
    PROVE  SnapshotInv'
<1>1. CASE ObjectChanges
  <2>1. PICK k \in Kind : \E o \in Objects[k] :
            world' = [world EXCEPT ![k] = IF o \in @ THEN @ \ {o} ELSE @ \cup {o}]
    BY <1>1 DEF ObjectChanges
  <2>2. cache' = cache /\ UNCHANGED <<pc, snapshot, report>>
    BY <1>1 DEF ObjectChanges
  <2>3. CachesOK'
    BY <2>1, <2>2 DEF SnapshotInv, CachesOK
  <2> QED
    BY <2>2, <2>3, CachesChange
<1>2. CASE ApiChanges \/ EmissaryChanges
  <2>1. UNCHANGED <<world, cache, pc, snapshot, report>>
    BY <1>2 DEF ApiChanges, EmissaryChanges
  <2> QED
    BY <2>1, CachesChange DEF SnapshotInv, CachesOK
<1> QED
  BY <1>1, <1>2

LEMMA DiesKeeps == SnapshotInv /\ Dies => SnapshotInv'
<1> SUFFICES ASSUME SnapshotInv, Dies PROVE SnapshotInv'
  OBVIOUS
<1>1. world' = world /\ cache' = [k \in Kind |-> Off] /\ pc' = "down" /\ report' = None
  BY DEF Dies, cluster
<1>2. CachesOK'
  BY <1>1 DEF SnapshotInv, CachesOK, Off
<1> QED
  BY <1>1, <1>2 DEF SnapshotInv, Filling, NothingUnwanted

\* The informers a change of Emissary starts or ends.
LEMMA HandleOK ==
    ASSUME CachesOK, NEW seen, NEW core,
           \A k \in Core : core[k].has \subseteq Objects[k],
           handleAmbassadorEndpointChange(seen, core), world' = world
    PROVE  CachesOK'
<1>1. \A k \in Kind : cache'[k] = IF k \in Core THEN core[k]
                                  ELSE IF seen THEN FallbackCancelled[k] ELSE FallbackStarted[k]
  BY DEF handleAmbassadorEndpointChange
<1>2. \A k \in Fallback : FallbackCancelled[k].has = {} /\ FallbackStarted[k] = Started(k)
  BY DEF FallbackCancelled, FallbackStarted, Off
<1>3. \A k \in Kind \ Core : k \in Fallback
  BY DEF Kind
<1>4. \A k \in Kind : cache'[k].has \subseteq Objects[k]
  BY <1>1, <1>2, <1>3, StartedOK
<1>5. cache' = [k \in Kind |-> cache'[k]]
  BY DEF handleAmbassadorEndpointChange
<1> QED
  BY <1>4, <1>5 DEF CachesOK

LEMMA LoopKeeps ==
    ASSUME SnapshotInv, NewAgent \/ Detect \/ Subscribe \/ Tick \/ AmbassadorNotice
    PROVE  SnapshotInv'
<1>1. CASE NewAgent \/ Subscribe \/ Tick
  <2>1. UNCHANGED <<world, cache, snapshot, report>> /\ pc' # "load"
    BY <1>1 DEF NewAgent, Subscribe, Tick, cluster
  <2> QED
    BY <2>1, CachesChange DEF SnapshotInv, CachesOK
<1>2. CASE Detect
  <2> DEFINE core == [k \in Core |-> Started(k)]
  <2>1. UNCHANGED <<world, snapshot, report>> /\ pc' # "load"
    BY <1>2 DEF Detect, cluster
  <2>2. \A k \in Core : core[k].has \subseteq Objects[k]
    BY StartedOK, Kinds DEF SnapshotInv
  <2>3. \E seen \in {emissary.up, FALSE} : handleAmbassadorEndpointChange(seen, core)
    BY <1>2 DEF Detect, Detected
  <2> HIDE DEF core
  <2>4. CachesOK'
    BY <2>1, <2>2, <2>3, HandleOK DEF SnapshotInv
  <2> QED
    BY <2>1, <2>4, CachesChange
<1>3. CASE AmbassadorNotice
  <2>1. UNCHANGED <<world, snapshot, report>> /\ pc' # "load"
    BY <1>3 DEF AmbassadorNotice, cluster
  <2>2. \A k \in Core : cache[k].has \subseteq Objects[k]
    BY Kinds DEF SnapshotInv, CachesOK
  <2>3. \E seen \in {emissary.up, FALSE} : handleAmbassadorEndpointChange(seen, cache)
    BY <1>3 DEF AmbassadorNotice, Detected
  <2>4. CachesOK'
    BY <2>1, <2>2, <2>3, HandleOK DEF SnapshotInv
  <2> QED
    BY <2>1, <2>4, CachesChange
<1> QED
  BY <1>1, <1>2, <1>3

\* Every source leaves the lists of CoreWatchers empty or to be loaded.
LEMMA LoadingStarts ==
    ASSUME CachesOK', NothingUnwanted', NEW id, NEW lists, NEW order,
           Loading(id, lists, order), lists = [k \in Kind |-> lists[k]],
           \/ order = <<>> /\ lists = NoLists
           \/ order = CoreOrder
           \/ order = FallbackOrder \o CoreOrder
    PROVE  SnapshotInv'
<1>1. snapshot' = [id |-> id, lists |-> lists, todo |-> order]
  BY DEF Loading
<1>2. order \in Seq(Kind)
  BY Orders, EmptySeq
<1>3. \A k \in Core : (\E i \in 1 .. Len(order) : order[i] = k) \/ Wanted(k, lists[k])
  <2>1. CASE lists = NoLists
    BY <2>1, Kinds DEF NoLists, Wanted
  <2>2. CASE order = CoreOrder \/ order = FallbackOrder \o CoreOrder
    BY <2>2, Orders
  <2> QED
    BY <2>1, <2>2
<1> QED
  BY <1>1, <1>2, <1>3 DEF SnapshotInv, Filling, Wanted

LEMMA SourceKeeps ==
    ASSUME SnapshotInv, SourceEmissary \/ SourceOwn
    PROVE  SnapshotInv'
<1>1. UNCHANGED <<world, cache, report>>
  BY DEF SourceEmissary, SourceOwn, cluster
<1>2. CachesOK' /\ NothingUnwanted'
  BY <1>1 DEF SnapshotInv, CachesOK, NothingUnwanted
<1>3. CASE NothingToReport
  BY <1>1, <1>2, <1>3 DEF NothingToReport, SnapshotInv, Filling
<1>4. /\ NoLists = [k \in Kind |-> NoLists[k]] /\ Theirs = [k \in Kind |-> Theirs[k]]
      /\ [Theirs EXCEPT !["services"] = None]
            = [k \in Kind |-> [Theirs EXCEPT !["services"] = None][k]]
  BY DEF NoLists, Theirs
<1>5. CASE SourceEmissary
  <2>1. \/ NothingToReport
        \/ Loading("emissary", NoLists, <<>>)
        \/ Loading("emissary", Theirs, CoreOrder)
        \/ Loading("emissary", [Theirs EXCEPT !["services"] = None], CoreOrder)
    BY <1>5 DEF SourceEmissary, getAmbSnapshotInfo, getAmbSnapshotInfoFails
  <2> QED
    BY <1>2, <1>3, <1>4, <2>1, LoadingStarts
<1>6. CASE SourceOwn
  <2>1. \E id \in getClusterID \cup {"zero"} : Loading(id, NoLists, FallbackOrder \o CoreOrder)
    BY <1>6 DEF SourceOwn
  <2> QED
    BY <1>2, <1>4, <2>1, LoadingStarts
<1> QED
  BY <1>5, <1>6

\* The list that was to come is there.
LEMMA LoadedKeeps ==
    ASSUME SnapshotInv, CachesOK', ToLoad, NEW list, Loaded(list),
           Coming \in Core => Wanted(Coming, list), UNCHANGED <<pc, report>>
    PROVE  SnapshotInv'
<1> DEFINE todo == snapshot.todo
<1>1. /\ pc = "load" /\ todo \in Seq(Kind) /\ todo # <<>> /\ Coming = Head(todo)
      /\ snapshot = [id |-> snapshot.id, lists |-> snapshot.lists, todo |-> todo]
      /\ snapshot.lists = [k \in Kind |-> snapshot.lists[k]]
  BY DEF ToLoad, SnapshotInv, Filling, Coming
<1>2. /\ snapshot'.todo = Tail(todo)
      /\ snapshot'.lists = [snapshot.lists EXCEPT ![Coming] = list]
      /\ snapshot' = [id |-> snapshot.id, lists |-> snapshot'.lists, todo |-> Tail(todo)]
  BY <1>1 DEF Loaded
<1>3. /\ Head(todo) \in Kind /\ Head(todo) = todo[1] /\ Tail(todo) \in Seq(Kind)
      /\ Len(Tail(todo)) = Len(todo) - 1 /\ Len(todo) \in Nat
      /\ \A i \in 1 .. Len(Tail(todo)) : Tail(todo)[i] = todo[i + 1]
  BY <1>1, HeadTailProperties, LenProperties
<1>4. \A k \in Kind : snapshot'.lists[k] = IF k = Coming THEN list ELSE snapshot.lists[k]
  BY <1>1, <1>2
<1>5. ASSUME NEW k \in Core
      PROVE  (\E i \in 1 .. Len(Tail(todo)) : Tail(todo)[i] = k) \/ Wanted(k, snapshot'.lists[k])
  <2>1. CASE k = Coming
    BY <1>4, <2>1, Kinds
  <2>2. CASE k # Coming /\ \E i \in 1 .. Len(todo) : todo[i] = k
    <3>1. PICK i \in 1 .. Len(todo) : todo[i] = k
      BY <2>2
    <3>2. i # 1
      BY <1>1, <1>3, <2>2, <3>1
    <3>3. i - 1 \in 1 .. Len(Tail(todo)) /\ (i - 1) + 1 = i
      BY <1>3, <3>2
    <3> QED
      BY <1>3, <3>1, <3>3
  <2>3. CASE k # Coming /\ Wanted(k, snapshot.lists[k])
    BY <1>4, <2>3, Kinds
  <2> QED
    BY <1>1, <2>1, <2>2, <2>3 DEF SnapshotInv, Filling
<1>6. snapshot'.lists = [k \in Kind |-> snapshot'.lists[k]]
  BY <1>1, <1>2
<1>7. Filling'
  BY <1>2, <1>3, <1>5, <1>6 DEF Filling, Wanted
<1> QED
  BY <1>7 DEF SnapshotInv, NothingUnwanted

LEMMA LoadKeeps == SnapshotInv /\ Load => SnapshotInv'
<1> SUFFICES ASSUME SnapshotInv, Load PROVE SnapshotInv'
  OBVIOUS
<1>1. ASSUME ToLoad PROVE Coming \in Kind
  BY <1>1, HeadTailProperties DEF ToLoad, SnapshotInv, Filling, Coming
<1>2. ASSUME ToLoad, cache' = [cache EXCEPT ![Coming] = Started(Coming)], world' = world
      PROVE  CachesOK'
  BY <1>1, <1>2, StartedOK DEF SnapshotInv, CachesOK
<1>3. CASE LoadCore
  <2>1. ToLoad /\ Coming \in Core /\ UNCHANGED <<world, pc, report>>
        /\ cache' = [cache EXCEPT ![Coming] = Started(Coming)]
    BY <1>3 DEF LoadCore, cluster
  <2>2. Held \subseteq Objects[Coming]
    BY <1>1, <2>1, StartedOK DEF SnapshotInv, Held
  <2>3. Wanted(Coming, IF Coming = "pods" THEN loadPods(Held) ELSE loadOthers(Coming, Held))
    BY <2>1, <2>2, LoadWanted
  <2> QED
    BY <1>2, <1>3, <2>1, <2>3, LoadedKeeps DEF LoadCore
<1>4. ASSUME Coming \in {"services", "ingresses"} PROVE Coming \notin Core
  BY <1>4, Kinds
<1>5. CASE LoadServices \/ LoadIngresses
  <2>1. ToLoad /\ Coming \notin Core /\ UNCHANGED <<world, pc, report>>
        /\ cache' = [cache EXCEPT ![Coming] = Started(Coming)]
    BY <1>4, <1>5 DEF LoadServices, LoadIngresses, cluster
  <2>2. \E list : Loaded(list)
    BY <1>5 DEF LoadServices, LoadIngresses
  <2> QED
    BY <1>2, <2>1, <2>2, LoadedKeeps
<1>6. CASE ConvertPanics
  BY <1>6, DiesKeeps DEF ConvertPanics
<1>7. CASE ListFails
  <2>1. ToLoad /\ UNCHANGED <<world, cache, pc, report>>
    BY <1>7 DEF ListFails, cluster
  <2>2. CachesOK'
    BY <2>1 DEF SnapshotInv, CachesOK
  <2> DEFINE list == IF Coming = "ingresses" THEN snapshot.lists[Coming] ELSE None
  <2>3. Loaded(list)
    BY <1>7 DEF ListFails
  <2>4. Coming \in Core => Wanted(Coming, list)
    BY <1>4 DEF Wanted
  <2> QED
    BY <2>1, <2>2, <2>3, <2>4, LoadedKeeps
<1> QED
  BY <1>3, <1>5, <1>6, <1>7 DEF Load

LEMMA PublishKeeps == SnapshotInv /\ Publish => SnapshotInv'
<1> SUFFICES ASSUME SnapshotInv, Publish PROVE SnapshotInv'
  OBVIOUS
<1>1. /\ pc' # "load" /\ UNCHANGED <<world, cache>>
      /\ report' = [id |-> snapshot.id, lists |-> snapshot.lists]
  BY DEF Publish, cluster
<1>2. ASSUME NEW k \in Core PROVE Wanted(k, snapshot.lists[k])
  <2>1. Len(snapshot.todo) = 0
    BY EmptySeq DEF Publish
  <2> QED
    BY <2>1 DEF Publish, SnapshotInv, Filling
<1>3. \A k \in Core : Wanted(k, report'.lists[k])
  BY <1>1, <1>2
<1>4. NothingUnwanted'
  BY <1>3 DEF NothingUnwanted, Wanted
<1>5. CachesOK' /\ Filling'
  BY <1>1 DEF SnapshotInv, CachesOK, Filling
<1> QED
  BY <1>4, <1>5 DEF SnapshotInv

LEMMA SnapshotKept == SnapshotInv /\ [Next]_vars => SnapshotInv'
<1> SUFFICES ASSUME SnapshotInv, [Next]_vars PROVE SnapshotInv'
  OBVIOUS
<1>1. CASE ObjectChanges \/ ApiChanges \/ EmissaryChanges
  BY <1>1, ClusterKeeps
<1>2. CASE Crash
  BY <1>2, DiesKeeps DEF Crash
<1>3. ASSUME NEW k \in Kind, Deliver(k) PROVE SnapshotInv'
  <2>1. UNCHANGED <<world, pc, snapshot, report>> /\ cache' = [cache EXCEPT ![k].has = Visible(k)]
    BY <1>3 DEF Deliver, cluster
  <2>2. CachesOK'
    BY <2>1, StartedOK DEF SnapshotInv, CachesOK
  <2> QED
    BY <2>1, <2>2, CachesChange
<1>4. CASE MainLoop
  BY <1>4, LoopKeeps, SourceKeeps, LoadKeeps, PublishKeeps DEF MainLoop
<1>5. CASE UNCHANGED vars
  BY <1>5, CachesChange DEF vars, cluster, SnapshotInv, CachesOK
<1> QED
  BY <1>1, <1>2, <1>3, <1>4, <1>5 DEF Next, Environment

\* Whatever objects there are, wherever a report comes from and whatever failed, it has no
\* pods, config maps, deployments and endpoints of the cluster's own namespace and no pods
\* that are over, and those it has say what they are (core_watchers.go:60-142).
THEOREM NothingUnwantedHolds == SafetySpec => []NothingUnwanted
<1>1. SafetySpec => []SnapshotInv
  BY SnapshotInit, SnapshotKept, PTL DEF SafetySpec
<1> QED
  BY <1>1, PTL DEF SnapshotInv
----------------------------------------------------------------------------
(* Types. What a list may hold, whoever made it.                           *)

ListOf(k, list) == list = None \/ list \subseteq Reported(k)

Snapshots == [id : Ids, lists : Lists, todo : Seq(Kind)]
Reports == [id : Ids, lists : Lists]

LEMMA ListsAre ==
    ASSUME NEW lists, lists = [k \in Kind |-> lists[k]]
    PROVE  lists \in Lists <=> \A k \in Kind : ListOf(k, lists[k])
<1>1. ASSUME \A k \in Kind : ListOf(k, lists[k]) PROVE lists \in Lists
  <2>1. ASSUME NEW k \in Kind
        PROVE  lists[k] \in {None} \cup SUBSET UNION {Reported(j) : j \in Kind}
    <3>1. ListOf(k, lists[k])
      BY <1>1
    <3>2. Reported(k) \subseteq UNION {Reported(j) : j \in Kind}
      OBVIOUS
    <3> QED
      BY <3>1, <3>2 DEF ListOf
  <2>2. lists \in [Kind -> {None} \cup SUBSET UNION {Reported(k) : k \in Kind}]
    BY <2>1
  <2> QED
    BY <1>1, <2>2 DEF Lists, ListOf
<1> QED
  BY <1>1 DEF Lists, ListOf

LEMMA ListsAreFunctions ==
    ASSUME NEW lists \in Lists
    PROVE  lists = [k \in Kind |-> lists[k]]
BY DEF Lists

\* How records are written does not matter.
LEMMA BothWritten ==
    ASSUME NEW o, NEW name, NEW managed
    PROVE  [o EXCEPT !.managed = managed, !.kind = name] = Labelled(o, name, managed)
BY DEF Labelled

LEMMA OneWritten ==
    ASSUME NEW o, NEW name
    PROVE  [o EXCEPT !.kind = name] = Labelled(o, name, o.managed)
BY DEF Labelled

LEMMA NoneWritten ==
    ASSUME NEW ns, NEW managed, NEW status, NEW rules, NEW default, NEW c,
           c = [ns |-> ns, kind |-> "Ingress", managed |-> managed, status |-> status,
                rules |-> rules, default |-> default]
    PROVE  c = Labelled(c, "Ingress", managed)
<1> DEFINE R == [ns : {ns}, kind : {"Ingress"}, managed : {managed}, status : {status},
                 rules : {rules}, default : {default}]
<1>1. c \in R
  OBVIOUS
<1>2. Labelled(c, "Ingress", managed) \in R
  BY <1>1 DEF Labelled
<1>3. \A e \in R : e = c
  OBVIOUS
<1> QED
  BY <1>2, <1>3

LEMMA Modified ==
    ASSUME NEW k \in Kind, NEW o \in Known(k)
    PROVE  objectModifier(k, o) \in Reported(k)
<1> DEFINE name == CASE k = "pods" -> "Pod"
                     [] k = "configmaps" -> "ConfigMap"
                     [] k = "deployments" -> "Deployment"
                     [] k = "endpoints" -> "Endpoint"
                     [] k = "services" -> "Service"
                     [] k = "ingresses" -> "Ingress"
<1>1. k \in {"pods", "configmaps", "deployments", "endpoints", "services", "ingresses"}
  BY Kinds DEF Kind
<1>2. name \in KindName
  BY <1>1 DEF KindName
<1>3. objectModifier(k, o) = [o EXCEPT !.managed = FALSE, !.kind = name]
  BY DEF objectModifier
<1> HIDE DEF name
<1>4. objectModifier(k, o) = Labelled(o, name, FALSE)
  BY <1>3, BothWritten
<1>5. \A managed \in BOOLEAN : Labelled(o, name, managed) \in Reported(k)
  BY <1>2 DEF Reported
<1>6. FALSE \in BOOLEAN
  OBVIOUS
<1> QED
  BY <1>4, <1>5, <1>6, Zenon

\* CoreWatchers and FallbackWatchers.
LEMMA LoadLists ==
    ASSUME NEW k \in Kind, NEW objects, objects \subseteq Objects[k]
    PROVE  /\ k = "pods" => ListOf(k, loadPods(objects))
           /\ k \in Core => ListOf(k, loadOthers(k, objects))
           /\ k = "services" => ListOf(k, {objectModifier(k, o) : o \in objects})
           /\ k = "ingresses" =>
                ListOf(k, {objectModifier(k, o) :
                            o \in {IF ingressApi = "networking" THEN convertSpec(p)
                                   ELSE ServedAsExtension(p) : p \in objects}})
<1>1. k # "ingresses" => \A o \in objects : objectModifier(k, o) \in Reported(k)
  BY Modified DEF Known
<1>2. k \in Core => k # "ingresses"
  BY Kinds
<1>3. k = "ingresses" => \A p \in objects : objectModifier(k, convertSpec(p)) \in Reported(k)
  BY Modified DEF Known
<1>4. \A p : ServedAsExtension(p) = convertSpec(p)
  BY DEF ServedAsExtension
<1> QED
  BY <1>1, <1>2, <1>3, <1>4 DEF ListOf, loadPods, loadOthers

\* Emissary's.
LEMMA TheirLists ==
    ASSUME CachesOK
    PROVE  Theirs \in Lists /\ NoLists \in Lists /\ [Theirs EXCEPT !["services"] = None] \in Lists
<1>1. ASSUME NEW k \in Kind PROVE ListOf(k, Theirs[k])
  <2>1. CASE k \in {"services", "endpoints"}
    <3> DEFINE name == IF k = "services" THEN "Service" ELSE "Endpoints"
    <3>1. Theirs[k] = {[o EXCEPT !.kind = name] : o \in world[k]}
      BY <2>1 DEF Theirs
    <3>2. ASSUME NEW o \in world[k] PROVE [o EXCEPT !.kind = name] \in Reported(k)
      <4>1. o \in Objects[k]
        BY DEF CachesOK
      <4>2. o \in Known(k) /\ o.managed \in BOOLEAN /\ name \in KindName
        BY <2>1, <4>1, SnapshotAssumption DEF Known, KindName
      <4> HIDE DEF name
      <4>3. [o EXCEPT !.kind = name] = Labelled(o, name, o.managed)
        BY OneWritten
      <4> QED
        BY <4>2, <4>3 DEF Reported
    <3> QED
      BY <3>1, <3>2 DEF ListOf
  <2>2. CASE k = "ingresses"
    <3>1. Theirs[k] = {convertSpec(o) : o \in world[k]}
      BY <2>2 DEF Theirs, ServedAsExtension
    <3>2. ASSUME NEW o \in world[k] PROVE convertSpec(o) \in Reported(k)
      <4>1. o \in Objects[k]
        BY DEF CachesOK
      <4>2. convertSpec(o) \in Known(k) /\ o.managed \in BOOLEAN /\ "Ingress" \in KindName
        BY <2>2, <4>1, SnapshotAssumption DEF Known, KindName
      <4>3. PICK rules, default :
                convertSpec(o) = [ns |-> o.ns, kind |-> "Ingress", managed |-> o.managed,
                                  status |-> convertStatus(o), rules |-> rules, default |-> default]
        BY DEF convertSpec
      <4>4. convertSpec(o) = Labelled(convertSpec(o), "Ingress", o.managed)
        BY <4>3, NoneWritten
      <4> QED
        BY <4>2, <4>4 DEF Reported
    <3> QED
      BY <3>1, <3>2 DEF ListOf
  <2>3. CASE k \notin {"services", "endpoints", "ingresses"}
    BY <2>3 DEF Theirs, ListOf
  <2> QED
    BY <2>1, <2>2, <2>3
<1>2. Theirs = [k \in Kind |-> Theirs[k]] /\ NoLists = [k \in Kind |-> NoLists[k]]
  BY DEF Theirs, NoLists
<1>3. Theirs \in Lists
  BY <1>1, <1>2, ListsAre
<1>4. NoLists \in Lists
  <2>1. \A k \in Kind : ListOf(k, NoLists[k])
    BY DEF NoLists, ListOf
  <2> QED
    BY <1>2, <2>1, ListsAre
<1> DEFINE fewer == [Theirs EXCEPT !["services"] = None]
<1>5. fewer = [k \in Kind |-> fewer[k]] /\ \A k \in Kind : fewer[k] \in {None, Theirs[k]}
  BY <1>2
<1>6. \A k \in Kind : ListOf(k, fewer[k])
  BY <1>1, <1>5 DEF ListOf
<1> HIDE DEF fewer
<1>7. fewer \in Lists
  BY <1>5, <1>6, ListsAre
<1> QED
  BY <1>3, <1>4, <1>7 DEF fewer
----------------------------------------------------------------------------
(* The type invariant.                                                     *)

Scalars ==
    /\ apis \subseteq {"networking", "extensions"}
    /\ emissary \in [up : BOOLEAN, meta : {"identified", "unidentified", "none", "not Kubernetes"}]
    /\ changes \in 0 .. MaxChanges /\ faults \in 0 .. MaxFaults
    /\ pc \in {"down", "detect", "subscribe", "select", "source", "load"}
    /\ ingressApi \in {"networking", "extensions"} /\ offered \subseteq {"networking", "extensions"}
    /\ emissaryPresent \in BOOLEAN /\ ambCh \in BOOLEAN

Contents ==
    /\ pc = "load" => snapshot \in Snapshots
    /\ pc # "load" => snapshot = None
    /\ report \in {None} \cup Reports

\* While Emissary is there the fallback's informers do not run, nor will the snapshot
\* under construction start them.
FallbackRests ==
    emissaryPresent =>
        /\ \A k \in Fallback : cache[k] = Off
        /\ pc = "load" => \A i \in 1 .. Len(snapshot.todo) : snapshot.todo[i] \in Core

TypeInv == SnapshotInv /\ Scalars /\ Contents /\ FallbackRests

LEMMA TypeInvIsEnough == TypeInv => TypeOK
BY DEF TypeInv, TypeOK, SnapshotInv, CachesOK, Scalars, Contents, FallbackRests, Snapshots, Reports

LEMMA TypeInit == Init => TypeInv
<1> SUFFICES ASSUME Init PROVE TypeInv
  OBVIOUS
<1>1. SnapshotInv
  BY SnapshotInit
<1>2. MaxChanges \in Nat /\ MaxFaults \in Nat
  BY SnapshotAssumption
<1>3. 0 \in 0 .. MaxChanges /\ 0 \in 0 .. MaxFaults
  BY <1>2
<1>4. Scalars
  BY <1>3 DEF Init, Scalars
<1> QED
  BY <1>1, <1>4 DEF Init, TypeInv, Contents, FallbackRests

LEMMA Counts ==
    ASSUME Scalars
    PROVE  /\ Change => changes' \in 0 .. MaxChanges
           /\ Fault => faults' \in 0 .. MaxFaults
<1>1. MaxChanges \in Nat /\ MaxFaults \in Nat
  BY SnapshotAssumption
<1>2. \A n \in Nat : \A x \in 0 .. n : x < n => x + 1 \in 0 .. n
  OBVIOUS
<1> QED
  BY <1>1, <1>2 DEF Scalars, Change, Fault

LEMMA ScalarsKept == Scalars /\ [Next]_vars => Scalars'
<1> SUFFICES ASSUME Scalars, [Next]_vars PROVE Scalars'
  OBVIOUS
<1>1. CASE ObjectChanges \/ ApiChanges \/ EmissaryChanges
  BY <1>1, Counts DEF ObjectChanges, ApiChanges, EmissaryChanges, Scalars, chosen
<1>2. ASSUME NEW seen, NEW core, handleAmbassadorEndpointChange(seen, core)
      PROVE  emissaryPresent' = seen
  BY <1>2 DEF handleAmbassadorEndpointChange
<1>3. ASSUME NEW core, Detected(core)
      PROVE  emissaryPresent' \in BOOLEAN /\ faults' \in 0 .. MaxFaults
  <2>1. CASE handleAmbassadorEndpointChange(emissary.up, core) /\ UNCHANGED faults
    BY <1>2, <2>1 DEF Scalars
  <2>2. CASE handleAmbassadorEndpointChange(FALSE, core) /\ Fault
    BY <1>2, <2>2, Counts
  <2> QED
    BY <1>3, <2>1, <2>2 DEF Detected
<1>4. ASSUME Dies, faults' \in 0 .. MaxFaults PROVE Scalars'
  BY <1>4 DEF Dies, Scalars, cluster
<1>5. CASE Crash \/ ConvertPanics
  BY <1>4, <1>5, Counts DEF Crash, ConvertPanics, Scalars
<1>6. CASE NewAgent
  BY <1>6, Counts DEF NewAgent, Scalars, cluster
<1>7. CASE Detect \/ AmbassadorNotice
  BY <1>3, <1>7 DEF Detect, AmbassadorNotice, Scalars, cluster
<1>8. CASE Subscribe \/ Tick \/ Publish \/ \E k \in Kind : Deliver(k)
  BY <1>8 DEF Subscribe, Tick, Publish, Deliver, Scalars, cluster, chosen
<1>9. CASE SourceEmissary \/ SourceOwn
  <2>1. UNCHANGED <<cluster, chosen>> /\ faults' \in 0 .. MaxFaults
    BY <1>9, Counts DEF SourceEmissary, SourceOwn, Scalars
  <2>2. pc' \in {"select", "load"}
    BY <1>9 DEF SourceEmissary, SourceOwn, getAmbSnapshotInfo, getAmbSnapshotInfoFails,
                NothingToReport, Loading
  <2> QED
    BY <2>1, <2>2 DEF Scalars, cluster, chosen
<1>10. CASE LoadCore \/ LoadServices \/ LoadIngresses \/ ListFails
  <2>1. UNCHANGED <<cluster, chosen, pc>> /\ faults' \in 0 .. MaxFaults
    BY <1>10, Counts DEF LoadCore, LoadServices, LoadIngresses, ListFails, Scalars
  <2> QED
    BY <2>1 DEF Scalars, cluster, chosen
<1>11. CASE UNCHANGED vars
  BY <1>11 DEF Scalars, vars, cluster, chosen
<1> QED
  BY <1>1, <1>5, <1>6, <1>7, <1>8, <1>9, <1>10, <1>11 DEF Next, Environment, MainLoop, Load

\* The list that comes is one of its kind.
LEMMA LoadedTyped ==
    ASSUME TypeInv, ToLoad, NEW list, Loaded(list), ListOf(Coming, list)
    PROVE  snapshot' \in Snapshots
<1>1. snapshot \in Snapshots /\ snapshot.todo # <<>>
  BY DEF TypeInv, Contents, ToLoad
<1>2. snapshot.id \in Ids /\ snapshot.lists \in Lists /\ snapshot.todo \in Seq(Kind)
  BY <1>1 DEF Snapshots
<1>3. Coming \in Kind /\ Tail(snapshot.todo) \in Seq(Kind)
  BY <1>1, <1>2, HeadTailProperties DEF Coming
<1> DEFINE lists == [snapshot.lists EXCEPT ![Coming] = list]
<1>4. lists \in Lists
  <2>1. snapshot.lists = [k \in Kind |-> snapshot.lists[k]]
    BY <1>2, ListsAreFunctions
  <2>2. lists = [k \in Kind |-> lists[k]]
    BY <2>1
  <2>3. \A k \in Kind : lists[k] = IF k = Coming THEN list ELSE snapshot.lists[k]
    BY <2>1
  <2>4. \A k \in Kind : ListOf(k, snapshot.lists[k])
    BY <1>2, <2>1, ListsAre
  <2> HIDE DEF lists
  <2>5. \A k \in Kind : ListOf(k, lists[k])
    BY <2>3, <2>4
  <2> QED
    BY <2>2, <2>5, ListsAre
<1>5. snapshot' = [id |-> snapshot.id, lists |-> lists, todo |-> Tail(snapshot.todo)]
  BY <1>1 DEF Loaded, Snapshots
<1> HIDE DEF lists
<1> QED
  BY <1>2, <1>3, <1>4, <1>5 DEF Snapshots

LEMMA ContentsKept == TypeInv /\ [Next]_vars => Contents'
<1> SUFFICES ASSUME TypeInv, [Next]_vars PROVE Contents'
  OBVIOUS
<1>1. Contents /\ CachesOK
  BY DEF TypeInv, SnapshotInv
<1>2. ASSUME UNCHANGED <<snapshot, report>>, pc' = "load" <=> pc = "load" PROVE Contents'
  BY <1>1, <1>2 DEF Contents
<1>3. CASE ObjectChanges \/ ApiChanges \/ EmissaryChanges \/ \E k \in Kind : Deliver(k)
  BY <1>2, <1>3 DEF ObjectChanges, ApiChanges, EmissaryChanges, Deliver
<1>4. CASE NewAgent \/ Detect \/ Subscribe \/ Tick \/ AmbassadorNotice
  BY <1>2, <1>4 DEF NewAgent, Detect, Subscribe, Tick, AmbassadorNotice
<1>5. CASE Crash \/ ConvertPanics
  BY <1>5 DEF Crash, ConvertPanics, Dies, Contents
<1>6. ASSUME NothingToReport, pc = "source", UNCHANGED report PROVE Contents'
  BY <1>1, <1>6 DEF NothingToReport, Contents
<1>7. ASSUME NEW id \in Ids, NEW lists \in Lists, NEW order \in Seq(Kind),
             Loading(id, lists, order), UNCHANGED report
      PROVE  Contents'
  BY <1>1, <1>7 DEF Loading, Contents, Snapshots
<1>8. Theirs \in Lists /\ NoLists \in Lists /\ [Theirs EXCEPT !["services"] = None] \in Lists
  BY <1>1, TheirLists
<1>9. <<>> \in Seq(Kind) /\ CoreOrder \in Seq(Kind) /\ FallbackOrder \o CoreOrder \in Seq(Kind)
  BY Orders, EmptySeq
<1>10. CASE SourceEmissary
  <2>1. \/ NothingToReport
        \/ Loading("emissary", NoLists, <<>>)
        \/ Loading("emissary", Theirs, CoreOrder)
        \/ Loading("emissary", [Theirs EXCEPT !["services"] = None], CoreOrder)
    BY <1>10 DEF SourceEmissary, getAmbSnapshotInfo, getAmbSnapshotInfoFails
  <2>2. "emissary" \in Ids /\ pc = "source" /\ UNCHANGED report
    BY <1>10 DEF SourceEmissary, Ids
  <2> QED
    BY <1>6, <1>7, <1>8, <1>9, <2>1, <2>2
<1>11. CASE SourceOwn
  <2>1. \E id \in getClusterID \cup {"zero"} : Loading(id, NoLists, FallbackOrder \o CoreOrder)
    BY <1>11 DEF SourceOwn
  <2>2. getClusterID \cup {"zero"} \subseteq Ids /\ UNCHANGED report
    BY <1>11 DEF SourceOwn, getClusterID, Ids
  <2> QED
    BY <1>7, <1>8, <1>9, <2>1, <2>2
<1>12. ASSUME ToLoad, NEW list, Loaded(list), ListOf(Coming, list), UNCHANGED <<pc, report>>
       PROVE  Contents'
  <2>1. snapshot' \in Snapshots
    BY <1>12, LoadedTyped
  <2> QED
    BY <1>1, <1>12, <2>1 DEF ToLoad, Contents
<1>13. ASSUME ToLoad PROVE Coming \in Kind /\ Held \subseteq Objects[Coming]
  <2>1. Coming \in Kind
    BY <1>1, <1>13, HeadTailProperties DEF ToLoad, Contents, Snapshots, Coming
  <2> QED
    BY <1>1, <2>1, StartedOK DEF Held
<1>14. CASE LoadCore
  <2>1. ToLoad /\ Coming \in Core /\ UNCHANGED <<pc, report>>
    BY <1>14 DEF LoadCore
  <2>2. ListOf(Coming, IF Coming = "pods" THEN loadPods(Held) ELSE loadOthers(Coming, Held))
    BY <1>13, <2>1, LoadLists
  <2> QED
    BY <1>12, <1>14, <2>1, <2>2 DEF LoadCore
<1>15. CASE LoadServices
  <2>1. ToLoad /\ Coming = "services" /\ UNCHANGED <<pc, report>>
    BY <1>15 DEF LoadServices
  <2>2. ListOf(Coming, {objectModifier(Coming, o) : o \in Held})
    BY <1>13, <2>1, LoadLists
  <2> QED
    BY <1>12, <1>15, <2>1, <2>2 DEF LoadServices
<1>16. CASE LoadIngresses
  <2> DEFINE list == {objectModifier(Coming, o) :
                        o \in {IF ingressApi = "networking" THEN convertSpec(p)
                               ELSE ServedAsExtension(p) : p \in Held}}
  <2>1. ToLoad /\ Coming = "ingresses" /\ UNCHANGED <<pc, report>> /\ Loaded(list)
    BY <1>16 DEF LoadIngresses
  <2>2. ListOf(Coming, list)
    BY <1>13, <2>1, LoadLists
  <2> HIDE DEF list
  <2> QED
    BY <1>12, <2>1, <2>2
<1>17. CASE ListFails
  <2> DEFINE list == IF Coming = "ingresses" THEN snapshot.lists[Coming] ELSE None
  <2>1. ToLoad /\ UNCHANGED <<pc, report>> /\ Loaded(list)
    BY <1>17 DEF ListFails
  <2>2. snapshot.lists \in Lists
    BY <1>1, <2>1 DEF ToLoad, Contents, Snapshots
  <2>3. ListOf(Coming, snapshot.lists[Coming])
    BY <1>13, <2>1, <2>2, ListsAre, ListsAreFunctions
  <2>4. ListOf(Coming, list)
    BY <2>3 DEF ListOf
  <2> HIDE DEF list
  <2> QED
    BY <1>12, <2>1, <2>4
<1>18. CASE Publish
  <2>1. snapshot \in Snapshots
    BY <1>1, <1>18 DEF Publish, Contents
  <2>2. [id |-> snapshot.id, lists |-> snapshot.lists] \in Reports
    BY <2>1 DEF Snapshots, Reports
  <2> QED
    BY <1>18, <2>2 DEF Publish, Contents
<1>19. CASE UNCHANGED vars
  BY <1>2, <1>19 DEF vars
<1> QED
  BY <1>3, <1>4, <1>5, <1>10, <1>11, <1>14, <1>15, <1>16, <1>17, <1>18, <1>19
     DEF Next, Environment, MainLoop, Load

LEMMA FallbackKept == TypeInv /\ [Next]_vars => FallbackRests'
<1> SUFFICES ASSUME TypeInv, [Next]_vars, emissaryPresent'
             PROVE  /\ \A k \in Fallback : cache'[k] = Off
                    /\ pc' = "load" =>
                        \A i \in 1 .. Len(snapshot'.todo) : snapshot'.todo[i] \in Core
  BY DEF FallbackRests
<1> DEFINE Rest == \A k \in Fallback : cache'[k] = Off
           Ahead == pc' = "load" => \A i \in 1 .. Len(snapshot'.todo) : snapshot'.todo[i] \in Core
<1>0. /\ emissaryPresent => \A k \in Fallback : cache[k] = Off
      /\ emissaryPresent /\ pc = "load" =>
            \A i \in 1 .. Len(snapshot.todo) : snapshot.todo[i] \in Core
      /\ CachesOK
  BY DEF TypeInv, FallbackRests, SnapshotInv
<1>1. cache = [k \in Kind |-> cache[k]] /\ Core \subseteq Kind /\ Fallback \subseteq Kind
      /\ \A k \in Fallback : k \notin Core
  BY <1>0, Kinds DEF CachesOK
<1>2. CASE UNCHANGED <<emissaryPresent, cache>> /\ (pc' = "load" => pc = "load" /\ UNCHANGED snapshot)
  BY <1>0, <1>2
<1>3. CASE ObjectChanges \/ ApiChanges \/ EmissaryChanges \/ Subscribe \/ Tick \/ Publish
  BY <1>2, <1>3 DEF ObjectChanges, ApiChanges, EmissaryChanges, Subscribe, Tick, Publish, chosen
<1>4. CASE Crash \/ ConvertPanics
  BY <1>4 DEF Crash, ConvertPanics, Dies
<1>5. ASSUME NEW k \in Kind, Deliver(k) PROVE Rest /\ Ahead
  <2>1. UNCHANGED <<emissaryPresent, pc, snapshot>> /\ cache[k].on
        /\ cache' = [cache EXCEPT ![k].has = Visible(k)]
    BY <1>5 DEF Deliver, chosen
  <2>2. k \notin Fallback
    BY <1>0, <2>1 DEF Off
  <2> QED
    BY <1>0, <1>1, <2>1, <2>2
<1>6. CASE NewAgent
  BY <1>2, <1>6 DEF NewAgent
<1>7. ASSUME NEW core, Detected(core) PROVE Rest
  <2>1. handleAmbassadorEndpointChange(TRUE, core)
    <3>1. PICK seen \in {emissary.up, FALSE} : handleAmbassadorEndpointChange(seen, core)
      BY <1>7 DEF Detected
    <3>2. emissary.up \in BOOLEAN
      BY DEF TypeInv, Scalars
    <3>3. emissaryPresent' = seen
      BY <3>1 DEF handleAmbassadorEndpointChange
    <3>4. seen = TRUE
      BY <3>2, <3>3
    <3> QED
      BY <3>1, <3>4
  <2>2. \A k \in Fallback : cache'[k] = FallbackCancelled[k]
    BY <1>1, <2>1 DEF handleAmbassadorEndpointChange
  <2> QED
    BY <2>2 DEF FallbackCancelled
<1>8. CASE Detect \/ AmbassadorNotice
  <2>1. Rest
    BY <1>7, <1>8 DEF Detect, AmbassadorNotice
  <2>2. pc' # "load"
    BY <1>8 DEF Detect, AmbassadorNotice
  <2> QED
    BY <2>1, <2>2
<1>9. CASE SourceEmissary \/ SourceOwn
  <2>1. UNCHANGED <<emissaryPresent, cache>>
    BY <1>9 DEF SourceEmissary, SourceOwn, chosen
  <2>2. \/ NothingToReport
        \/ Loading("emissary", NoLists, <<>>)
        \/ Loading("emissary", Theirs, CoreOrder)
        \/ Loading("emissary", [Theirs EXCEPT !["services"] = None], CoreOrder)
    BY <1>9, <2>1 DEF SourceEmissary, SourceOwn, getAmbSnapshotInfo, getAmbSnapshotInfoFails
  <2>3. \A i \in 1 .. Len(CoreOrder) : CoreOrder[i] \in Core
    BY DEF CoreOrder, Core
  <2>4. pc' = "load" => snapshot'.todo \in {<<>>, CoreOrder}
    BY <2>2 DEF NothingToReport, Loading
  <2>5. Len(<<>>) = 0
    OBVIOUS
  <2> QED
    BY <1>0, <2>1, <2>3, <2>4, <2>5
<1>10. ASSUME ToLoad, NEW list, Loaded(list), UNCHANGED <<pc, emissaryPresent>>
       PROVE  Ahead /\ Coming \in Core
  <2>1. /\ snapshot.todo \in Seq(Kind) /\ snapshot.todo # <<>> /\ pc = "load"
        /\ snapshot = [id |-> snapshot.id, lists |-> snapshot.lists, todo |-> snapshot.todo]
    BY <1>10 DEF ToLoad, TypeInv, SnapshotInv, Filling
  <2>2. snapshot'.todo = Tail(snapshot.todo)
    BY <1>10, <2>1 DEF Loaded
  <2>3. /\ Head(snapshot.todo) = snapshot.todo[1] /\ Len(snapshot.todo) \in Nat
        /\ Len(Tail(snapshot.todo)) = Len(snapshot.todo) - 1
        /\ \A i \in 1 .. Len(Tail(snapshot.todo)) : Tail(snapshot.todo)[i] = snapshot.todo[i + 1]
        /\ Len(snapshot.todo) >= 1
    BY <2>1, HeadTailProperties, LenProperties, EmptySeq
  <2>4. \A i \in 1 .. Len(snapshot.todo) : snapshot.todo[i] \in Core
    BY <1>0, <1>10, <2>1
  <2>5. \A i \in 1 .. Len(snapshot.todo) - 1 : i + 1 \in 1 .. Len(snapshot.todo)
    BY <2>3
  <2> QED
    BY <2>2, <2>3, <2>4, <2>5 DEF Coming
<1>11. CASE LoadCore \/ LoadServices \/ LoadIngresses
  <2>1. /\ ToLoad /\ UNCHANGED <<pc, emissaryPresent>>
        /\ cache' = [cache EXCEPT ![Coming] = Started(Coming)]
    BY <1>11 DEF LoadCore, LoadServices, LoadIngresses, chosen
  <2>2. \E list : Loaded(list)
    BY <1>11 DEF LoadCore, LoadServices, LoadIngresses
  <2>3. Ahead /\ Coming \in Core
    BY <1>10, <2>1, <2>2
  <2>4. Rest
    BY <1>0, <1>1, <2>1, <2>3
  <2> QED
    BY <2>3, <2>4
<1>12. CASE ListFails
  <2>1. ToLoad /\ UNCHANGED <<pc, emissaryPresent, cache>>
    BY <1>12 DEF ListFails, chosen
  <2>2. \E list : Loaded(list)
    BY <1>12 DEF ListFails
  <2> QED
    BY <1>0, <1>10, <2>1, <2>2
<1>13. CASE UNCHANGED vars
  BY <1>2, <1>13 DEF vars, chosen
<1> QED
  BY <1>3, <1>4, <1>5, <1>6, <1>8, <1>9, <1>11, <1>12, <1>13
     DEF Next, Environment, MainLoop, Load

\* Whatever objects there are and whatever fails, lists hold objects of their kind in the
\* form they are reported in, a snapshot is under construction only while one is filled,
\* and the fallback's informers run only without Emissary (agent.go:511-547, 594-611,
\* 683-737).
THEOREM SnapshotTypeCorrect == SafetySpec => []TypeOK
<1>1. TypeInv /\ [Next]_vars => TypeInv'
  BY SnapshotKept, ScalarsKept, ContentsKept, FallbackKept DEF TypeInv
<1>2. SafetySpec => []TypeInv
  BY <1>1, TypeInit, PTL DEF SafetySpec
<1> QED
  BY <1>2, TypeInvIsEnough, PTL
=============================================================================
