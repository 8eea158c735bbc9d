------------------------------ MODULE Snapshot ------------------------------
(***************************************************************************)
(* How a snapshot comes about (watch and ProcessSnapshot in src/pkg/agent/ *)
(* agent.go, the watchers in src/pkg/agent/watchers/): Emissary's own one  *)
(* where Emissary is installed, an empty one otherwise, filled list by     *)
(* list from caches which follow the cluster on their own.  Rollouts and   *)
(* applications are in ArgoWatch, API documents in APIDocs, and what       *)
(* becomes of the report in Agent.                                         *)
(***************************************************************************)
EXTENDS Integers, Sequences, SequencesExt

CONSTANTS
    None,               \* nil
    Objects,            \* the objects of each kind that may exist
    NAMESPACES_TO_WATCH, \* of the environment: names, spaces and tabs
    EnvClusterID,       \* AMBASSADOR_CLUSTER_ID, or None
    InitialWorlds,      \* clusters to begin with
    MaxChanges,         \* bound: changes of the cluster
    MaxFaults           \* bound: failed calls and crashes

CoreOrder == <<"pods", "configmaps", "deployments", "endpoints">>
FallbackOrder == <<"services", "ingresses">>

Core == {CoreOrder[i] : i \in 1 .. 4}
Fallback == {FallbackOrder[i] : i \in 1 .. 2}
Kind == Core \cup Fallback

ASSUME SnapshotAssumption ==
    /\ {MaxChanges, MaxFaults} \subseteq Nat
    /\ None \notin {"Pod", "ConfigMap", "Deployment", "Endpoint"}
    /\ \A k \in Kind : \A o \in Objects[k] :
        /\ {"ns", "kind", "managed"} \cup (IF k = "pods" THEN {"phase"} ELSE {}) \subseteq DOMAIN o
        /\ o.managed \in BOOLEAN
    /\ \A w \in InitialWorlds :
        w = [k \in Kind |-> w[k]] /\ \A k \in Kind : w[k] \subseteq Objects[k]

VARIABLES
    world,              \* the cluster's objects of each kind
    apis,               \* the APIs that serve ingresses
    emissary,           \* is it up, and does its snapshot say whose it is?
    changes,            \* changes of these three so far
    faults,             \* failed calls and crashes so far
    pc,                 \* where the main goroutine is
    ingressApi,         \* the API NewAgent chose
    offered,            \* those there were when it chose
    emissaryPresent,    \* the field of this name
    ambCh,              \* a notice waits in the channel of this name
    cache,              \* of each kind: does it run, and what does it hold?
    snapshot,           \* the one under construction: lists, and kinds to load
    report              \* the last report made

cluster == <<world, apis, emissary, changes>>
chosen == <<ingressApi, offered, emissaryPresent, ambCh>>
vars == <<cluster, faults, pc, chosen, cache, snapshot, report>>
----------------------------------------------------------------------------
(* What of the cluster belongs into a report.                              *)

\* The parser splits the variable at every space, and trims the rest.
splitTrim(str) ==
    LET split == FoldLeft(LAMBDA ss, c : IF c = " " THEN Append(ss, <<>>)
                                        ELSE [ss EXCEPT ![Len(ss)] = Append(@, c)],
                          <<<<>>>>, str)
        trimmed(s) == SelectSeq(s, LAMBDA c : c # "\t")
    IN  IF str = <<>> THEN <<>>
        ELSE [i \in DOMAIN split |-> IF trimmed(split[i]) = <<>> THEN ""
                                     ELSE trimmed(split[i])[1]]

\* The namespace "" is the whole cluster.
Watched ==
    IF splitTrim(NAMESPACES_TO_WATCH) = <<>> THEN {""}
    ELSE Range(splitTrim(NAMESPACES_TO_WATCH))

allowedNamespace(ns) == ns # "kube-system"

\* An informer's objects do not say what they are; what writes them is left out.
objectModifier(k, o) ==
    [o EXCEPT !.managed = FALSE,
              !.kind = CASE k = "pods" -> "Pod"
                         [] k = "configmaps" -> "ConfigMap"
                         [] k = "deployments" -> "Deployment"
                         [] k = "endpoints" -> "Endpoint"
                         [] k = "services" -> "Service"
                         [] k = "ingresses" -> "Ingress"]

\* What an informer of the kind holds when it is up to date.
Visible(k) == {o \in world[k] : {"", o.ns} \cap Watched # {}}

loadPods(pods) ==
    {objectModifier("pods", o) :
        o \in {p \in pods : allowedNamespace(p.ns) /\ p.phase # "Succeeded"}}

\* loadCmaps, loadDeploys, loadEndpoints.
loadOthers(k, objects) ==
    {objectModifier(k, o) : o \in {p \in objects : allowedNamespace(p.ns)}}

\* A port with a name is known by it. (Without a service the process dies.)
convertIngressBackend(b) ==
    [serviceName |-> b.service,
     servicePort |-> IF b.portName # None THEN b.portName ELSE b.portNumber,
     resource |-> b.resource]

\* Where a load balancer is, and what is wrong with its ports.
convertStatus(o) ==
    [i \in DOMAIN o.status |->
        [ip |-> o.status[i].ip, hostname |-> o.status[i].hostname,
         ports |-> [j \in DOMAIN o.status[i].ports |->
                       [port |-> o.status[i].ports[j].port,
                        error |-> o.status[i].ports[j].error,
                        protocol |-> o.status[i].ports[j].protocol]]]]

Paths(rule) == IF rule.paths = None THEN <<>> ELSE rule.paths

convertSpec(o) ==
    [ns |-> o.ns, kind |-> "Ingress", managed |-> o.managed, status |-> convertStatus(o),
     rules |->
        [i \in DOMAIN o.rules |->
            [host |-> o.rules[i].host,
             paths |-> [j \in DOMAIN Paths(o.rules[i]) |->
                [path |-> o.rules[i].paths[j].path,
                 backend |-> convertIngressBackend(o.rules[i].paths[j].backend)]]]],
     default |-> IF o.default = None THEN None ELSE convertIngressBackend(o.default)]

\* convertSpec dereferences rule.HTTP and backend.Service.
Panics(o) ==
    \/ o.default # None /\ o.default.service = None
    \/ \E i \in DOMAIN o.rules :
        \/ o.rules[i].paths = None
        \/ \E j \in DOMAIN Paths(o.rules[i]) : o.rules[i].paths[j].backend.service = None

\* The older API's form of an ingress, as the API server itself converts it.
ServedAsExtension(o) == convertSpec(o)
----------------------------------------------------------------------------
Off == [on |-> FALSE, has |-> {}]

NoLists == [k \in Kind |-> None]

Init ==
    /\ world \in InitialWorlds
    /\ apis \in {{"networking"}, {"extensions"}, {"networking", "extensions"}}
    /\ emissary \in [up : BOOLEAN, meta : {"identified"}]
    /\ changes = 0
    /\ faults = 0
    /\ pc = "down"
    /\ ingressApi = "networking"
    /\ offered = {}
    /\ emissaryPresent = FALSE
    /\ ambCh = FALSE
    /\ cache = [k \in Kind |-> Off]
    /\ snapshot = None
    /\ report = None

Change == changes < MaxChanges /\ changes' = changes + 1

Fault == faults < MaxFaults /\ faults' = faults + 1

\* The cluster changes.
ObjectChanges ==
    /\ Change
    /\ \E k \in Kind : \E o \in Objects[k] :
        world' = [world EXCEPT ![k] = IF o \in @ THEN @ \ {o} ELSE @ \cup {o}]
    /\ UNCHANGED <<apis, emissary, faults, pc, chosen, cache, snapshot, report>>

ApiChanges ==
    /\ Change
    /\ apis' \in {{"networking"}, {"networking", "extensions"}}
    /\ UNCHANGED <<world, emissary, faults, pc, chosen, cache, snapshot, report>>

\* Its endpoint comes or goes, or its snapshot changes: without metadata, without a
\* cluster ID, without the part about Kubernetes.
EmissaryChanges ==
    /\ Change
    /\ emissary' \in [up : BOOLEAN,
                      meta : {"identified", "unidentified", "none", "not Kubernetes"}]
    /\ ambCh' = (ambCh \/ (emissary'.up # emissary.up /\ pc \notin {"down", "detect", "subscribe"}))
    /\ UNCHANGED <<world, apis, faults, pc, ingressApi, offered, emissaryPresent, cache, snapshot, report>>

Served(k) == k = "ingresses" => ingressApi \in apis

\* An informer catches up, unless the API it watches is no longer there.
Deliver(k) ==
    /\ cache[k].on
    /\ Served(k)
    /\ cache[k].has # Visible(k)
    /\ cache' = [cache EXCEPT ![k].has = Visible(k)]
    /\ UNCHANGED <<cluster, faults, pc, chosen, snapshot, report>>
----------------------------------------------------------------------------
(* The process: main, NewAgent, Watch.                                     *)

\* getIngressWatcher. Only NotFound speaks against the newer API.
NewAgent ==
    /\ pc = "down"
    /\ \/ /\ ingressApi' = IF "networking" \in apis THEN "networking" ELSE "extensions"
          /\ UNCHANGED faults
       \/ /\ Fault
          /\ ingressApi' = "networking"
    /\ offered' = apis
    /\ pc' = "detect"
    /\ UNCHANGED <<cluster, emissaryPresent, ambCh, cache, snapshot, report>>

\* EnsureStarted, once the informer has its first list.
Started(k) == IF cache[k].on \/ ~Served(k) THEN cache[k] ELSE [on |-> TRUE, has |-> Visible(k)]

\* The fallback's own, and what ends them.
FallbackStarted == [k \in Fallback |-> Started(k)]

FallbackCancelled == [k \in Fallback |-> Off]

\* Faulty: the fallback's informers run on.
HandleKeeps(seen, core) ==
    /\ emissaryPresent' = seen
    /\ cache' = [k \in Kind |-> IF k \in Core THEN core[k]
                                ELSE IF seen THEN cache[k] ELSE FallbackStarted[k]]

\* handleAmbassadorEndpointChange, for what the list of endpoints says.
handleAmbassadorEndpointChange(seen, core) ==
    /\ emissaryPresent' = seen
    /\ cache' = [k \in Kind |-> IF k \in Core THEN core[k]
                                ELSE IF seen THEN FallbackCancelled[k] ELSE FallbackStarted[k]]

\* A failing list of endpoints counts as an empty one.
Detected(core) ==
    \/ handleAmbassadorEndpointChange(emissary.up, core) /\ UNCHANGED faults
    \/ handleAmbassadorEndpointChange(FALSE, core) /\ Fault

\* After EnsureStarted of the core watchers.
Detect ==
    /\ pc = "detect"
    /\ Detected([k \in Core |-> Started(k)])
    /\ pc' = "subscribe"
    /\ UNCHANGED <<cluster, ingressApi, offered, ambCh, snapshot, report>>

Subscribe ==
    /\ pc = "subscribe"
    /\ pc' = "select"
    /\ UNCHANGED <<cluster, faults, chosen, cache, snapshot, report>>

Tick ==
    /\ pc = "select"
    /\ pc' = "source"
    /\ UNCHANGED <<cluster, faults, chosen, cache, snapshot, report>>

AmbassadorNotice ==
    /\ pc = "select"
    /\ ambCh
    /\ ambCh' = FALSE
    /\ Detected(cache)
    /\ pc' = "source"
    /\ UNCHANGED <<cluster, ingressApi, offered, snapshot, report>>

Dies ==
    /\ pc' = "down"
    /\ emissaryPresent' = FALSE
    /\ ambCh' = FALSE
    /\ cache' = [k \in Kind |-> Off]
    /\ snapshot' = None
    /\ report' = None
    /\ UNCHANGED <<cluster, ingressApi, offered>>

Crash ==
    /\ pc # "down"
    /\ Fault
    /\ Dies
----------------------------------------------------------------------------
(* A round of the loop, when nothing is being sent.                        *)

\* What Emissary reports is all it sees, of three of the kinds.
Theirs ==
    [k \in Kind |-> CASE k = "services" -> {[o EXCEPT !.kind = "Service"] : o \in world[k]}
                      [] k = "endpoints" -> {[o EXCEPT !.kind = "Endpoints"] : o \in world[k]}
                      [] k = "ingresses" -> {ServedAsExtension(o) : o \in world[k]}
                      [] OTHER -> None]

Loading(id, lists, order) ==
    /\ snapshot' = [id |-> id, lists |-> lists, todo |-> order]
    /\ pc' = "load"

NothingToReport == pc' = "select" /\ UNCHANGED snapshot

\* Faulty: what Emissary sent is taken for complete.
getAmbSnapshotInfoKeeps ==
    IF ~emissary.up \/ emissary.meta \in {"none", "unidentified"} THEN NothingToReport
    ELSE IF emissary.meta = "not Kubernetes" THEN Loading("emissary", NoLists, <<>>)
    ELSE Loading("emissary", Theirs, <<>>)

\* GetIdentity, and whether there is a part to be filled.
getAmbSnapshotInfo ==
    IF ~emissary.up \/ emissary.meta \in {"none", "unidentified"} THEN NothingToReport
    ELSE IF emissary.meta = "not Kubernetes" THEN Loading("emissary", NoLists, <<>>)
    ELSE Loading("emissary", Theirs, CoreOrder)

\* A request fails; or the answer is not all of the expected type, which is logged,
\* and what could be read is reported.
getAmbSnapshotInfoFails ==
    \/ NothingToReport
    \/ Loading("emissary", [Theirs EXCEPT !["services"] = None], CoreOrder)

SourceEmissary ==
    /\ pc = "source"
    /\ emissaryPresent
    /\ \/ getAmbSnapshotInfo /\ UNCHANGED faults
       \/ getAmbSnapshotInfoFails /\ Fault
    /\ UNCHANGED <<cluster, chosen, cache, report>>

\* A namespace that cannot be read gives the ID of the root of zeros.
getClusterID ==
    IF EnvClusterID # None THEN {EnvClusterID} ELSE {"namespace"}

SourceOwn ==
    /\ pc = "source"
    /\ ~emissaryPresent
    /\ \/ /\ \E id \in getClusterID : Loading(id, NoLists, FallbackOrder \o CoreOrder)
          /\ UNCHANGED faults
       \/ /\ EnvClusterID = None /\ Fault
          /\ Loading("zero", NoLists, FallbackOrder \o CoreOrder)
    /\ UNCHANGED <<cluster, chosen, cache, report>>

Coming == Head(snapshot.todo)

Loaded(list) ==
    snapshot' = [snapshot EXCEPT !.lists[Coming] = list, !.todo = Tail(@)]

ToLoad == pc = "load" /\ snapshot.todo # <<>>

\* The informer's objects, which it is started for if need be.
Held == Started(Coming).has

\* CoreWatchers.LoadSnapshot, one list.
LoadCore ==
    /\ ToLoad
    /\ Coming \in Core
    /\ Loaded(IF Coming = "pods" THEN loadPods(Held) ELSE loadOthers(Coming, Held))
    /\ cache' = [cache EXCEPT ![Coming] = Started(Coming)]
    /\ UNCHANGED <<cluster, faults, pc, chosen, report>>

LoadServices ==
    /\ ToLoad
    /\ Coming = "services"
    /\ Loaded({objectModifier(Coming, o) : o \in Held})
    /\ cache' = [cache EXCEPT ![Coming] = Started(Coming)]
    /\ UNCHANGED <<cluster, faults, pc, chosen, report>>

Dying == ingressApi = "networking" /\ \E o \in Held : Panics(o)

LoadIngresses ==
    /\ ToLoad
    /\ Coming = "ingresses"
    /\ cache[Coming].on \/ Served(Coming)
    /\ ~Dying
    /\ Loaded({objectModifier(Coming, o) :
                o \in {IF ingressApi = "networking" THEN convertSpec(p)
                       ELSE ServedAsExtension(p) : p \in Held}})
    /\ cache' = [cache EXCEPT ![Coming] = Started(Coming)]
    /\ UNCHANGED <<cluster, faults, pc, chosen, report>>

ConvertPanics ==
    /\ ToLoad
    /\ Coming = "ingresses"
    /\ cache[Coming].on \/ Served(Coming)
    /\ Dying
    /\ Dies
    /\ UNCHANGED faults

\* Faulty: what is there stays when a list fails.
ListFailsKeeps ==
    /\ ToLoad
    /\ IF cache[Coming].on \/ Served(Coming) THEN Fault ELSE UNCHANGED faults
    /\ snapshot' = [snapshot EXCEPT !.todo = Tail(@)]
    /\ UNCHANGED <<cluster, pc, chosen, cache, report>>

\* A failed list is logged, and none is reported, not even Emissary's; one of
\* ingresses leaves them alone.
ListFails ==
    /\ ToLoad
    /\ IF cache[Coming].on \/ Served(Coming) THEN Fault ELSE UNCHANGED faults
    /\ Loaded(IF Coming = "ingresses" THEN snapshot.lists[Coming] ELSE None)
    /\ UNCHANGED <<cluster, pc, chosen, cache, report>>

\* The rest of ProcessSnapshot, and of the round.
Publish ==
    /\ pc = "load"
    /\ snapshot.todo = <<>>
    /\ report' = [id |-> snapshot.id, lists |-> snapshot.lists]
    /\ snapshot' = None
    /\ pc' = "select"
    /\ UNCHANGED <<cluster, faults, chosen, cache>>
----------------------------------------------------------------------------
Environment == ObjectChanges \/ ApiChanges \/ EmissaryChanges \/ Crash

Load == LoadCore \/ LoadServices \/ LoadIngresses \/ ConvertPanics \/ ListFails

MainLoop ==
    \/ NewAgent \/ Detect \/ Subscribe
    \/ Tick \/ AmbassadorNotice
    \/ SourceEmissary \/ SourceOwn
    \/ Load \/ Publish

Next ==
    \/ Environment
    \/ \E k \in Kind : Deliver(k)
    \/ MainLoop

\* The loop runs, a ready case of its select is chosen in the end, informers catch up.
Fairness ==
    /\ WF_vars(MainLoop)
    /\ SF_vars(AmbassadorNotice)
    /\ \A k \in Kind : WF_vars(Deliver(k))

SafetySpec == Init /\ [][Next]_vars
Spec == SafetySpec /\ Fairness
----------------------------------------------------------------------------
(* Properties.                                                             *)

\* An object of a report, as the cluster knows it.
Bare(o) == [o EXCEPT !.kind = None, !.managed = TRUE]

\* What can be listed of a kind: its objects, ingresses in the older API's form,
\* under some name of a kind, and with what wrote them or without.
KindName == {"Pod", "ConfigMap", "Deployment", "Endpoint", "Endpoints", "Service", "Ingress"}

Known(k) == IF k = "ingresses" THEN {convertSpec(o) : o \in Objects[k]} ELSE Objects[k]

Labelled(o, name, managed) == [o EXCEPT !.kind = name, !.managed = managed]

Reported(k) ==
    {Labelled(o, name, managed) : o \in Known(k), name \in KindName, managed \in BOOLEAN}

Lists ==
    {lists \in [Kind -> {None} \cup SUBSET UNION {Reported(k) : k \in Kind}] :
        \A k \in Kind : lists[k] = None \/ lists[k] \subseteq Reported(k)}

Ids == {"emissary", "namespace", "zero", EnvClusterID}

\* Lists hold objects of their kind, ingresses in the older API's form; informers
\* of the fallback run only without Emissary; there is a snapshot under
\* construction only while one is filled (agent.go:511-547, 594-611, 683-737).
TypeOK ==
    /\ \A k \in Kind : world[k] \subseteq Objects[k] /\ cache[k].has \subseteq Objects[k]
    /\ apis \subseteq {"networking", "extensions"}
    /\ emissary \in [up : BOOLEAN, meta : {"identified", "unidentified", "none", "not Kubernetes"}]
    /\ changes \in 0 .. MaxChanges /\ faults \in 0 .. MaxFaults
    /\ pc \in {"down", "detect", "subscribe", "select", "source", "load"}
    /\ ingressApi \in {"networking", "extensions"} /\ offered \subseteq {"networking", "extensions"}
    /\ emissaryPresent \in BOOLEAN /\ ambCh \in BOOLEAN
    /\ IF pc = "load" THEN snapshot \in [id : Ids, lists : Lists, todo : Seq(Kind)]
       ELSE snapshot = None
    /\ report \in {None} \cup [id : Ids, lists : Lists]
    /\ emissaryPresent => \A k \in Fallback : cache[k] = Off

\* Whatever source a report has and whatever failed, its pods, config maps, deployments
\* and endpoints are not of the cluster's own namespace, and its pods not over; they say
\* what they are, and not who wrote which of their fields (core_watchers.go:69-72,
\* 89-92, 109-112, 129-132: "allowedNamespace will check if resources from the given
\* namespace should be reported", 140-141; agent.go:805-850).
NothingUnwanted ==
    report # None =>
        \A k \in Core :
            report.lists[k] = None
                \/ \A o \in report.lists[k] :
                        /\ o.ns # "kube-system" /\ (k = "pods" => o.phase # "Succeeded")
                        /\ o.kind # None /\ ~o.managed

\* Where an ingress leads, in either form.
Target(b) ==
    IF b.service = None THEN <<b.resource>>
    ELSE <<b.service, IF b.portName = None THEN b.portNumber ELSE b.portName>>

Routes(o) ==
    UNION {{<<o.rules[i].host, p.path, Target(p.backend)>> : p \in Range(Paths(o.rules[i]))}
            : i \in DOMAIN o.rules}
    \cup (IF o.default = None THEN {} ELSE {<<Target(o.default)>>})

ReportedTarget(b) ==
    IF b.serviceName = None THEN <<b.resource>> ELSE <<b.serviceName, b.servicePort>>

ReportedRoutes(o) ==
    UNION {{<<o.rules[i].host, p.path, ReportedTarget(p.backend)>> : p \in Range(o.rules[i].paths)}
            : i \in DOMAIN o.rules}
    \cup (IF o.default = None THEN {} ELSE {<<ReportedTarget(o.default)>>})

\* The loop knows whether Emissary is there (what that takes is Agent's matter);
\* the snapshot then says whose it is. Otherwise the API of ingresses was
\* the newer one already, or did not change, and no ingress ends the process.
Steady ==
    /\ emissaryPresent = emissary.up
    /\ emissary.up => emissary.meta = "identified"
    /\ ~emissary.up =>
        /\ Served("ingresses") \/ "networking" \in offered
        /\ ingressApi = "networking" => \A o \in Visible("ingresses") : ~Panics(o)

\* Services and ingresses of kube-system are left out of the comparison: the code
\* reports them, its comments say that it does not.
Compared(objects) == {o \in objects : o.ns # "kube-system"}

Current ==
    /\ report # None
    /\ report.id = IF emissary.up THEN "emissary"
                   ELSE IF EnvClusterID = None THEN "namespace" ELSE EnvClusterID
    /\ \A k \in Kind : report.lists[k] # None
    /\ LET there(k) == Compared(IF emissary.up THEN world[k] ELSE Visible(k))
       IN  /\ {Bare(o) : o \in Compared(report.lists["services"])} = there("services")
           /\ {<<ReportedRoutes(o), o.status>> : o \in Compared(report.lists["ingresses"])}
                    = {<<Routes(o), o.status>> : o \in there("ingresses")}
    /\ \A k \in Core :
        {Bare(o) : o \in report.lists[k]}
            = {o \in Compared(Visible(k)) : k = "pods" => o.phase # "Succeeded"}

\* In the end the reports are those of the cluster as it is, under its own identity,
\* wherever they come from, through failed calls, crashes and changes of the source, and an
\* ingress leads where it did; nothing is said of services and ingresses of kube-system, which
\* core_watchers.go:140-141 and env.go:40-41 leave out and the code does not
\* (agent.go:511-547, 594-611, 683-737, ingress_watcher.go:63-142).
ReportFollows == <>[]Steady => <>[]Current
=============================================================================
