----------------------------- MODULE MCSnapshot -----------------------------
(* Values of Snapshot's constants for TLC: objects in the watched, the     *)
(* cluster's own and another namespace, and ingresses with each kind of    *)
(* backend.  There are no config maps: they are loaded as deployments are. *)
EXTENDS Snapshot

In(ns) == [ns |-> ns, kind |-> None, managed |-> TRUE]
Pod(ns, phase) == [ns |-> ns, phase |-> phase, kind |-> None, managed |-> TRUE]

Named == [service |-> "web", portName |-> "http", portNumber |-> None, resource |-> None]
Numbered == [Named EXCEPT !.portName = None, !.portNumber = "80"]
Bucket == [service |-> None, portName |-> None, portNumber |-> None, resource |-> "bucket"]

Balanced == <<[ip |-> "10.0.0.1", hostname |-> None,
               ports |-> <<[port |-> 80, error |-> None, protocol |-> "TCP"]>>]>>

Routed == [ns |-> "default", kind |-> None, managed |-> TRUE, default |-> Named, status |-> Balanced,
           rules |-> <<[host |-> "one", paths |-> <<[path |-> "/", backend |-> Named],
                                                     [path |-> "/n", backend |-> Numbered]>>],
                       [host |-> "two", paths |-> <<[path |-> "/", backend |-> Numbered]>>]>>]
System == [ns |-> "kube-system", kind |-> None, managed |-> TRUE, default |-> Named, status |-> <<>>,
            rules |-> <<>>]
HostOnly == [ns |-> "default", kind |-> None, managed |-> TRUE, default |-> Named,
             status |-> <<>>, rules |-> <<[host |-> "one", paths |-> None]>>]
Resource == [ns |-> "default", kind |-> None, managed |-> TRUE, default |-> Bucket, status |-> <<>>,
             rules |-> <<>>]

MCObjects ==
    [k \in Kind |->
        CASE k = "pods" -> {Pod("default", "Running"), Pod("default", "Succeeded")}
          [] k = "configmaps" -> {}
          [] k = "deployments" -> {In("default")}
          [] k = "endpoints" -> {In("kube-system")}
          [] k = "services" -> {In("default"), In("other")}
          [] k = "ingresses" -> {Routed, System, HostOnly, Resource}]

Full == [MCObjects EXCEPT !["ingresses"] = {Routed, System}]

TwoNamespaces == <<"default", " ", "kube-system", "\t">>
MCInitialWorlds == {Full}
=============================================================================
