----------------------------- MODULE MCAPIDocs -----------------------------
(* Values of APIDocs' constants for TLC: two mappings, whose services have *)
(* the same name in two namespaces, and two shapes of each one's spec.     *)
EXTENDS APIDocs, TLC

CONSTANTS m1, m2, s1, s2

MCNamespace == (m1 :> "default") @@ (m2 :> "other")

Path == [docs |-> "path", service |-> "svc", qualified |-> FALSE, hostname |-> "*",
         host |-> "example", port |-> FALSE, prefix |-> <<"api", "v1">>,
         headers |-> {":authority", "x-version"}]
URL == [Path EXCEPT !.docs = "url", !.service = "site"]
Ported == [Path EXCEPT !.hostname = "secure", !.port = TRUE]
Ignored == [Path EXCEPT !.docs = "ignored"]

MCSpecs == (m1 :> {Path, URL}) @@ (m2 :> {Ported, Ignored})

MCSegment == {"api", "v1", "example", "secure"}
MCBackends == {<<"svc", "default">>, <<"svc", "other">>, <<"site">>}
MCDocuments == {<<"v1">>}
=============================================================================
