------------------------------ MODULE APIDocs ------------------------------
(***************************************************************************)
(* The API documents of mappings (APIDocsStore in src/pkg/agent/           *)
(* api_docs.go).  The main loop hands every snapshot to ProcessSnapshot,   *)
(* which starts a scrape at most once a minute: in the loop itself while   *)
(* nothing is stored, in a goroutine of its own otherwise.  A scrape       *)
(* fetches the mappings' documents one by one and then drops what the      *)
(* shared docsDiff no longer knows.  A path is a sequence of segments, and *)
(* a host is the first of them, as url.Parse sees a bare host name.        *)
(***************************************************************************)
EXTENDS Integers, Sequences, FiniteSets

CONSTANTS
    None,           \* nil
    Mapping,        \* UIDs of mappings
    Namespace,      \* the namespace of each mapping
    Specs,          \* what the spec of each mapping may say
    Segment,        \* the segments of paths, and the names of hosts
    Backends,       \* the services that may be asked for a document
    Documents,      \* documents: only the path of the server URL matters
    NoServers,      \* a document with an empty list of servers
    Scrape,         \* bound: scrapes at the same time
    MaxChanges      \* bound: changes of mappings and documents

VARIABLES
    mapping,        \* the cluster's mappings: a spec, or None
    serves,         \* what each backend answers: a document, or None
    changes,        \* changes of these two so far
    throttled,      \* the time is before DontProcessSnapshotBeforeTime
    loop,           \* "idle", or the scrape the loop runs itself
    previous,       \* docsDiff.previous: references of the former round
    current,        \* docsDiff.current: those of the round that is going on
    store,          \* inMemoryStore.entries
    scrape,         \* the scrapes
    overlapped      \* have two scrapes ever run at the same time?

cluster == <<mapping, serves, changes>>
docsDiff == <<previous, current>>
vars == <<cluster, throttled, loop, docsDiff, store, scrape, overlapped>>
----------------------------------------------------------------------------
(* What is asked for a mapping, and what is published of the answer.       *)

\* Hostname is more restrictive than the deprecated Host, unless it is none.
PublicHost(spec) == IF spec.hostname \in {None, "*"} THEN spec.host ELSE spec.hostname

\* getProcessableMappingsFromSnapshot, for one mapping.
Processable(spec) == spec # None /\ spec.docs \notin {"none", "ignored"}

\* Faulty: services of all namespaces are one.
BackendAnywhere(m, spec) ==
    IF spec.docs = "url" \/ spec.qualified THEN <<spec.service>> ELSE <<spec.service, "default">>

\* 'url' names the host to ask; 'path' is asked of the mapping's own service,
\* with its namespace added unless the service is a qualified name.
Backend(m, spec) ==
    IF spec.docs = "url" \/ spec.qualified THEN <<spec.service>>
    ELSE <<spec.service, Namespace[m]>>

\* The host goes its own way, not by this name.
buildMappingRequestHeaders(headers) == headers \ {":authority"}

\* The host and the headers that the service is asked with.
Request(spec) == [host |-> IF spec.docs = "url" THEN None ELSE PublicHost(spec),
                  headers |-> buildMappingRequestHeaders(spec.headers)]

EndsWith(path, end) ==
    \E n \in 0 .. Len(path) : SubSeq(path, n + 1, Len(path)) = end

\* The server URL newOpenAPI writes into the document, for its own server path.
\* With a port in the public host the parser takes the host for a scheme, and the
\* path that is then set is not printed. The prefix is none for a 'url'.
ServerURL(spec, own) ==
    LET host == PublicHost(spec)
        prefix == IF spec.docs = "url" THEN <<>> ELSE spec.prefix
        base == IF host = None THEN <<>> ELSE <<host>>
    IN  IF host # None /\ spec.port THEN base
        ELSE IF prefix = <<>> THEN own
        ELSE IF EndsWith(prefix, own) THEN base \o prefix
        ELSE base \o prefix \o own
----------------------------------------------------------------------------
AllSpecs == UNION {Specs[m] : m \in Mapping}

ASSUME APIDocsAssumption ==
    /\ MaxChanges \in Nat
    /\ "idle" \notin Scrape
    /\ Documents \subseteq Seq(Segment)
    /\ \A m \in Mapping : \A spec \in Specs[m] :
        /\ spec.prefix \in Seq(Segment)
        /\ PublicHost(spec) \in Segment \cup {None}
        /\ Processable(spec) => Backend(m, spec) \in Backends

Free == [at |-> "free", snapshot |-> [m \in {} |-> None], left |-> {}, now |-> None, old |-> {}]

Running(s) == scrape[s].at # "free"
Overlap == Cardinality({s \in Scrape : Running(s)}) > 1

\* NewAPIDocsStore, when Watch begins in a cluster with any mappings, whose
\* services answer or do not.
Init ==
    /\ mapping \in {f \in [Mapping -> AllSpecs \cup {None}] :
                    \A m \in Mapping : f[m] \in Specs[m] \cup {None}}
    /\ serves \in [Backends -> Documents \cup {None}]
    /\ changes = 0
    /\ throttled = FALSE
    /\ loop = "idle"
    /\ previous = {}
    /\ current = {}
    /\ store = [m \in {} |-> None]
    /\ scrape = [s \in Scrape |-> Free]
    /\ overlapped = FALSE

MappingChanges ==
    /\ changes < MaxChanges
    /\ changes' = changes + 1
    /\ \E m \in Mapping : \E spec \in Specs[m] \cup {None} :
        mapping' = [mapping EXCEPT ![m] = spec]
    /\ UNCHANGED <<serves, throttled, loop, docsDiff, store, scrape, overlapped>>

BackendChanges ==
    /\ changes < MaxChanges
    /\ changes' = changes + 1
    /\ \E b \in Backends, d \in Documents \cup {NoServers, None} :
        serves' = [serves EXCEPT ![b] = d]
    /\ UNCHANGED <<mapping, throttled, loop, docsDiff, store, scrape, overlapped>>

MinutePasses ==
    /\ throttled
    /\ throttled' = FALSE
    /\ UNCHANGED <<cluster, loop, docsDiff, store, scrape, overlapped>>

\* The mappings of a snapshot taken now.
Snapshot == [m \in {n \in Mapping : Processable(mapping[n])} |-> mapping[m]]

ToScrape == [Free EXCEPT !.at = "next", !.snapshot = Snapshot, !.left = DOMAIN Snapshot]

Skips == (DOMAIN Snapshot = {} /\ DOMAIN store = {}) \/ throttled

\* The loop waits for the first documents, not for those of an update.
ProcessSnapshot(s) ==
    /\ loop = "idle"
    /\ ~Skips
    /\ \E r \in Scrape : ~Running(r)
    /\ s = CHOOSE r \in Scrape : ~Running(r)
    /\ scrape' = [scrape EXCEPT ![s] = ToScrape]
    /\ throttled' = TRUE
    /\ loop' = IF DOMAIN store = {} THEN s ELSE "idle"
    /\ overlapped' = (overlapped \/ \E r \in Scrape : Running(r))
    /\ UNCHANGED <<cluster, docsDiff, store>>

\* What the loop then puts into the snapshot.
StateOfWorld == DOMAIN store
----------------------------------------------------------------------------
(* scrape.                                                                 *)

\* Faulty: the reference is added when the document was fetched, as the comment
\* of add says (api_docs.go:478).
AddReferenceLate(s, m) ==
    /\ scrape[s].at = "next"
    /\ m \in scrape[s].left
    /\ scrape' = [scrape EXCEPT ![s].left = @ \ {m}, ![s].now = m, ![s].at = "get"]
    /\ current' = IF serves[Backend(m, scrape[s].snapshot[m])] \in {None, NoServers}
                  THEN current ELSE current \cup {m}
    /\ UNCHANGED <<cluster, throttled, loop, previous, store, overlapped>>

\* The next mapping's reference is added, whatever becomes of its document.
AddReference(s, m) ==
    /\ scrape[s].at = "next"
    /\ m \in scrape[s].left
    /\ current' = current \cup {m}
    /\ scrape' = LET unparsable == scrape[s].snapshot[m].docs = "invalid" IN
                 [scrape EXCEPT ![s].left = @ \ {m},
                                ![s].now = IF unparsable THEN None ELSE m,
                                ![s].at = IF unparsable THEN "next" ELSE "get"]
    /\ UNCHANGED <<cluster, throttled, loop, previous, store, overlapped>>

Asked(s) == Backend(scrape[s].now, scrape[s].snapshot[scrape[s].now])

\* No answer within ten seconds, another status, or no OpenAPI document.
GetFails(s) ==
    /\ scrape[s].at = "get"
    /\ serves[Asked(s)] = None
    /\ scrape' = [scrape EXCEPT ![s].at = "next", ![s].now = None]
    /\ UNCHANGED <<cluster, throttled, loop, docsDiff, store, overlapped>>

Fetched(s) ==
    LET spec == scrape[s].snapshot[scrape[s].now]
        doc == serves[Asked(s)]
    IN  [spec |-> spec, own |-> doc, server |-> ServerURL(spec, doc), from |-> Asked(s),
         request |-> Request(spec)]

\* Faulty: an entry that is there is not replaced.
StoredOnce(m, e) ==
    [n \in DOMAIN store \cup {m} |-> IF n \in DOMAIN store THEN store[n] ELSE e]

\* The store with the entry of one mapping's UID added or replaced.
Stored(m, e) == [n \in DOMAIN store \cup {m} |-> IF n = m THEN e ELSE store[n]]

\* The answer arrives, is given the public server URL and stored.
GetDoc(s) ==
    /\ scrape[s].at = "get"
    /\ serves[Asked(s)] \notin {None, NoServers}
    /\ store' = Stored(scrape[s].now, Fetched(s))
    /\ scrape' = [scrape EXCEPT ![s].at = "next", ![s].now = None]
    /\ UNCHANGED <<cluster, throttled, loop, docsDiff, overlapped>>

\* Faulty: the loop goes on waiting when there is something to delete.
FinishHalf(s, old) ==
    /\ scrape' = [scrape EXCEPT ![s] = IF old = {} THEN Free ELSE [@ EXCEPT !.at = "delete", !.old = old]]
    /\ loop' = IF scrape[s].at = "next" /\ old = {} /\ loop = s THEN "idle" ELSE loop

\* References are left to delete, or the scrape is over.
Finish(s, old) ==
    /\ scrape' = [scrape EXCEPT ![s] = IF old = {} THEN Free ELSE [@ EXCEPT !.at = "delete", !.old = old]]
    /\ loop' = IF old = {} /\ loop = s THEN "idle" ELSE loop

\* Faulty: the references of the round that ends are kept for the next one.
NewRoundKeeps(s) ==
    /\ scrape[s].at = "next"
    /\ scrape[s].left = {}
    /\ Finish(s, previous \ current)
    /\ previous' = current
    /\ UNCHANGED <<cluster, throttled, current, store, overlapped>>

\* newRound, which scrape defers to its end.
NewRound(s) ==
    /\ scrape[s].at = "next"
    /\ scrape[s].left = {}
    /\ Finish(s, previous \ current)
    /\ previous' = current
    /\ current' = {}
    /\ UNCHANGED <<cluster, throttled, store, overlapped>>

\* deleteRefUID, one reference after the other.
DeleteOld(s, m) ==
    /\ scrape[s].at = "delete"
    /\ m \in scrape[s].old
    /\ store' = [n \in DOMAIN store \ {m} |-> store[n]]
    /\ Finish(s, scrape[s].old \ {m})
    /\ UNCHANGED <<cluster, throttled, docsDiff, overlapped>>
----------------------------------------------------------------------------
(* Two ways for a scrape to end the process, which starts again.           *)

ProcessDies ==
    /\ throttled' = FALSE
    /\ loop' = "idle"
    /\ previous' = {}
    /\ current' = {}
    /\ store' = [m \in {} |-> None]
    /\ scrape' = [s \in Scrape |-> Free]
    /\ overlapped' = FALSE
    /\ UNCHANGED cluster

\* A document with an empty list of servers: doc.Servers[0] panics.
ServersPanic(s) ==
    /\ scrape[s].at = "get"
    /\ serves[Asked(s)] = NoServers
    /\ ProcessDies

\* docsDiff has no lock: two scrapes in add or newRound at a time may be found
\* out by the runtime.
MapRace ==
    /\ Cardinality({s \in Scrape : scrape[s].at = "next"}) > 1
    /\ ProcessDies
----------------------------------------------------------------------------
ScrapeStep(s) ==
    \/ \E m \in Mapping : AddReference(s, m) \/ DeleteOld(s, m)
    \/ GetFails(s) \/ GetDoc(s) \/ NewRound(s) \/ ServersPanic(s)

Loop == \E s \in Scrape : ProcessSnapshot(s)

Next ==
    \/ MappingChanges
    \/ BackendChanges
    \/ MinutePasses
    \/ Loop
    \/ \E s \in Scrape : ScrapeStep(s)
    \/ MapRace

\* Snapshots go on, time passes, and every request ends. No scrape is started while
\* Scrape are under way, so its turn when there is room must come.
Fairness ==
    /\ WF_vars(MinutePasses)
    /\ SF_vars(Loop)
    /\ \A s \in Scrape : WF_vars(ScrapeStep(s))

SafetySpec == Init /\ [][Next]_vars
Spec == SafetySpec /\ Fairness
----------------------------------------------------------------------------
(* Properties.                                                             *)

Entry == [spec : AllSpecs, own : Documents, from : Backends,
          request : {Request(spec) : spec \in AllSpecs}, server : Seq(Segment)]

\* A scrape works on the snapshot it was started with and holds a document only
\* between fetching and storing it; a loop that waits for a scrape has started
\* one (api_docs.go:76-84, 119-178).
TypeOK ==
    /\ mapping \in [Mapping -> AllSpecs \cup {None}]
    /\ serves \in [Backends -> Documents \cup {NoServers, None}]
    /\ changes \in 0 .. MaxChanges
    /\ throttled \in BOOLEAN /\ overlapped \in BOOLEAN
    /\ loop \in {"idle"} \cup Scrape
    /\ loop \in Scrape => Running(loop)
    /\ previous \subseteq Mapping /\ current \subseteq Mapping
    /\ DOMAIN store \subseteq Mapping
    /\ \A m \in DOMAIN store : store[m] \in Entry
    /\ \A s \in Scrape :
        /\ scrape[s].at \in {"free", "next", "get", "delete"}
        /\ DOMAIN scrape[s].snapshot \subseteq Mapping
        /\ \A m \in DOMAIN scrape[s].snapshot : Processable(scrape[s].snapshot[m])
        /\ scrape[s].left \subseteq DOMAIN scrape[s].snapshot
        /\ scrape[s].at = "get" => scrape[s].now \in DOMAIN scrape[s].snapshot
        /\ scrape[s].old \subseteq Mapping
        /\ (scrape[s].old # {}) <=> (scrape[s].at = "delete")

\* However scrapes overlap and mappings change under them, a mapping's document
\* was fetched from the service that mapping names in its own namespace, asked for
\* the mapping's host as its callers ask for it, and is published under that
\* mapping's host and prefix: "If it's http://example.com/v1, we want to add /v1
\* after the Ambassador prefix" (api_docs.go:137-177, 261-289), unless the host has
\* a port.
OwnDocument ==
    \A m \in DOMAIN store :
        LET e == store[m]
            base == <<PublicHost(e.spec)>> \o e.spec.prefix
        IN  /\ Processable(e.spec)
            /\ Len(e.from) = 2 => e.from[2] = Namespace[m]
            /\ e.spec.docs = "path" => e.request.host = PublicHost(e.spec)
            /\ e.spec.docs = "path" /\ e.spec.prefix # <<>> /\ ~e.spec.port
               /\ PublicHost(e.spec) # None
                 => /\ SubSeq(e.server, 1, Len(base)) = base
                    /\ EndsWith(e.server, e.own)

\* "deleteOld deletes old MappingDocs that are no longer present" (api_docs.go:486):
\* a scrape drops no document of a mapping it has just seen, also when the
\* document could not be fetched this time, as long as scrapes do not overlap.
DropsOnlyOld ==
    [][\A s \in Scrape, m \in Mapping :
         DeleteOld(s, m) /\ ~overlapped => m \notin DOMAIN scrape[s].snapshot]_vars

NoPanic == \A b \in Backends : serves[b] # NoServers

Answers(m) ==
    /\ Processable(mapping[m])
    /\ mapping[m].docs # "invalid"
    /\ serves[Backend(m, mapping[m])] # None

UpToDate(m) ==
    /\ m \in DOMAIN store
    /\ store[m].spec = mapping[m]
    /\ store[m].own = serves[Backend(m, mapping[m])]

\* When a mapping is there to stay and its service answers, its present document is
\* stored and reported in the end, whatever overlapping scrapes did to docsDiff
\* before (api_docs.go:56-85, 479-492).
DocsArrive ==
    \A m \in Mapping :
        <>[](Answers(m) /\ NoPanic /\ ~Overlap) => <>[](UpToDate(m))

\* A mapping that is gone, or asks to be ignored, leaves the store and the report,
\* the last one as well, as long as scrapes did not overlap (api_docs.go:62, 121-123).
DocsLeave ==
    \A m \in Mapping :
        <>[](~Processable(mapping[m]) /\ NoPanic /\ ~overlapped)
            => <>[](m \notin StateOfWorld)
=============================================================================
