--------------------------- MODULE APIDocsProofs ---------------------------
(***************************************************************************)
(* Proofs about APIDocs, for any mappings, specs, services, documents and  *)
(* number of scrapes at a time.                                            *)
(***************************************************************************)
EXTENDS APIDocs, SequenceTheorems, TLAPS

Snapshots == UNION {[M -> AllSpecs \cup {None}] : M \in SUBSET Mapping}

AScrape == [at : {"free", "next", "get", "delete"}, snapshot : Snapshots,
            left : SUBSET Mapping, now : Mapping \cup {None}, old : SUBSET Mapping]

Typed ==
    /\ mapping \in [Mapping -> AllSpecs \cup {None}]
    /\ scrape \in [Scrape -> AScrape]
    /\ previous \subseteq Mapping /\ current \subseteq Mapping

\* As long as scrapes did not overlap, there is one at most; ...
Alone == ~overlapped => \A s, r \in Scrape : Running(s) /\ Running(r) => s = r

\* ... what it has gone through is referenced in the round that goes on, ...
Referenced ==
    ~overlapped => \A s \in Scrape : scrape[s].at \in {"next", "get"} =>
        DOMAIN scrape[s].snapshot \ scrape[s].left \subseteq current

\* ... and it deletes none of it.
OnlyOld ==
    ~overlapped => \A s \in Scrape : scrape[s].at = "delete" =>
        scrape[s].old \cap DOMAIN scrape[s].snapshot = {}

DocsInv == Typed /\ Alone /\ Referenced /\ OnlyOld

LEMMA FreeFacts == Free \in AScrape /\ Free.at = "free"
<1>1. Free.snapshot \in [{} -> AllSpecs \cup {None}]
  BY DEF Free
<1>2. Free.snapshot \in Snapshots
  BY <1>1 DEF Snapshots
<1> QED
  BY <1>2 DEF Free, AScrape

\* One scrape changes, and where it goes on it does so by the rules.
LEMMA OneChanges ==
    ASSUME DocsInv, NEW s \in Scrape, Running(s), NEW new \in AScrape,
           scrape' = [scrape EXCEPT ![s] = new], overlapped' = overlapped, mapping' = mapping,
           previous' \subseteq Mapping, current' \subseteq Mapping,
           ~overlapped /\ new.at \in {"next", "get"} =>
               DOMAIN new.snapshot \ new.left \subseteq current',
           ~overlapped /\ new.at = "delete" => new.old \cap DOMAIN new.snapshot = {}
    PROVE  DocsInv'
<1>1. /\ scrape' \in [Scrape -> AScrape] /\ scrape'[s] = new
      /\ \A r \in Scrape \ {s} : scrape'[r] = scrape[r]
  BY DEF DocsInv, Typed
<1>2. ~overlapped => \A r \in Scrape \ {s} : ~Running(r)
  BY DEF DocsInv, Alone
<1>3. Typed'
  BY <1>1 DEF DocsInv, Typed
<1>4. Alone'
  BY <1>1, <1>2 DEF Alone, Running
<1>5. Referenced'
  BY <1>1, <1>2 DEF Referenced, Running
<1>6. OnlyOld'
  BY <1>1, <1>2 DEF OnlyOld, Running
<1> QED
  BY <1>3, <1>4, <1>5, <1>6 DEF DocsInv

LEMMA SameScrapes ==
    ASSUME DocsInv, scrape' = scrape, overlapped' = overlapped, UNCHANGED docsDiff,
           mapping' \in [Mapping -> AllSpecs \cup {None}]
    PROVE  DocsInv'
BY DEF DocsInv, Typed, Alone, Referenced, OnlyOld, Running, docsDiff

LEMMA AfterDeath ==
    ASSUME mapping' \in [Mapping -> AllSpecs \cup {None}], previous' = {}, current' = {},
           scrape' = [s \in Scrape |-> Free]
    PROVE  DocsInv'
BY FreeFacts DEF DocsInv, Typed, Alone, Referenced, OnlyOld, Running

LEMMA DocsInit == Init => DocsInv
BY FreeFacts DEF Init, DocsInv, Typed, Alone, Referenced, OnlyOld, Running

LEMMA ClusterKeeps == DocsInv /\ (MappingChanges \/ BackendChanges \/ MinutePasses) => DocsInv'
<1>1. ASSUME DocsInv, MappingChanges
      PROVE  mapping' \in [Mapping -> AllSpecs \cup {None}]
  <2>1. PICK m \in Mapping : \E spec \in Specs[m] \cup {None} :
            mapping' = [mapping EXCEPT ![m] = spec]
    BY <1>1 DEF MappingChanges
  <2>2. PICK spec \in Specs[m] \cup {None} : mapping' = [mapping EXCEPT ![m] = spec]
    BY <2>1
  <2>3. spec \in AllSpecs \cup {None}
    <3>1. CASE spec \in Specs[m]
      BY <3>1 DEF AllSpecs
    <3> QED
      BY <3>1
  <2> QED
    BY <1>1, <2>2, <2>3 DEF DocsInv, Typed
<1>2. ASSUME DocsInv, BackendChanges \/ MinutePasses
      PROVE  mapping' \in [Mapping -> AllSpecs \cup {None}]
  BY <1>2 DEF BackendChanges, MinutePasses, cluster, DocsInv, Typed
<1> QED
  BY <1>1, <1>2, SameScrapes DEF MappingChanges, BackendChanges, MinutePasses

LEMMA ProcessSnapshotKeeps ==
    ASSUME DocsInv, NEW s \in Scrape, ProcessSnapshot(s)
    PROVE  DocsInv'
<1>1. /\ ~Running(s) /\ scrape' = [scrape EXCEPT ![s] = ToScrape]
      /\ overlapped' = (overlapped \/ \E r \in Scrape : Running(r))
      /\ UNCHANGED <<cluster, docsDiff>>
  BY DEF ProcessSnapshot
<1>2. ToScrape \in AScrape /\ ToScrape.at = "next" /\ ToScrape.left = DOMAIN ToScrape.snapshot
  <2>1. Snapshot \in [{n \in Mapping : Processable(mapping[n])} -> AllSpecs \cup {None}]
    BY DEF Snapshot, DocsInv, Typed
  <2>2. {n \in Mapping : Processable(mapping[n])} \in SUBSET Mapping
    OBVIOUS
  <2>3. Snapshot \in Snapshots /\ DOMAIN Snapshot \subseteq Mapping
    BY <2>1, <2>2 DEF Snapshots
  <2> HIDE DEF Snapshot
  <2>4. Free \in AScrape
    BY FreeFacts
  <2> QED
    BY <2>3, <2>4 DEF ToScrape, AScrape
<1>3. /\ scrape' \in [Scrape -> AScrape] /\ scrape'[s] = ToScrape
      /\ \A r \in Scrape \ {s} : scrape'[r] = scrape[r]
  BY <1>1, <1>2 DEF DocsInv, Typed
<1>4. Typed'
  BY <1>1, <1>3 DEF DocsInv, Typed, cluster, docsDiff
<1>5. ~overlapped' => \A r \in Scrape : ~Running(r)
  BY <1>1
<1>6. Alone'
  BY <1>3, <1>5 DEF Alone, Running
<1>7. Referenced' /\ OnlyOld'
  BY <1>2, <1>3, <1>5 DEF Referenced, OnlyOld, Running
<1> QED
  BY <1>4, <1>6, <1>7 DEF DocsInv

LEMMA AddReferenceKeeps ==
    ASSUME DocsInv, NEW s \in Scrape, NEW m \in Mapping, AddReference(s, m)
    PROVE  DocsInv'
<1> DEFINE unparsable == scrape[s].snapshot[m].docs = "invalid"
           new == [scrape[s] EXCEPT !.left = @ \ {m}, !.now = IF unparsable THEN None ELSE m,
                                    !.at = IF unparsable THEN "next" ELSE "get"]
<1>1. /\ scrape[s].at = "next" /\ current' = current \cup {m} /\ previous' = previous
      /\ mapping' = mapping /\ overlapped' = overlapped
  BY DEF AddReference, cluster
<1>2. scrape[s] \in AScrape
  BY DEF DocsInv, Typed
<1>3. /\ new \in AScrape /\ new.left = scrape[s].left \ {m} /\ new.at # "delete"
      /\ new.snapshot = scrape[s].snapshot
  BY <1>2 DEF AScrape
<1>4. scrape' = [scrape EXCEPT ![s] = new]
  BY <1>2 DEF AddReference, DocsInv, Typed, AScrape
<1> HIDE DEF new
<1>5. ~overlapped => DOMAIN new.snapshot \ new.left \subseteq current'
  BY <1>1, <1>3 DEF DocsInv, Referenced
<1>6. previous' \subseteq Mapping /\ current' \subseteq Mapping
  BY <1>1 DEF DocsInv, Typed
<1> QED
  BY <1>1, <1>3, <1>4, <1>5, <1>6, OneChanges DEF Running

LEMMA GetKeeps ==
    ASSUME DocsInv, NEW s \in Scrape, GetFails(s) \/ GetDoc(s)
    PROVE  DocsInv'
<1> DEFINE new == [scrape[s] EXCEPT !.at = "next", !.now = None]
<1>1. /\ scrape[s].at = "get" /\ current' = current /\ previous' = previous
      /\ mapping' = mapping /\ overlapped' = overlapped
  BY DEF GetFails, GetDoc, cluster, docsDiff
<1>2. scrape[s] \in AScrape
  BY DEF DocsInv, Typed
<1>3. /\ new \in AScrape /\ new.left = scrape[s].left /\ new.at = "next"
      /\ new.snapshot = scrape[s].snapshot
  BY <1>2 DEF AScrape
<1>4. scrape' = [scrape EXCEPT ![s] = new]
  BY <1>2 DEF GetFails, GetDoc, DocsInv, Typed, AScrape
<1> HIDE DEF new
<1>5. ~overlapped => DOMAIN new.snapshot \ new.left \subseteq current'
  BY <1>1, <1>3 DEF DocsInv, Referenced
<1>6. previous' \subseteq Mapping /\ current' \subseteq Mapping
  BY <1>1 DEF DocsInv, Typed
<1> QED
  BY <1>1, <1>3, <1>4, <1>5, <1>6, OneChanges DEF Running

LEMMA FinishKeeps ==
    ASSUME DocsInv, NEW s \in Scrape, Running(s), NEW old \in SUBSET Mapping, Finish(s, old),
           overlapped' = overlapped, mapping' = mapping,
           previous' \subseteq Mapping, current' \subseteq Mapping,
           ~overlapped => old \cap DOMAIN scrape[s].snapshot = {}
    PROVE  DocsInv'
<1> DEFINE new == IF old = {} THEN Free ELSE [scrape[s] EXCEPT !.at = "delete", !.old = old]
<1>1. scrape[s] \in AScrape
  BY DEF DocsInv, Typed
<1>2. scrape' = [scrape EXCEPT ![s] = new]
  BY <1>1 DEF Finish, DocsInv, Typed
<1>3. new \in AScrape
  BY <1>1, FreeFacts DEF AScrape
<1>4. new.at \notin {"next", "get"}
  BY <1>1, FreeFacts DEF AScrape
<1>5. new.at = "delete" => new.old = old /\ new.snapshot = scrape[s].snapshot
  BY <1>1, FreeFacts DEF AScrape
<1> HIDE DEF new
<1> QED
  BY <1>2, <1>3, <1>4, <1>5, OneChanges

LEMMA NewRoundGoesOn ==
    ASSUME DocsInv, NEW s \in Scrape, NewRound(s)
    PROVE  DocsInv'
<1>1. /\ scrape[s].at = "next" /\ scrape[s].left = {} /\ Finish(s, previous \ current)
      /\ previous' = current /\ current' = {} /\ mapping' = mapping /\ overlapped' = overlapped
  BY DEF NewRound, cluster
<1>2. ~overlapped => DOMAIN scrape[s].snapshot \subseteq current
  BY <1>1 DEF DocsInv, Referenced
<1>3. previous \ current \in SUBSET Mapping /\ previous' \subseteq Mapping /\ current' \subseteq Mapping
  BY <1>1 DEF DocsInv, Typed
<1>4. ~overlapped => (previous \ current) \cap DOMAIN scrape[s].snapshot = {}
  BY <1>2
<1> QED
  BY <1>1, <1>3, <1>4, FinishKeeps DEF Running

LEMMA DeleteOldKeeps ==
    ASSUME DocsInv, NEW s \in Scrape, NEW m \in Mapping, DeleteOld(s, m)
    PROVE  DocsInv'
<1>1. /\ scrape[s].at = "delete" /\ Finish(s, scrape[s].old \ {m})
      /\ previous' = previous /\ current' = current
      /\ mapping' = mapping /\ overlapped' = overlapped
  BY DEF DeleteOld, cluster, docsDiff
<1>2. scrape[s] \in AScrape
  BY DEF DocsInv, Typed
<1>3. /\ scrape[s].old \ {m} \in SUBSET Mapping
      /\ previous' \subseteq Mapping /\ current' \subseteq Mapping
  BY <1>1, <1>2 DEF DocsInv, Typed, AScrape
<1>4. ~overlapped => (scrape[s].old \ {m}) \cap DOMAIN scrape[s].snapshot = {}
  BY <1>1 DEF DocsInv, OnlyOld
<1> QED
  BY <1>1, <1>3, <1>4, FinishKeeps DEF Running

LEMMA DeathKeeps ==
    ASSUME DocsInv, MapRace \/ \E s \in Scrape : ServersPanic(s)
    PROVE  DocsInv'
<1>1. ProcessDies
  BY DEF MapRace, ServersPanic
<1> QED
  BY <1>1, AfterDeath DEF ProcessDies, cluster, DocsInv, Typed

LEMMA NextKeeps == DocsInv /\ [Next]_vars => DocsInv'
<1> SUFFICES ASSUME DocsInv, [Next]_vars PROVE DocsInv'
  OBVIOUS
<1>1. CASE UNCHANGED vars
  BY <1>1, SameScrapes DEF vars, cluster, docsDiff, DocsInv, Typed
<1>2. CASE Loop
  BY <1>2, ProcessSnapshotKeeps DEF Loop
<1>3. ASSUME NEW s \in Scrape, ScrapeStep(s) PROVE DocsInv'
  BY <1>3, AddReferenceKeeps, DeleteOldKeeps, GetKeeps, NewRoundGoesOn, DeathKeeps DEF ScrapeStep
<1> QED
  BY <1>1, <1>2, <1>3, ClusterKeeps, DeathKeeps DEF Next
----------------------------------------------------------------------------
(* Theorem.                                                                *)

\* A scrape drops no document of a mapping it has just seen, fetched or not, as long as
\* scrapes did not overlap (api_docs.go:128-136, 479-492).
THEOREM OnlyOldDropped == SafetySpec => DropsOnlyOld
<1>1. Init => DocsInv
  BY DocsInit
<1>2. DocsInv /\ [Next]_vars => DocsInv'
  BY NextKeeps
<1>3. DocsInv =>
        [\A s \in Scrape, m \in Mapping :
            DeleteOld(s, m) /\ ~overlapped => m \notin DOMAIN scrape[s].snapshot]_vars
  BY DEF DocsInv, OnlyOld, DeleteOld
<1> QED
  BY <1>1, <1>2, <1>3, PTL DEF SafetySpec, DropsOnlyOld
----------------------------------------------------------------------------
(* The server URL.                                                         *)

\* Where two paths are joined, the first begins the path and the second ends it.
LEMMA EndOfJoined ==
    ASSUME NEW S, NEW p \in Seq(S), NEW q \in Seq(S)
    PROVE  /\ p \o q \in Seq(S) /\ SubSeq(p \o q, 1, Len(p)) = p
           /\ EndsWith(p \o q, q)
<1> DEFINE r == p \o q
           n == Len(p)
<1>1. /\ r \in Seq(S) /\ Len(r) = n + Len(q) /\ n \in Nat /\ Len(q) \in Nat
      /\ \A i \in 1 .. n : r[i] = p[i]
      /\ \A i \in 1 .. Len(q) : r[n + i] = q[i]
  <2>1. \A i \in 1 .. Len(p) + Len(q) : r[i] = IF i <= Len(p) THEN p[i] ELSE q[i - Len(p)]
    BY ConcatProperties
  <2> QED
    BY <2>1
<1> HIDE DEF r, n
<1>2. SubSeq(r, 1, n) = p
  <2>1. \A i \in 1 .. n : r[i] \in S
    BY <1>1 DEF n
  <2>2. /\ SubSeq(r, 1, n) \in Seq(S) /\ Len(SubSeq(r, 1, n)) = n
        /\ \A i \in 1 .. n : SubSeq(r, 1, n)[i] = r[i]
    BY <1>1, <2>1, SubSeqProperties
  <2>3. \A i \in 1 .. n : SubSeq(r, 1, n)[i] = p[i]
    BY <1>1, <2>2
  <2> QED
    BY <2>2, <2>3, SeqEqual DEF n
<1>3. SubSeq(r, n + 1, Len(r)) = q
  <2>1. \A i \in n + 1 .. Len(r) : r[i] \in S
    BY <1>1
  <2>2. /\ SubSeq(r, n + 1, Len(r)) \in Seq(S) /\ Len(SubSeq(r, n + 1, Len(r))) = Len(q)
        /\ \A i \in 1 .. Len(q) : SubSeq(r, n + 1, Len(r))[i] = r[n + i]
    BY <1>1, <2>1, SubSeqProperties
  <2>3. \A i \in 1 .. Len(q) : SubSeq(r, n + 1, Len(r))[i] = q[i]
    BY <1>1, <2>2
  <2> QED
    BY <2>2, <2>3, SeqEqual
<1>4. EndsWith(r, q)
  <2>1. n \in 0 .. Len(r)
    BY <1>1
  <2> QED
    BY <1>3, <2>1 DEF EndsWith
<1> QED
  BY <1>1, <1>2, <1>4 DEF r, n

\* A longer path ends as the shorter one does.
LEMMA LongerEndsToo ==
    ASSUME NEW S, NEW a \in Seq(S), NEW p \in Seq(S), NEW end \in Seq(S), EndsWith(p, end)
    PROVE  EndsWith(a \o p, end)
<1> DEFINE r == a \o p
           k == Len(a)
<1>1. PICK n \in 0 .. Len(p) : SubSeq(p, n + 1, Len(p)) = end
  BY DEF EndsWith
<1>2. /\ r \in Seq(S) /\ Len(r) = k + Len(p) /\ k \in Nat /\ Len(p) \in Nat
      /\ \A i \in 1 .. Len(p) : r[k + i] = p[i]
  <2>1. \A i \in 1 .. Len(a) + Len(p) : r[i] = IF i <= Len(a) THEN a[i] ELSE p[i - Len(a)]
    BY ConcatProperties
  <2> QED
    BY <2>1
<1> HIDE DEF r, k
<1> DEFINE l == Len(p) - n
<1>3. l \in Nat /\ n \in Nat
  BY <1>2
<1>4. /\ Len(end) = l /\ \A i \in 1 .. l : end[i] = p[n + i]
  <2>1. \A i \in n + 1 .. Len(p) : p[i] \in S
    BY <1>2
  <2> QED
    BY <1>1, <1>2, <2>1, SubSeqProperties
<1>5. /\ SubSeq(r, k + n + 1, Len(r)) \in Seq(S) /\ Len(SubSeq(r, k + n + 1, Len(r))) = l
      /\ \A i \in 1 .. l : SubSeq(r, k + n + 1, Len(r))[i] = r[k + n + i]
  <2>1. \A i \in k + n + 1 .. Len(r) : r[i] \in S
    BY <1>2
  <2> QED
    BY <1>2, <1>3, <2>1, SubSeqProperties
<1>6. \A i \in 1 .. l : r[k + n + i] = p[n + i]
  BY <1>2, <1>3
<1>7. SubSeq(r, k + n + 1, Len(r)) = end
  BY <1>4, <1>5, <1>6, SeqEqual
<1>8. k + n \in 0 .. Len(r)
  BY <1>2, <1>3
<1> QED
  BY <1>7, <1>8 DEF EndsWith, r

\* What is published begins with the mapping's host and prefix, and ends with the
\* document's own path (api_docs.go:261-289).
LEMMA ServerFacts ==
    ASSUME NEW m \in Mapping, NEW spec \in Specs[m], NEW own \in Documents
    PROVE  /\ ServerURL(spec, own) \in Seq(Segment)
           /\ spec.docs = "path" /\ spec.prefix # <<>> /\ ~spec.port /\ PublicHost(spec) # None =>
                LET base == <<PublicHost(spec)>> \o spec.prefix
                IN  /\ SubSeq(ServerURL(spec, own), 1, Len(base)) = base
                    /\ EndsWith(ServerURL(spec, own), own)
<1> DEFINE host == PublicHost(spec)
           base == <<host>> \o spec.prefix
<1>1. own \in Seq(Segment) /\ spec.prefix \in Seq(Segment) /\ host \in Segment \cup {None}
  BY APIDocsAssumption
<1>2. host # None => <<host>> \in Seq(Segment)
  BY <1>1
<1>3. ServerURL(spec, own) \in Seq(Segment)
  <2>1. \A p, q \in Seq(Segment) : p \o q \in Seq(Segment)
    OBVIOUS
  <2>2. <<>> \in Seq(Segment)
    OBVIOUS
  <2> HIDE DEF host
  <2> QED
    BY <1>1, <1>2, <2>1, <2>2 DEF ServerURL, host
<1>4. ASSUME spec.docs = "path", spec.prefix # <<>>, ~spec.port, host # None
      PROVE  /\ SubSeq(ServerURL(spec, own), 1, Len(base)) = base
             /\ EndsWith(ServerURL(spec, own), own)
  <2>1. <<host>> \in Seq(Segment) /\ base \in Seq(Segment)
    BY <1>1, <1>2, <1>4, ConcatProperties
  <2>2. ServerURL(spec, own) = IF EndsWith(spec.prefix, own) THEN base ELSE base \o own
    BY <1>4 DEF ServerURL
  <2>3. CASE EndsWith(spec.prefix, own)
    <3>1. EndsWith(base, own)
      BY <1>1, <2>1, <2>3, LongerEndsToo
    <3>2. SubSeq(base, 1, Len(base)) = base
      <4>1. base \o <<>> = base /\ <<>> \in Seq(Segment)
        BY <2>1
      <4> HIDE DEF base
      <4> QED
        BY <2>1, <4>1, EndOfJoined
    <3> QED
      BY <2>2, <2>3, <3>1, <3>2
  <2>4. CASE ~EndsWith(spec.prefix, own)
    <3> HIDE DEF base
    <3> QED
      BY <1>1, <2>1, <2>2, <2>4, EndOfJoined
  <2> QED
    BY <2>3, <2>4
<1> QED
  BY <1>3, <1>4
----------------------------------------------------------------------------
(* The invariant.                                                          *)

\* A scrape works on mappings as one snapshot had them.
ScrapeOK(x) ==
    /\ x \in AScrape
    /\ DOMAIN x.snapshot \subseteq Mapping
    /\ \A m \in DOMAIN x.snapshot : x.snapshot[m] \in Specs[m] /\ Processable(x.snapshot[m])
    /\ x.left \subseteq DOMAIN x.snapshot
    /\ x.at = "get" => x.now \in DOMAIN x.snapshot
    /\ x.old # {} <=> x.at = "delete"

\* What a document was fetched and published with is of one spec of its mapping.
EntryOK(m, e) ==
    /\ e \in Entry
    /\ e.spec \in Specs[m] /\ Processable(e.spec)
    /\ e.from = Backend(m, e.spec)
    /\ e.request = Request(e.spec)
    /\ e.server = ServerURL(e.spec, e.own)

ScrapesOK == scrape \in [Scrape -> AScrape] /\ \A s \in Scrape : ScrapeOK(scrape[s])

StoreOK == DOMAIN store \subseteq Mapping /\ \A m \in DOMAIN store : EntryOK(m, store[m])

ClusterOK ==
    /\ mapping \in [Mapping -> AllSpecs \cup {None}]
    /\ \A m \in Mapping : mapping[m] \in Specs[m] \cup {None}
    /\ serves \in [Backends -> Documents \cup {NoServers, None}]
    /\ changes \in 0 .. MaxChanges

LoopOK ==
    /\ throttled \in BOOLEAN /\ overlapped \in BOOLEAN
    /\ loop \in {"idle"} \cup Scrape
    /\ loop \in Scrape => Running(loop)
    /\ previous \subseteq Mapping /\ current \subseteq Mapping

OwnInv == ClusterOK /\ LoopOK /\ StoreOK /\ ScrapesOK

\* Of the invariant, the types, ...
LEMMA OwnTypes == OwnInv => TypeOK
<1> SUFFICES ASSUME OwnInv PROVE TypeOK
  OBVIOUS
<1>1. \A m \in DOMAIN store : store[m] \in Entry
  BY DEF OwnInv, StoreOK, EntryOK
<1>2. DOMAIN store \subseteq Mapping
  BY DEF OwnInv, StoreOK
<1>3. ASSUME NEW s \in Scrape
      PROVE  /\ scrape[s].at \in {"free", "next", "get", "delete"}
             /\ DOMAIN scrape[s].snapshot \subseteq Mapping
             /\ \A m \in DOMAIN scrape[s].snapshot : Processable(scrape[s].snapshot[m])
             /\ scrape[s].left \subseteq DOMAIN scrape[s].snapshot
             /\ scrape[s].at = "get" => scrape[s].now \in DOMAIN scrape[s].snapshot
             /\ scrape[s].old \subseteq Mapping
             /\ (scrape[s].old # {}) <=> (scrape[s].at = "delete")
  <2>1. ScrapeOK(scrape[s])
    BY DEF OwnInv, ScrapesOK
  <2>2. scrape[s].at \in {"free", "next", "get", "delete"} /\ scrape[s].old \subseteq Mapping
    BY <2>1 DEF ScrapeOK, AScrape
  <2> QED
    BY <2>1, <2>2 DEF ScrapeOK
<1> QED
  BY <1>1, <1>2, <1>3 DEF OwnInv, ClusterOK, LoopOK, TypeOK

\* ... and what is said of the documents.
LEMMA OwnIsOwn == OwnInv => OwnDocument
<1> SUFFICES ASSUME OwnInv, NEW m \in DOMAIN store
             PROVE  LET e == store[m]
                        base == <<PublicHost(e.spec)>> \o e.spec.prefix
                    IN  /\ Processable(e.spec)
                        /\ Len(e.from) = 2 => e.from[2] = Namespace[m]
                        /\ e.spec.docs = "path" => e.request.host = PublicHost(e.spec)
                        /\ e.spec.docs = "path" /\ e.spec.prefix # <<>> /\ ~e.spec.port
                           /\ PublicHost(e.spec) # None
                             => /\ SubSeq(e.server, 1, Len(base)) = base
                                /\ EndsWith(e.server, e.own)
  BY DEF OwnDocument
<1> DEFINE e == store[m]
<1>1. m \in Mapping /\ EntryOK(m, e)
  BY DEF OwnInv, StoreOK
<1>2. /\ e.spec \in Specs[m] /\ Processable(e.spec) /\ e.from = Backend(m, e.spec)
      /\ e.request = Request(e.spec) /\ e.server = ServerURL(e.spec, e.own)
  BY <1>1 DEF EntryOK
<1>3. e.own \in Documents
  BY <1>1 DEF EntryOK, Entry
<1> HIDE DEF e
<1>4. Len(e.from) = 2 => e.from[2] = Namespace[m]
  BY <1>2 DEF Backend
<1>5. e.spec.docs = "path" => e.request.host = PublicHost(e.spec)
  BY <1>2 DEF Request
<1>6. e.spec.docs = "path" /\ e.spec.prefix # <<>> /\ ~e.spec.port /\ PublicHost(e.spec) # None =>
        LET base == <<PublicHost(e.spec)>> \o e.spec.prefix
        IN  SubSeq(e.server, 1, Len(base)) = base /\ EndsWith(e.server, e.own)
  BY <1>1, <1>2, <1>3, ServerFacts
<1> QED
  BY <1>2, <1>4, <1>5, <1>6 DEF e
----------------------------------------------------------------------------
(* The steps.                                                              *)

\* Nothing is under way in a scrape that is free.
LEMMA FreeOK == ScrapeOK(Free)
BY FreeFacts DEF ScrapeOK, Free

\* Nothing is stored or under way at first.
LEMMA OwnInit == Init => OwnInv
<1> SUFFICES ASSUME Init PROVE OwnInv
  OBVIOUS
<1>1. /\ mapping \in {f \in [Mapping -> AllSpecs \cup {None}] :
                        \A m \in Mapping : f[m] \in Specs[m] \cup {None}}
      /\ serves \in [Backends -> Documents \cup {None}] /\ changes = 0
  BY DEF Init
<1>2. ClusterOK
  BY <1>1, APIDocsAssumption DEF ClusterOK
<1>3. LoopOK /\ StoreOK
  BY APIDocsAssumption DEF Init, LoopOK, StoreOK
<1>4. ScrapesOK
  BY FreeOK, FreeFacts DEF Init, ScrapesOK
<1> QED
  BY <1>2, <1>3, <1>4 DEF OwnInv

\* The cluster changes, and time passes.
LEMMA ClusterChanges == OwnInv /\ (MappingChanges \/ BackendChanges \/ MinutePasses) => OwnInv'
<1> SUFFICES ASSUME OwnInv, MappingChanges \/ BackendChanges \/ MinutePasses PROVE OwnInv'
  OBVIOUS
<1>1. /\ UNCHANGED <<loop, previous, current, store, scrape, overlapped>>
      /\ throttled' \in BOOLEAN
  BY DEF MappingChanges, BackendChanges, MinutePasses, docsDiff, OwnInv, LoopOK
<1>2. ScrapesOK' /\ StoreOK' /\ LoopOK'
  BY <1>1 DEF OwnInv, ScrapesOK, StoreOK, LoopOK, Running
<1>3. changes' \in 0 .. MaxChanges
  BY APIDocsAssumption DEF MappingChanges, BackendChanges, MinutePasses, cluster, OwnInv, ClusterOK
<1>4. CASE MappingChanges
  <2>1. PICK m \in Mapping : \E spec \in Specs[m] \cup {None} :
            mapping' = [mapping EXCEPT ![m] = spec]
    BY <1>4 DEF MappingChanges
  <2>2. PICK spec \in Specs[m] \cup {None} : mapping' = [mapping EXCEPT ![m] = spec]
    BY <2>1
  <2>3. spec \in AllSpecs \cup {None}
    <3>1. CASE spec \in Specs[m]
      BY <3>1 DEF AllSpecs
    <3> QED
      BY <3>1
  <2> QED
    BY <1>2, <1>3, <1>4, <2>2, <2>3 DEF MappingChanges, OwnInv, ClusterOK
<1>5. CASE BackendChanges
  <2>1. PICK b \in Backends, d \in Documents \cup {NoServers, None} :
            serves' = [serves EXCEPT ![b] = d]
    BY <1>5 DEF BackendChanges
  <2> QED
    BY <1>2, <1>3, <1>5, <2>1 DEF BackendChanges, OwnInv, ClusterOK
<1>6. CASE MinutePasses
  BY <1>2, <1>6 DEF MinutePasses, cluster, OwnInv, ClusterOK
<1> QED
  BY <1>4, <1>5, <1>6

\* One scrape changes, and the loop goes on when the one it waits for is over.
LEMMA OneScrape ==
    ASSUME OwnInv, NEW s \in Scrape, NEW new, ScrapeOK(new),
           scrape' = [scrape EXCEPT ![s] = new],
           \/ loop' = loop /\ (new.at # "free" \/ loop # s)
           \/ loop' = "idle"
           \/ loop' = s /\ new.at # "free"
    PROVE  ScrapesOK' /\ loop' \in {"idle"} \cup Scrape /\ (loop' \in Scrape => Running(loop)')
<1>1. /\ scrape' \in [Scrape -> AScrape] /\ scrape'[s] = new
      /\ \A r \in Scrape \ {s} : scrape'[r] = scrape[r]
  BY DEF OwnInv, ScrapesOK, ScrapeOK
<1>2. ScrapesOK'
  BY <1>1 DEF OwnInv, ScrapesOK, ScrapeOK
<1>3. loop' \in {"idle"} \cup Scrape
  BY DEF OwnInv, LoopOK
<1>4. loop' \in Scrape => Running(loop)'
  BY <1>1, APIDocsAssumption DEF OwnInv, LoopOK, Running
<1> QED
  BY <1>2, <1>3, <1>4

\* A snapshot has the mappings that may be asked (api_docs.go:92-108).
LEMMA SnapshotOK == OwnInv => ScrapeOK(ToScrape) /\ ToScrape.at = "next"
<1> SUFFICES ASSUME OwnInv PROVE ScrapeOK(ToScrape) /\ ToScrape.at = "next"
  OBVIOUS
<1> DEFINE M == {n \in Mapping : Processable(mapping[n])}
<1>1. /\ Snapshot \in [M -> AllSpecs \cup {None}] /\ M \in SUBSET Mapping
      /\ \A m \in M : Snapshot[m] = mapping[m]
  BY DEF Snapshot, OwnInv, ClusterOK
<1>2. \A m \in M : Snapshot[m] \in Specs[m] /\ Processable(Snapshot[m])
  BY <1>1 DEF OwnInv, ClusterOK, Processable
<1>3. Snapshot \in Snapshots /\ DOMAIN Snapshot = M
  BY <1>1 DEF Snapshots
<1> HIDE DEF Snapshot, M
<1>4. /\ ToScrape.at = "next" /\ ToScrape.snapshot = Snapshot /\ ToScrape.left = M
      /\ ToScrape.old = {}
  BY <1>3 DEF ToScrape, Free
<1>5. ToScrape \in AScrape
  BY <1>1, <1>3, FreeFacts DEF AScrape, ToScrape
<1> QED
  BY <1>1, <1>2, <1>3, <1>4, <1>5 DEF ScrapeOK

\* A scrape is started (api_docs.go:56-85).
LEMMA SnapshotStarts ==
    ASSUME OwnInv, NEW s \in Scrape, ProcessSnapshot(s)
    PROVE  OwnInv'
<1>1. /\ scrape' = [scrape EXCEPT ![s] = ToScrape] /\ throttled' = TRUE
      /\ loop = "idle" /\ loop' \in {s, "idle"}
      /\ UNCHANGED <<mapping, serves, changes, previous, current, store>>
      /\ overlapped' \in BOOLEAN
  BY DEF ProcessSnapshot, cluster, docsDiff, OwnInv, LoopOK
<1>2. ScrapesOK' /\ loop' \in {"idle"} \cup Scrape /\ (loop' \in Scrape => Running(loop)')
  BY <1>1, SnapshotOK, OneScrape
<1> QED
  BY <1>1, <1>2 DEF OwnInv, ClusterOK, LoopOK, StoreOK

\* The rest of a step of one scrape.
LEMMA ScrapeGoesOn ==
    ASSUME OwnInv, NEW s \in Scrape, NEW new, ScrapeOK(new),
           scrape' = [scrape EXCEPT ![s] = new],
           \/ loop' = loop /\ (new.at # "free" \/ loop # s)
           \/ loop' = "idle",
           UNCHANGED <<mapping, serves, changes, throttled, overlapped>>,
           previous' \subseteq Mapping, current' \subseteq Mapping, StoreOK'
    PROVE  OwnInv'
<1>1. ScrapesOK' /\ loop' \in {"idle"} \cup Scrape /\ (loop' \in Scrape => Running(loop)')
  BY OneScrape
<1> QED
  BY <1>1 DEF OwnInv, ClusterOK, LoopOK

\* The next mapping's turn (api_docs.go:128-147).
LEMMA AddReferenceOwn ==
    ASSUME OwnInv, NEW s \in Scrape, NEW m \in Mapping, AddReference(s, m)
    PROVE  OwnInv'
<1> DEFINE unparsable == scrape[s].snapshot[m].docs = "invalid"
           new == [scrape[s] EXCEPT !.left = @ \ {m}, !.now = IF unparsable THEN None ELSE m,
                                    !.at = IF unparsable THEN "next" ELSE "get"]
<1>1. /\ scrape[s].at = "next" /\ m \in scrape[s].left /\ current' = current \cup {m}
      /\ UNCHANGED <<mapping, serves, changes, throttled, overlapped, previous, loop, store>>
  BY DEF AddReference, cluster
<1>2. scrape[s] \in AScrape /\ ScrapeOK(scrape[s])
  BY DEF OwnInv, ScrapesOK
<1>3. /\ new \in AScrape /\ new.left = scrape[s].left \ {m} /\ new.at \in {"next", "get"}
      /\ new.snapshot = scrape[s].snapshot /\ new.old = scrape[s].old
      /\ new.at = "get" => new.now = m
  BY <1>2 DEF AScrape
<1>4. scrape' = [scrape EXCEPT ![s] = new]
  BY <1>2 DEF AddReference, OwnInv, ScrapesOK, AScrape
<1> HIDE DEF new
<1>5. ScrapeOK(new)
  BY <1>1, <1>2, <1>3 DEF ScrapeOK
<1>6. previous' \subseteq Mapping /\ current' \subseteq Mapping /\ StoreOK'
  BY <1>1 DEF OwnInv, LoopOK, StoreOK
<1> QED
  BY <1>1, <1>3, <1>4, <1>5, <1>6, ScrapeGoesOn

\* A document is stored with the spec it was asked for by (api_docs.go:137-177).
LEMMA FetchedOK ==
    ASSUME OwnInv, NEW s \in Scrape, scrape[s].at = "get",
           serves[Asked(s)] \notin {None, NoServers}
    PROVE  scrape[s].now \in Mapping /\ EntryOK(scrape[s].now, Fetched(s))
<1> DEFINE m == scrape[s].now
           spec == scrape[s].snapshot[m]
           own == serves[Asked(s)]
<1>1. m \in Mapping /\ spec \in Specs[m] /\ Processable(spec)
  BY DEF OwnInv, ScrapesOK, ScrapeOK
<1>2. Asked(s) = Backend(m, spec)
  BY DEF Asked
<1>3. Asked(s) \in Backends
  BY <1>1, <1>2, APIDocsAssumption
<1>4. own \in Documents
  BY <1>3 DEF OwnInv, ClusterOK
<1>5. ServerURL(spec, own) \in Seq(Segment)
  BY <1>1, <1>4, ServerFacts
<1>6. spec \in AllSpecs
  BY <1>1 DEF AllSpecs
<1>7. Fetched(s) = [spec |-> spec, own |-> own, server |-> ServerURL(spec, own),
                    from |-> Asked(s), request |-> Request(spec)]
  BY DEF Fetched
<1> HIDE DEF m, spec, own
<1>8. Fetched(s) \in Entry
  BY <1>3, <1>4, <1>5, <1>6, <1>7 DEF Entry
<1> QED
  BY <1>1, <1>2, <1>7, <1>8 DEF EntryOK, m

\* The answer comes, or fails to (api_docs.go:155-177).
LEMMA GetOwn ==
    ASSUME OwnInv, NEW s \in Scrape, GetFails(s) \/ GetDoc(s)
    PROVE  OwnInv'
<1> DEFINE new == [scrape[s] EXCEPT !.at = "next", !.now = None]
<1>1. /\ scrape[s].at = "get"
      /\ UNCHANGED <<mapping, serves, changes, throttled, overlapped, previous, current, loop>>
  BY DEF GetFails, GetDoc, cluster, docsDiff
<1>2. scrape[s] \in AScrape /\ ScrapeOK(scrape[s])
  BY DEF OwnInv, ScrapesOK
<1>3. /\ new \in AScrape /\ new.left = scrape[s].left /\ new.at = "next"
      /\ new.snapshot = scrape[s].snapshot /\ new.old = scrape[s].old
  BY <1>2 DEF AScrape
<1>4. scrape' = [scrape EXCEPT ![s] = new]
  BY <1>2 DEF GetFails, GetDoc, OwnInv, ScrapesOK, AScrape
<1> HIDE DEF new
<1>5. ScrapeOK(new)
  BY <1>1, <1>2, <1>3 DEF ScrapeOK
<1>6. StoreOK'
  <2>1. CASE GetFails(s)
    BY <2>1 DEF GetFails, OwnInv, StoreOK
  <2>2. CASE GetDoc(s)
    <3>1. scrape[s].now \in Mapping /\ EntryOK(scrape[s].now, Fetched(s))
      BY <1>1, <2>2, FetchedOK DEF GetDoc
    <3>2. store' = [n \in DOMAIN store \cup {scrape[s].now} |->
                        IF n = scrape[s].now THEN Fetched(s) ELSE store[n]]
      BY <2>2 DEF GetDoc, Stored
    <3> QED
      BY <3>1, <3>2 DEF OwnInv, StoreOK
  <2> QED
    BY <2>1, <2>2
<1>7. previous' \subseteq Mapping /\ current' \subseteq Mapping
  BY <1>1 DEF OwnInv, LoopOK
<1> QED
  BY <1>1, <1>3, <1>4, <1>5, <1>6, <1>7, ScrapeGoesOn

\* The rest of the old references, or the end.
LEMMA FinishOwn ==
    ASSUME OwnInv, NEW s \in Scrape, Running(s), NEW old \in SUBSET Mapping, Finish(s, old),
           UNCHANGED <<mapping, serves, changes, throttled, overlapped>>,
           previous' \subseteq Mapping, current' \subseteq Mapping, StoreOK',
           scrape[s].at # "get"
    PROVE  OwnInv'
<1> DEFINE new == IF old = {} THEN Free ELSE [scrape[s] EXCEPT !.at = "delete", !.old = old]
<1>1. scrape[s] \in AScrape /\ ScrapeOK(scrape[s])
  BY DEF OwnInv, ScrapesOK
<1>2. scrape' = [scrape EXCEPT ![s] = new] /\ loop' = IF old = {} /\ loop = s THEN "idle" ELSE loop
  BY <1>1 DEF Finish, OwnInv, ScrapesOK
<1>3. CASE old = {}
  <2>1. ScrapeOK(new)
    BY <1>3, FreeOK
  <2> HIDE DEF new
  <2> QED
    BY <1>2, <1>3, <2>1, ScrapeGoesOn
<1>4. CASE old # {}
  <2>1. /\ new \in AScrape /\ new.left = scrape[s].left /\ new.at = "delete"
        /\ new.snapshot = scrape[s].snapshot /\ new.old = old
    BY <1>1, <1>4 DEF AScrape
  <2> HIDE DEF new
  <2>2. ScrapeOK(new)
    BY <1>1, <1>4, <2>1 DEF ScrapeOK
  <2> QED
    BY <1>2, <1>4, <2>1, <2>2, ScrapeGoesOn
<1> QED
  BY <1>3, <1>4

\* The round ends (api_docs.go:479-492).
LEMMA NewRoundOwn ==
    ASSUME OwnInv, NEW s \in Scrape, NewRound(s)
    PROVE  OwnInv'
<1>1. /\ scrape[s].at = "next" /\ Finish(s, previous \ current)
      /\ previous' = current /\ current' = {}
      /\ UNCHANGED <<mapping, serves, changes, throttled, overlapped, store>>
  BY DEF NewRound, cluster
<1>2. /\ previous \ current \in SUBSET Mapping /\ previous' \subseteq Mapping
      /\ current' \subseteq Mapping /\ StoreOK'
  BY <1>1 DEF OwnInv, LoopOK, StoreOK
<1> QED
  BY <1>1, <1>2, FinishOwn DEF Running

\* An old reference's document is deleted.
LEMMA DeleteOldOwn ==
    ASSUME OwnInv, NEW s \in Scrape, NEW m \in Mapping, DeleteOld(s, m)
    PROVE  OwnInv'
<1>1. /\ scrape[s].at = "delete" /\ Finish(s, scrape[s].old \ {m})
      /\ store' = [n \in DOMAIN store \ {m} |-> store[n]]
      /\ UNCHANGED <<mapping, serves, changes, throttled, overlapped, previous, current>>
  BY DEF DeleteOld, cluster, docsDiff
<1>2. scrape[s] \in AScrape
  BY DEF OwnInv, ScrapesOK
<1>3. /\ scrape[s].old \ {m} \in SUBSET Mapping
      /\ previous' \subseteq Mapping /\ current' \subseteq Mapping
  BY <1>1, <1>2 DEF OwnInv, LoopOK, AScrape
<1>4. StoreOK'
  BY <1>1 DEF OwnInv, StoreOK
<1> QED
  BY <1>1, <1>3, <1>4, FinishOwn DEF Running

\* The process begins again.
LEMMA DeathOwn == OwnInv /\ ProcessDies => OwnInv'
<1> SUFFICES ASSUME OwnInv, ProcessDies PROVE OwnInv'
  OBVIOUS
<1>1. ClusterOK'
  BY DEF ProcessDies, cluster, OwnInv, ClusterOK
<1>2. LoopOK' /\ StoreOK'
  BY APIDocsAssumption DEF ProcessDies, LoopOK, StoreOK
<1>3. ScrapesOK'
  BY FreeOK, FreeFacts DEF ProcessDies, ScrapesOK
<1> QED
  BY <1>1, <1>2, <1>3 DEF OwnInv

\* Every step keeps the invariant.
LEMMA OwnKept == OwnInv /\ [Next]_vars => OwnInv'
<1> SUFFICES ASSUME OwnInv, [Next]_vars PROVE OwnInv'
  OBVIOUS
<1>1. CASE UNCHANGED vars
  <2>1. UNCHANGED <<mapping, serves, changes, throttled, loop, previous, current, store, scrape, overlapped>>
    BY <1>1 DEF vars, cluster, docsDiff
  <2> QED
    BY <2>1 DEF OwnInv, ClusterOK, LoopOK, StoreOK, ScrapesOK, Running
<1>2. CASE Loop
  BY <1>2, SnapshotStarts DEF Loop
<1>3. ASSUME NEW s \in Scrape, ScrapeStep(s) PROVE OwnInv'
  BY <1>3, AddReferenceOwn, DeleteOldOwn, GetOwn, NewRoundOwn, DeathOwn DEF ScrapeStep, ServersPanic
<1>4. CASE MapRace
  BY <1>4, DeathOwn DEF MapRace
<1> QED
  BY <1>1, <1>2, <1>3, <1>4, ClusterChanges DEF Next

\* Scrapes work on the snapshots they were started with, whatever becomes of the
\* cluster, the loop waits for none that has ended, and what is stored are documents
\* services have answered with, published under well-formed paths
\* (api_docs.go:76-84, 119-178).
THEOREM DocsTypeCorrect == SafetySpec => []TypeOK
BY OwnInit, OwnKept, OwnTypes, PTL DEF SafetySpec

\* However scrapes overlap and mappings change under them, a mapping's document comes
\* from the service it names in its own namespace, asked for its host, and is
\* published under its host and prefix (api_docs.go:137-177, 261-289).
THEOREM DocumentsAreOwn == SafetySpec => []OwnDocument
BY OwnInit, OwnKept, OwnIsOwn, PTL DEF SafetySpec
=============================================================================
