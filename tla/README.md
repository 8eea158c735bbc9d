# A formal model of the ambassador agent

TLA+ modules, TLC configurations and TLAPS proofs about the agent in `src/`:
the process that runs in a cluster, takes snapshots of it and reports them to
the Director, from which it receives directives. Line numbers below are those of
`src/`; a file without a directory is in `src/pkg/agent/`.

## 1. Inventory

| Part | State it keeps | Operations | What makes it hard | Modelled in |
|---|---|---|---|---|
| Main loop (`agent.go`, `directive_handler.go`, `report.go`, `cluster.go`) | token, current connection, channel of directives, identity, emissary flag, pending report, two "running" flags, period, `reportingStopped` | `Watch`, `waitForAPIKey`, the select of `watch`, `ProcessSnapshot`, `ReportSnapshot`, `ReportDiagnostics`, `HandleDirective`, `ClearComm` | shares fields with the report goroutines without a lock; notices and reads race with changes of the cluster; cancellation anywhere | `Agent`, abstractly `ReportMailbox`; what `ProcessSnapshot` makes of the cluster in `Snapshot` |
| Connection (`comm.go`) | retrieve stream, `directives` (capacity 1), `rptWake` (capacity 1), cancel function | `NewComm`, `retrieveLoop`, `retrieve`, `Report`, `StreamDiagnostics`, `Close` | broken streams, blocked sends, wake-ups while busy, close at any time, chunk boundaries | `RPCComm`, abstractly `DirectiveChannel` |
| Core, fallback and ingress watchers (`watchers/`) | informers' caches, the ingress API chosen | `LoadSnapshot`, `EnsureStarted`, `Cancel`, conversions | six lists that fail one by one, two sources of a snapshot, caches that lag | `Snapshot` |
| Configuration and emissary watchers (`config_watchers.go`, `emissary_watcher.go`) | caches, a condition variable with one-place subscriptions | `Get`, `List`, notices | a notice can precede the subscription, a read can fail | partly: actions of `Agent` and `Snapshot` |
| API documents (`api_docs.go`) | `docsDiff` (previous and current references), the store, earliest next run | `ProcessSnapshot`, `scrape`, `add`, `newRound`, `deleteOld` | overlapping asynchronous scrapes share `docsDiff` without a lock | `APIDocs` |
| Secret sync (`secrets.go`) | none of its own; the secret | `syncSecret` | up to three calls, other writers, failures in between | `SecretSync`, run by `Commands` |
| Rollout command (`rollouts.go`) | none of its own; the rollout | `patchRollout`, `applyStatusPatch` | two patches, a fallback, failures in between | `RolloutCommand`, run by `Commands` |
| Argo watch (`agent.go:335-466`, `k8s.go`, `argo.go`) | cancel functions, one `DynamicClient` (mutex, `done`), callback channels, stores | `argoWatch`, `WatchGeneric`, `sendCallback`, `FromCallback`, `StateOfWorld` | shared `done`, blocking send under a mutex, a closed channel, stale stores | `ArgoWatch` |
| Leader election, life cycle (`src/cmd/main.go`) | the lease, `watchCancel` | acquire, renew, lose, release on cancel, return | leaders overlapping, work that outlives the lease | `LeaderElection` |
| Environment (`env.go`, `comm.go:44-67`) | constants | parsing | the period's lower bound, splitting of namespaces | partly: assumptions of `Agent`, `splitTrim` of `Snapshot` |
| Own gRPC service (`service.go`), store of Kubernetes objects (`store.go`), generated API, chart, tools | - | - | - | no (section 7) |

How they interact. The loop owns everything; a report goroutine reads the field
`a.comm` when it gets to run and clears its flag when it is done; the retriever
of a connection talks to the loop through `directives`, and a report wakes it
through `rptWake`; the watchers wake the loop through two subscriptions and are
read by it; the argo goroutines replace two pointers under `argoLock`; the loop
hands each snapshot to the API documents and reads their store; commands in
directives call Kubernetes in the loop's own goroutine; `Watch` lives inside the
leadership of its replica, and the process dies with it.

What makes each part correct: the connection matches the token and none leaks;
reports neither overlap, queue up nor come too fast, and go on as long as they
should; directives arrive in order and once; a report holds what the cluster has
and nothing that is to be filtered; a change of configuration is followed in the
end; a cancelled `Watch` returns; the stores follow the cluster; a document is
published under its own mapping's prefix and leaves with it; a command that reports
success has done what it says and harmed nothing else; one replica at a time
leads, and some replica leads again and again.

## 2. Modules

### The agent and its connection

`Agent.tla` is the core. `pc` is the place of the main goroutine: `start`
(before the first subscription), `readKey`, `readMap` and `waitKey`
(`waitForAPIKey`), `detect` and `subscribe` (`Watch`, lines 328-329), `select`, from
there `getMap` where a notice has the token read again, and then `process`,
`connect`, `report`, `diagnose` (lines 514-547, 549-564, 566-574, 576-590);
`stopped` after `watch` returns and `down` while there is no process. One
stretch of the loop between two places where another goroutine's effect can be
told is one action. In particular the report goroutine does `Dereference` (it
reads `a.comm` late, agent.go:621 and 665), `SendReturns` (the RPC, whatever its
result), `Wake` (sleep over, flag cleared). A token is read in two actions, the
secret (`SecretFound`, `SecretMissing`) and then, where there was none, the config map
(`ReadConfigMap`), and the cluster may change in between. A directive's period is any
integer or missing, and `Converted` wraps it around the way
directive_handler.go:36-42 does, within `LongestDuration`, which stands for
the largest value of an int64.

| State of `Agent` | In the code |
|---|---|
| `secret`, `configMap`, `endpoint` | what the watchers' caches would return |
| `configCh`, `ambCh` | a notice waits in the channel of `k8sapi.Subscribe` |
| `apiKey`, `comm`, `newDirective`, `agentID`, `emissaryPresent` | the fields of `Agent` with these names (`AmbassadorAPIKey` for `apiKey`) |
| `reportToSend` | the pending report; only its identity is kept |
| `reportingStopped`, `minReportPeriod`, `lastDirective` | set by directives |
| `running` | the kinds whose atomic flag (`reportRunning`, `diagnosticsReportRunning`) is set |
| `sender` | the report goroutines: stage, kind, connection, captured delay |
| `comms` | the `RPCComm` objects: open, closing (cancelled, retriever not yet gone), closed; key and identity they were made with; the directive held by the retriever and the one in the channel |

`RPCComm.tla` is one connection in full: the stream as a sequence, the held
directive, the channel, `rptWake`, the parent context, `Close`, and the report
calls with their chunks. `DirectiveChannel.tla` states what such a connection
promises, and `ReportMailbox.tla` what the reporting layer promises
(doc.go:118-131): a one-place mailbox with a single sender that rests after each
report. `RPCComm` and `Agent` both implement `DirectiveChannel`
(`ImplementsChannel`, `KeepsChannel`), so the small picture of a connection that
`Agent` composes is the same contract the detailed module keeps. `Agent`
implements `ReportMailbox` (`ImplementsMailbox`).

### What a report is made of

`Snapshot.tla` follows one snapshot from the cluster to the report. Two of its
parts interact: caches that follow the cluster on their own (those of the fallback
only while there is no Emissary), and the loop that takes Emissary's snapshot or
an empty one and fills it list by list.

| State of `Snapshot` | In the code |
|---|---|
| `world`, `apis`, `emissary` | the cluster; the APIs that serve ingresses; whether Emissary answers and with whose snapshot |
| `ingressApi`, `offered` | the watcher `NewAgent` chose, once, and from what |
| `emissaryPresent`, `ambCh` | as in `Agent` |
| `cache` | of each kind, whether its informer runs and what it holds |
| `snapshot`, `report` | the one under construction with the kinds still to load; the last one reported |

`ArgoWatch.tla` is the watch of Argo's two kinds of resources, from the cluster's
objects to what a snapshot reports of them. A watch is named by its kind and its
number, for a definition that goes and comes back gets a new watch while the old
one's goroutines may still be there.

| State of `ArgoWatch` | In the code |
|---|---|
| `present`, `world` | the definitions discovery would list, the objects of each kind (name, uid, revision) |
| `manager`, `current` | `argoWatch` still loops; `cancelRolloutWatch` and `cancelApplicationWatch` |
| `watch` | started, context cancelled, callback channel closed |
| `informer` | disconnected, synced or stopped; its cache, the events queued for its handlers, the callback a handler is about to send or is sending |
| `mux`, `done` | the fields of the one `DynamicClient`; `mux` names the handler that is blocked in the send |
| `consumer` | the goroutine of `argoRolloutWatch` / `argoApplicationWatch` (at the select, in `FromCallback`, at `argoLock`) and its store's `sotw` |
| `published`, `reading` | `a.rolloutStore`, `a.applicationStore`; the store the loop iterates over with `argoLock` held |

Two kinds share no code but the client, so both are instances of the same actions.
`List` is the informer's first list and every one after a lost connection, where an
object that was replaced under its name is an update (client-go compares by name);
`Announce` puts the events of a change of the list into the informers' queues, in any
order. `Outcome` says what is left of a store when a sequence of callbacks has been
applied to it: of each uid what the last callback about it says, and what was there
where none is. `Replay` is the outcome of the callbacks on their way.
`MapRace` is the runtime noticing that `FromCallback` writes the map the loop
iterates over: it ends the process.

`APIDocs.tla` is the store of API documents: `ProcessSnapshot` starts at most one
scrape a minute, in the loop itself while the store is empty and in a goroutine
of its own otherwise; a scrape adds one reference at a time to the shared
`docsDiff`, fetches one document at a time, and at its end deletes one stale
reference at a time. `Backend`, `Request` and `ServerURL` say who is asked, as
whose caller, and what is published of the answer; `ServersPanic` and `MapRace`
are the two ways for a scrape to end the process.

| State of `APIDocs` | In the code |
|---|---|
| `mapping`, `serves` | the mappings of the cluster and what their services answer |
| `throttled` | the time is before `DontProcessSnapshotBeforeTime` |
| `loop` | the scrape that the loop runs itself |
| `previous`, `current`, `store` | the fields of `docsDiff`; `inMemoryStore.entries` |
| `scrape` | the scrapes: the snapshot each works on, what it has left, the mapping being asked, references to delete |

### Commands

`Commands.tla` runs the commands of a directive one after the other and reports
each one's result; a command is a `SecretSync.tla` or a `RolloutCommand.tla`, both
instances over the shared cluster and the same bounds. Each call to the
Kubernetes API is an action of its own; between two of them others write, and each
may fail with or without having had its effect. The process may die at any time,
and nothing remembers the directive.

| State | In the code |
|---|---|
| `todo`, `received`, `results` | the loop over `directive.Commands`; calls of `ReportCommandResult` |
| `secret`, `sync` | the cluster's secret; the local variables of `syncSecret` |
| `rollout`, `subresource`, `patching` | the cluster's rollout; whether its definition has a status subresource; where `patchRollout` is |
| `stable`, `quiet`, `did`, `died` | history: keys seen by Get that nobody has written since, whether anything disturbed the command, the patches that took effect, directives lost |

### Life cycle

`LeaderElection.tla` is `main` of every replica around client-go's elector: one
lease that ages, writes that are answered late or not at all, the goroutine that
starts `Watch`, release, cancellation, the end of the process, its restart, and a
cluster where leases are forbidden (main.go:76-103). Time is in ticks of a common
clock.

### Modules for TLC and for proofs

`MCAgent`, `MCArgoWatch`, `MCAPIDocs`, `MCCommands`, `MCLeaderElection` and
`MCSnapshot` give the constants values; `AgentProofs`, `RPCCommProofs`,
`ArgoWatchProofs`, `ArgoStoreProofs`, `SnapshotProofs`, `APIDocsProofs`,
`CommandsProofs` and `LeaderElectionProofs` hold the proofs.

Simplifications, all of them in the direction of more behaviours: in `Agent` a
snapshot may carry any identity, be missing or fail; an RPC may end at any time; a
race on `a.comm` yields nil or the value of some moment of the read; in `SecretSync`
and `RolloutCommand` others write anything. Left out: the token a report goroutine
captures, the result channel nobody reads, nil directives (a channel that is never
closed does not yield them), display names and bodies of documents, and the
contents of reports outside `Snapshot`.

Assumptions about libraries: `k8sapi.Subscribe` is waiting on its condition
variable when it returns, and a subscription holds one notice however many
changes there were; a condition variable keeps nothing for a later subscriber; a
JSON patch is applied as a whole or not at all; the clocks of replicas run at one
speed, and a renewal is answered within `MaxLatency`, where that, the retry period
and the renew deadline together are less than the lease (8 + 40 < 60 seconds,
main.go:125-127, leaves twelve for the answer).

## 3. Runs

| Run | Bounds | What it shows |
|---|---|---|
| `rpccomm` | 4 directives sent, 2 in the stream, reports of 4 or 5 bytes in chunks of 2 | order, nothing lost while the stream is sound, closing ends the retriever, a report restarts it, the contract `DirectiveChannel`; the chunks are all of the report. Four directives fill taken, channel, retriever and stream at once; 4 is a multiple of the chunk, 5 is one more. |
| `safety` | 2 tokens, 2 connections, 2 report goroutines, 1 change, 1 failed read, 2 directives (an order to stop with a negative period, or a command with a period too long for a duration), diagnostics allowed | the safety invariants and `StopObeyed`. Two connections are an old one that a report goroutine or `newDirective` still refers to and a new one; with these bounds a third would never be used. The long period wraps around to a negative one; a failed read acts as a further change of token; the second directive follows the first, on the same connection or the next; deaths and restarts are unbounded. |
| `live` | 1 token, at first only in the secret, 2 changes, 1 order to stop, 2 connections, no failed read | convergence to the configured token whatever changes between its two reads, end of a cancelled `Watch`, a ready report is sent, the report mailbox; and each connection keeps its contract, also when its name is used for a second one. Two changes let a token disappear and come back. |
| `argo` | one object name, 3 changes of rollouts and their definition, 1 fault (removal, lost connection, end of `argoWatch`, crash), 2 watches of a kind | no send on a closed channel, one live watch of a kind, and a store plus the callbacks on their way always make up the informer's cache. Three changes replace an object under its name; two watches let an old one still end while the new one runs. |
| `argo_live` | objects of one kind only, 2 changes, 1 fault, 1 watch of a kind | a cancelled watch's consumer ends, and what is reported follows the cluster as long as no watch is cancelled. The other kind's watch exists and can be cancelled, which is what matters to the shared client. |
| `apidocs` | 2 mappings whose services share a name, 2 scrapes, any initial cluster, 1 change | no mapping gets another's document or prefix, a scrape drops nothing it has just seen, documents arrive and leave. Two scrapes overlap in every order; two mappings let one be dropped while the other is added. |
| `commands` | 1 directive out of six lists of two or three commands, 2 keys, 2 values, 2 changes by others, 1 failed call, any initial secret and rollout | success means done, other keys survive, an undisturbed command does all of its work, a resume does both its halves, every usable command is answered. Two changes can delete and make a rollout again between two calls. |
| `leader` | 2 replicas, periods of 1, 2 and 5 ticks, latency of 1, 1 crash or termination | a leader's lease is never over, whoever watches without leading is stopping and does stop, someone watches again and again. |
| `snapshot` | objects in three namespaces (no config maps, which are loaded as deployments are), four shapes of ingress, 2 changes, 1 failed call or crash | nothing that is filtered is reported, whatever the source; the report becomes that of the cluster, services and ingresses of kube-system not compared (section 6). |

Runs that refute what a comment says (section 6): `report_no_comm`, `never_resumes`,
`two_watch`.

The bounds on counters are `MaxChanges`, `MaxDirectives`, `MaxGetErrors`
(`Agent`), `MaxSent`, `MaxInFlight` (`RPCComm`), `MaxChanges`, `MaxFaults`,
`MaxWatches` (`ArgoWatch`), `MaxChanges` (`APIDocs`), `MaxDirectives`,
`MaxChanges`, `MaxFaults` (`Commands`), `MaxFaults`, `MaxLatency`
(`LeaderElection`), `MaxChanges`, `MaxFaults` (`Snapshot`). `Slot`, `CommId` and
`Scrape` bound the goroutines and connections that exist at once; a connection
nothing refers to gives its name back (`Collectable`). Tokens, goroutines,
connections and identities are interchangeable: `Names` is a symmetry set, used by
runs without liveness only. `CHECK_DEADLOCK FALSE` stands where everything may
really end: `argoWatch` returns, there is no mapping and nothing stored, or the
bounds leave no further directive.

Each property of a passing run has a mutant in `PROJECT.json`: a `Faulty:`
definition beside the original that violates it.

Fairness, and why the code justifies it:

* `Agent`: `WF(MainLoop)`, `WF(Sender)`, for a goroutine that can run does, and
  every RPC, read of the cluster, HTTP request and sleep ends (http.Get has no
  timeout, so an Emissary that never answers is outside these runs). `SF` on the
  select's `ctx.Done` and notice cases: Go chooses a ready case uniformly at random,
  so one that is ready at every round is chosen in the end. `WF` on a retriever's
  delivery and exit. `Restart` is fair because the Deployment restarts the
  container. `ReadyIsSent` states its own condition, `Reachable`: dialling the
  Director succeeds if it is tried again and again. It asks nothing of snapshots,
  for it speaks of a report that is ready. No fairness is assumed of the cluster, of
  the Director or of cancellation.
* `ArgoWatch`: `SF` on handlers, the closing goroutine and the consumer stands for
  a Go mutex, which is handed to a waiter that has waited long, and again for the
  random choice of a select.
* `APIDocs`: a minute passes (`WF`), every request ends within its ten seconds
  (`WF` on a scrape's steps), and `SF(Loop)`: snapshots go on, and when two
  scrapes are under way the bound, not the code, keeps the loop from a third.
* `Commands`: `WF(Handler)`, for calls to the API server and the Director end.
* `LeaderElection`: time, main goroutines and the elector go on; `SF` on the
  attempt of a candidate and on answers: a candidate tries again for ever, and not
  every request is lost.
* `Snapshot`: `WF` on the loop and on each informer's delivery, `SF` on the notice
  case of the select.

## 4. Proofs

All theorems are for all values of the constants that satisfy the assumptions
named in the modules; TLC evaluates these in every run. Every invariant of a passing
run is a theorem.

`Agent` (an empty token is no token, None is none of the values, the environment's
period is an integer or missing, a directive's period is any integer or missing,
and the default period is a duration):

| Theorem | States | Along |
|---|---|---|
| `TypeCorrect` | `[]TypeOK` | induction over the actions; `TypeOK` is inductive |
| `OneConnection` | `[]CommMatchesKey` | `ConnInv`: this, `NoLeakedConnection`, `TypeOK`, and that the loop is past the check of the token only with one (`HasKey`), without which a connection could be made with no token |
| `NoneLeaks` | `[]NoLeakedConnection` | `ConnInv` again: the connection that is forgotten when the token changes is the one that is closed, because no other is open |
| `SingleFlightHolds` | `[]SingleFlight` | `SenderInv`: flags and goroutines match, which needs both directions to be inductive |
| `RateIsLimited` | `[](NoBacklog /\ RestsLongEnough)` | `SenderInv`: the current period is never below the default, so no captured one is; whatever the integer in a directive, negative ones and those that overflow included, its conversion is a duration (`ConvertedPeriod`) and then bounded from below |
| `StopObeyedHolds` | `StopObeyed` | `StopInv`: while the last directive is an order to stop, `reportingStopped` is set; one lemma per step |
| `MailboxImplemented` | every step is a step of `ReportMailbox` or stutters | `SenderInv` before and after the step, which makes `ReportPhase` a function of one goroutine |
| `ChannelsKept` | for every connection, each step of the agent is a step of `DirectiveChannel` or stutters (the safety part of `KeepsChannel`, which the run checks of one connection) | `TypeOK`; a step inside one object is a stutter of all the others, a new connection takes only a name nothing refers to any more (`Collectable`), and a change of the token closes the one in use, once |

`RPCComm` (sizes and the chunk are positive numbers):

| Theorem | States | Along |
|---|---|---|
| `ConnectionTypeCorrect` | `[]TypeOK` | `TypeOK` is inductive |
| `NothingIsLost` | `[]NothingLost` | `NothingLostInv`: what was taken, the channel, the retriever and the stream are one pipeline, which increases (`Ordered`), and is all that was sent while the stream lost nothing (`Complete`); the chunks so far cover the report up to the offset (`ChunksCover`) |
| `ChannelImplemented` | every step is a step of `DirectiveChannel` or stutters | `TypeOK`, one lemma per step |

`ArgoWatch` (None is no name, resource, watch, callback or store; the bounds are natural
numbers). The first two theorems are in `ArgoWatchProofs`, the others in
`ArgoStoreProofs`:

| Theorem | States | Along |
|---|---|---|
| `NeverSendsOnClosed` | `[]NoSendOnClosed` | `ClientInv`: a channel is closed only with `done` raised (`ClosedIsDone`), and a handler that is about to send holds the mutex, which the closing goroutine needs |
| `OneLiveWatch` | `[]OneWatch` | the same invariant |
| `ArgoTypeCorrect` | `[]TypeOK` | `StoreInv`, below |
| `StoresReplay` | `[]StoreReplays` | `StoreInv`: the equation itself for every watch that is not cancelled (`Replays`); a connected informer's cache is the cluster's list, of which no two objects share a name or a uid, and a uid is never used again (`ListsOK`), so that events about different objects commute; a handler that holds the mutex has a callback to send (`Sending`) |

The proof of `StoresReplay` rests on three laws of `Outcome`, proved for any store and
any callbacks: no callback leaves the store as it is (`OutcomeOfNone`), the outcome of a
sequence is that of its rest after its first has been applied (`OutcomeOfFirst`, which is
what `FromCallback` does), and the events of a move from one list to another lead to the
other in whatever order they come (`OutcomeOfEvents`). With them a step that passes a
callback on, from a queue to a handler, to the channel, to the consumer, to the store,
leaves the outcome alone, and a change of the list and its events change both sides
alike. The first callback brings the list the informer has by then, which may be newer
than the callback: the last law therefore allows the store that events are applied to to
have moved on already (`Follows`). It needs a move in which no object is replaced by
another of its name (`Moves`), which is what `missed` tells apart.

`Snapshot` (every object has a namespace, a kind, says whether what wrote it is
known, and pods have a phase; the cluster begins with such objects):

| Theorem | States | Along |
|---|---|---|
| `NothingUnwantedHolds` | `[]NothingUnwanted` | `SnapshotInv`: while a snapshot is filled, each list is as it should be or still to be loaded (`Filling`); what Emissary sent is replaced before it counts |
| `SnapshotTypeCorrect` | `[]TypeOK` | `TypeInv`: `SnapshotInv`, and that with Emissary there, a snapshot under construction has none of the fallback's lists to load (`FallbackRests`): loading one would start its informer again. Each list holds objects of its kind in the form they are reported in, from either source (`LoadLists`, `TheirLists`), also after a list that failed |

`APIDocs` (a mapping's prefix, host and document are made of segments, and the service
a usable mapping names is one of the services; no scrape is called "idle"):

| Theorem | States | Along |
|---|---|---|
| `OnlyOldDropped` | `DropsOnlyOld` | `DocsInv`: as long as scrapes did not overlap there is one at most (`Alone`), whatever it has gone through is in `current` (`Referenced`), so nothing of it is among the references to delete (`OnlyOld`) |
| `DocsTypeCorrect` | `[]TypeOK` | `OwnInv`, below |
| `DocumentsAreOwn` | `[]OwnDocument` | `OwnInv`: a scrape under way has only usable mappings, as one snapshot had them (`ScrapesOK`), and each document stored was asked for and published with one and the same of its mapping's specifications (`StoreOK`), however the mapping has changed since; that a server URL begins with host and prefix and ends with the document's path is `ServerFacts`, from lemmas about ends of sequences |

`Commands` (directives are sequences of commands; "no secret", "no rollout" and None
are none of the values):

| Theorem | States | Along |
|---|---|---|
| `CommandsTypeCorrect` | `[]TypeOK` | `CommandsInv`, below |
| `SecretDoneHolds` | `SecretDone` | `SyncOK`: which action can be at which call |
| `KeysSurvive` | `OthersKeysSurvive` | `StableOK`: a stable key is there, unless the command names it, and there is none where the root is inserted; `LeftOver`: an emptied secret had no other stable key |
| `UndisturbedHolds` | `Undisturbed` | `QuietOK`: what an undisturbed command knows of the secret at each call |
| `RolloutDoneHolds` | `RolloutDone` | `RolloutInv`: a resume gets to its status patch only with its spec patch done, and to the fallback only without rollout or subresource |

`LeaderElection` (`LeaseAssumption`: latency, retry period and renew deadline together
are less than the lease):

| Theorem | States | Along |
|---|---|---|
| `LeaseTypeCorrect` | `[]TypeOK` | `TypeOK` is inductive |
| `LeadsUnderLease` | `[]UnderLease` | `LeaseInv`: a write under way, and a leader's last one, are not overwritten, since the lease is younger than the time since then (`Recent`) |
| `OneLeader` | no two replicas lead | from `LeadsUnderLease`: the lease has one holder |

Only model-checked: all liveness (`KeyConverges`, `WatchEnds`, `ReadyIsSent`,
`CloseEndsRetriever`, `ReportRestartsRetrieve`, `ConsumersEnd`, `StoreFollows`,
`DocsArrive`, `DocsLeave`, `Answered`, `SomeoneWatches`, `StoppingStops`,
`ReportFollows`, and the fairness part of the three refinements), which is out of the
prover's reach. `splitTrim` of `Snapshot` is a fold, and what it computes for every value
of `NAMESPACES_TO_WATCH` would be induction over data; the theorems about `Snapshot` hold
whatever it gives.

## 5. Hazards and where they are covered

`PROJECT.json` lists every hazard at its line. Those with no property: what the
list says of each is a fact of the code and not a promise (the connection keeps the
identity it was opened with, `http.Get` has no timeout, a directive of a closed
connection is obeyed, a failed read counts as absence, a key written between Patch and
Delete goes with the emptied secret, a resume fails half way, a handler blocked in
its send keeps the mutex), or the modelled behaviour is that the promise does not
hold (section 6). The models contain these behaviours and the properties hold
in their presence; they do not exclude them.

## 6. What was found

Refuted by a run:

* `ReportHasComm` - agent.go:549 says no `ClearComm` comes between making sure of
  the connection and the report; the goroutine reads `a.comm` when it runs, and a
  token change handled in the next round may have cleared it: the process dies.
* `StoppedIsTold` - director.proto:126-127 says that a directive whose
  `stop_reporting` is false asks for snapshots; nothing ever calls `StartReporting`
  (agent.go:200), so after an order to stop such a directive changes nothing, and
  reports stay stopped until the process ends. `StopObeyed` therefore promises
  only what both agree on: no report from an order to stop to the next directive.
* `OneWatches` - main.go:118-123 says that code under the lease must end before
  the context is cancelled; with `ReleaseOnCancel` the lease is released first, then
  `Watch` is cancelled, and nobody waits for it: two replicas watch at a time.

Seen while modelling, without a run of their own.

The loop and its connection: `ClearComm` leaves `newDirective` on the closed
connection, and a command left there reports its result through a nil `a.comm`
(directive_handler.go:158, agent.go:788-789), also by an agent that has no token;
a failed read of a token counts as its absence, and the environment's key is
then used although agent.go:294-296 calls it the last resort (agent.go:304); the
endpoints are listed before the subscription to them, so a change in between is
never noticed (agent.go:328-329, 519-520); a report is made ready from every
snapshot, though agent.go:683-686 and doc.go:44-45, 118-120 and 141-142 say only
from one that differs from the report sent before: nothing compares them
(`ReadyIsSent` speaks of a report that is ready and `ReportFollows` of its contents,
so neither asks for repeated reports or forbids them); a change of identity does not close the connection that
carries the former one (agent.go:551-553, doc.go:152-154), and one may be opened
before any is known (doc.go:176-178, agent.go:554); a zero `min_report_period` sets
the default instead of keeping the period (director.proto:130-132,
directive_handler.go:43), and a directive may lower the period below
`AGENT_REPORTING_PERIOD`; a longer period does not extend a sleep that already
runs (agent.go:626); a report goroutine captures the token when it is started and
reads `a.comm` later (agent.go:620-636); an `RPC_CONNECTION_ADDRESS` without scheme
has no host name and silently means the cloud's default (comm.go:45-67).

Argo: the `done` flag of the shared client (k8s.go:104) is raised by the end of one
watch and stops the callbacks of the other kind and of watches started later,
which k8s.go:96-97 does not mean; a handler that is blocked in its send when the
consumer goes keeps the mutex for ever; an object replaced while the informer is
disconnected is an update with another uid, and the old one stays (argo.go:118,
21-23); the store of a removed definition stays published (agent.go:387); one
failed discovery ends `argoWatch` for good (agent.go:373); the deltas of the stores
grow and nobody reads them (argo.go:115).

API documents: an empty list of servers panics (api_docs.go:265); a host with a
port loses the prefix (261-263), and documents of a `url` their public host; the
reference is added before the document is fetched, unlike the comment at 478;
overlapping scrapes drop documents of present mappings and race on the unlocked
maps of `docsDiff`; the first scrape blocks the loop for up to ten seconds a
mapping.

Commands: an unsupported action on an absent secret reports success; the clean-up
after a patch deletes what another writer put there in between, and after its own
failure a repeated DELETE never succeeds; an inserted root replaces data written
since Get; a resume can fail half way; a rollout deleted and made again between
status and fallback is reported done without effect.

Snapshots: a rule without http, or a backend that is a resource, of a networking/v1
ingress panics again after each restart (ingress_watcher.go:90, 65); services and
ingresses of kube-system are reported although core_watchers.go:140-141 leaves
that namespace out, as does the default of `AGENT_WATCH_FIELD_SELECTOR`
(env.go:40-41), which nothing reads (`ReportFollows` does not compare them,
`Compared`); the ingress API is chosen once; a failed list is reported as
an empty one; a partially decoded snapshot of Emissary's is reported
(agent.go:237-240, 522); the kind of an endpoint is `Endpoint` (agent.go:835); the
modifiers write into the informer's cached objects; two spaces in
`NAMESPACES_TO_WATCH` watch the whole cluster.

Election: a renewal answered later than the assumption allows breaks exclusiveness;
the race on `watchCancel` does no harm; `os.Exit` may precede the release, after
which the lease has to run out.

## 7. Not modelled

* The agent's own gRPC service (`service.go`): never started, `main.go` has its
  goroutine commented out; `getClusterDomain` only serves it.
* `store.go`: used by nothing.
* The generated API of `src/pkg/api`, the chart, the tools, the version.
* Environment: errors of `LoadEnv` and the choice of the connection's address are
  string handling done once, before anything runs.
* The informers' caches behind the configuration and emissary watchers: `Agent`
  reads the cluster through them with any delay a notice may have.

## 8. Plan

Next would be the two hazards of stale reads that no property covers and that the
code could promise (a longer period and a running sleep, the identity of a
connection); more consequences of the invariants that are proved, such as what a
connection that is closing may still deliver, as action properties; and the composition
of `LeaderElection` with two instances of `Agent`, to ask what two that watch at a time
may send.
