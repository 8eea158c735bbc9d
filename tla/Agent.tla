------------------------------- MODULE Agent -------------------------------
(***************************************************************************)
(* The main goroutine of the ambassador agent (Agent.Watch and Agent.watch *)
(* in src/pkg/agent/agent.go), the report goroutines it starts, and its    *)
(* side of the connection to the Director.                                 *)
(*                                                                         *)
(* The loop waits for one event in a select, then runs straight through:   *)
(* process a snapshot, connect, report the snapshot, report diagnostics.   *)
(* Every stretch of the loop between two points where another goroutine    *)
(* can be seen to interfere is one action; pc names the next one.          *)
(*                                                                         *)
(* Other goroutines: the report goroutines (sender), the retriever of each *)
(* connection (comms), and the watchers of the cluster, which change what  *)
(* the loop will read and leave a notice in configCh or ambCh.             *)
(***************************************************************************)
EXTENDS Integers, FiniteSets

CONSTANTS
    Key,                  \* non-empty cloud connect tokens
    NoKey,                \* the empty token: the agent is off
    None,                 \* nil, or a resource that does not exist
    EnvKey,               \* CLOUD_CONNECT_TOKEN of the environment
    Identity,             \* identities a snapshot may carry
    Directive,            \* directives the Director may send
    DefaultMinReportPeriod, \* defaultMinReportPeriod, 30 s in the code
    AGENT_REPORTING_PERIOD, \* of the environment, None if empty
    LongestDuration,      \* the largest time.Duration
    DiagnosticsAllowed,   \* AES_REPORT_DIAGNOSTICS_TO_CLOUD
    Slot,                 \* report goroutines that may exist at once
    CommId,               \* RPCComm objects that may be referenced at once
    MaxChanges,           \* bound: changes of secret, config map, endpoint
    MaxDirectives,        \* bound: directives the Director sends
    MaxGetErrors          \* bound: failed reads of the cluster

ASSUME KeyAssumption ==
    NoKey \notin Key /\ None \notin Key \cup {NoKey} /\ EnvKey \in Key \cup {NoKey}

ASSUME DataAssumption ==
    /\ None \notin Identity
    /\ None \notin CommId
    /\ None \notin Int

\* Also a negative duration can be parsed.
ASSUME PeriodAssumption ==
    /\ LongestDuration \in Nat
    /\ DefaultMinReportPeriod \in 0 .. LongestDuration
    /\ AGENT_REPORTING_PERIOD \in Int \cup {None}

\* A protobuf duration is any integer, negative or too long for a time.Duration.
ASSUME DirectiveAssumption ==
    /\ Directive \subseteq [stop : BOOLEAN, period : Int \cup {None}, command : BOOLEAN]
    /\ None \notin Directive

ASSUME BoundAssumption ==
    /\ MaxChanges \in Nat /\ MaxDirectives \in Nat /\ MaxGetErrors \in Nat
    /\ DiagnosticsAllowed \in BOOLEAN

VARIABLES
    \* The cluster and what its watchers have left for the agent.
    secret,               \* token in the agent's Secret, None if there is none
    configMap,            \* token in the agent's ConfigMap, None if there is none
    endpoint,             \* does emissary's endpoint exist?
    configCh,             \* a notice of k8sapi.Subscribe waits in configCh
    ambCh,                \* a notice waits in ambCh
    changes,              \* cluster changes made so far
    getErrors,            \* reads of the cluster that failed so far
    \* The process.
    pc,                   \* where the main goroutine is
    ctxDone,              \* Watch's context is cancelled
    apiKey,               \* AmbassadorAPIKey
    comm,                 \* the current connection, None if nil
    newDirective,         \* the connection whose directives channel is read
    agentID,              \* identity of the last snapshot or diagnostics
    emissaryPresent,      \* take snapshots from emissary?
    reportToSend,         \* identity of the report ready to send, None if nil
    reportingStopped,     \* a directive stopped the reports
    minReportPeriod,      \* how long a report goroutine sleeps
    lastDirective,        \* lastDirectiveID
    running,              \* reportRunning, diagnosticsReportRunning
    sender,               \* the report goroutines
    comms,                \* the RPCComm objects
    issued                \* directives received so far

cluster == <<secret, configMap, endpoint, changes>>
notices == <<configCh, ambCh>>
identityVars == <<agentID, emissaryPresent, reportToSend>>
directed == <<reportingStopped, minReportPeriod, lastDirective>>
senders == <<running, sender>>
conn == <<comm, newDirective, comms, issued>>
vars == <<cluster, notices, getErrors, pc, ctxDone, apiKey, conn,
          identityVars, directed, senders>>

Kind == {"snapshot", "diagnostics"}
Token == Key \cup {NoKey}
Idle == [stage |-> "idle", kind |-> "snapshot", comm |-> None, delay |-> 0]
NewObject == [state |-> "unused", key |-> NoKey, identity |-> None,
              held |-> None, directive |-> None]

\* The select loop is reached after the subscription to ambCh.
Watching == {"select", "getMap", "process", "connect", "report", "diagnose"}
----------------------------------------------------------------------------
MaxDuration(a, b) == IF a > b THEN a ELSE b

\* The parser of report periods.
EnvReportPeriod ==
    IF AGENT_REPORTING_PERIOD = None THEN DefaultMinReportPeriod
    ELSE MaxDuration(DefaultMinReportPeriod, AGENT_REPORTING_PERIOD)

\* NewAgent and main: a process that starts has nothing but its environment.
ProcessInit ==
    /\ configCh = FALSE
    /\ ambCh = FALSE
    /\ ctxDone = FALSE
    /\ apiKey = EnvKey
    /\ comm = None
    /\ newDirective = None
    /\ agentID = None
    /\ emissaryPresent = FALSE
    /\ reportToSend = None
    /\ reportingStopped = FALSE
    /\ minReportPeriod = EnvReportPeriod
    /\ lastDirective = None
    /\ running = {}
    /\ sender = [s \in Slot |-> Idle]
    /\ comms = [c \in CommId |-> NewObject]

Init ==
    /\ secret \in Token \cup {None}
    /\ configMap \in Token \cup {None}
    /\ endpoint \in BOOLEAN
    /\ changes = 0
    /\ getErrors = 0
    /\ issued = 0
    /\ pc = "start"
    /\ ProcessInit
----------------------------------------------------------------------------
(* The cluster.  A change is seen by the watcher's cache and wakes whoever *)
(* is subscribed; a sync.Cond keeps nothing for a later subscriber, and a  *)
(* subscription holds one notice however many changes there were.          *)

ConfigChange ==
    /\ changes < MaxChanges
    /\ changes' = changes + 1
    /\ \/ /\ secret' \in (Token \cup {None}) \ {secret}
          /\ UNCHANGED configMap
       \/ /\ configMap' \in (Token \cup {None}) \ {configMap}
          /\ UNCHANGED secret
    /\ configCh' = (configCh \/ (pc \notin {"down", "start"} /\ ~ctxDone))
    /\ UNCHANGED <<endpoint, ambCh, getErrors, pc, ctxDone, apiKey, conn,
                   identityVars, directed, senders>>

EndpointChange ==
    /\ changes < MaxChanges
    /\ changes' = changes + 1
    /\ endpoint' = ~endpoint
    /\ ambCh' = (ambCh \/ (pc \in Watching /\ ~ctxDone))
    /\ UNCHANGED <<secret, configMap, configCh, getErrors, pc, ctxDone, apiKey,
                   conn, identityVars, directed, senders>>

\* The lease is lost or the process is told to stop: Watch's context ends.
Cancel ==
    /\ pc # "down"
    /\ ~ctxDone
    /\ ctxDone' = TRUE
    /\ UNCHANGED <<cluster, notices, getErrors, pc, apiKey, conn, identityVars,
                   directed, senders>>
----------------------------------------------------------------------------
(* Death of the process takes every goroutine and connection with it.      *)

Die ==
    /\ pc' = "down"
    /\ configCh' = FALSE
    /\ ambCh' = FALSE
    /\ ctxDone' = FALSE
    /\ apiKey' = EnvKey
    /\ comm' = None
    /\ newDirective' = None
    /\ agentID' = None
    /\ emissaryPresent' = FALSE
    /\ reportToSend' = None
    /\ reportingStopped' = FALSE
    /\ minReportPeriod' = EnvReportPeriod
    /\ lastDirective' = None
    /\ running' = {}
    /\ sender' = [s \in Slot |-> Idle]
    /\ comms' = [c \in CommId |-> NewObject]

\* main returns, the container is killed, or a goroutine panics elsewhere.
Killed ==
    /\ pc # "down"
    /\ Die
    /\ UNCHANGED <<cluster, getErrors, issued>>

\* The Deployment starts the container again.
Restart ==
    /\ pc = "down"
    /\ pc' = "start"
    /\ UNCHANGED <<cluster, notices, getErrors, ctxDone, apiKey, conn,
                   identityVars, directed, senders>>
----------------------------------------------------------------------------
(* The cloud connect token and the current connection.                     *)

\* The secret is preferred to the config map, that to the environment.
ConfiguredKey ==
    IF secret # None THEN secret ELSE IF configMap # None THEN configMap ELSE EnvKey

\* Faulty: the connection is forgotten but not closed.
ClearCommKeepsOpen == comm' = None /\ UNCHANGED comms

ClearComm ==
    /\ comm' = None
    /\ comms' = [c \in CommId |->
                    IF c = comm /\ comms[c].state = "open"
                    THEN [comms[c] EXCEPT !.state = "closing"]
                    ELSE comms[c]]

\* Faulty: the connection is kept when the token changes.
maybeResetCommKeepsComm(newKey) == apiKey' = newKey /\ UNCHANGED <<comm, comms>>

\* Faulty: the agent cannot be turned off.
maybeResetCommKeepsKey(newKey) ==
    IF newKey \in {apiKey, NoKey} THEN UNCHANGED <<apiKey, comm, comms>>
    ELSE apiKey' = newKey /\ ClearComm

maybeResetComm(newKey) ==
    /\ apiKey' = newKey
    /\ IF newKey # apiKey THEN ClearComm ELSE UNCHANGED <<comm, comms>>

ReadFails == getErrors < MaxGetErrors /\ getErrors' = getErrors + 1

\* handleAPIKeyConfigChange makes two reads, and the cluster may change between
\* them; one that fails is taken for a resource that does not exist.
SecretFound ==
    /\ secret # None
    /\ maybeResetComm(secret)
    /\ UNCHANGED getErrors

SecretMissing ==
    /\ (secret = None /\ UNCHANGED getErrors) \/ ReadFails
    /\ UNCHANGED <<apiKey, comm, comms>>

ReadConfigMap ==
    \/ configMap # None /\ maybeResetComm(configMap) /\ UNCHANGED getErrors
    \/ /\ (configMap = None /\ UNCHANGED getErrors) \/ ReadFails
       /\ maybeResetComm(EnvKey)

\* A list that fails makes the agent act as though standalone.
handleAmbassadorEndpointChange ==
    \/ emissaryPresent' = endpoint /\ UNCHANGED getErrors
    \/ emissaryPresent' = FALSE /\ ReadFails
----------------------------------------------------------------------------
(* Watch: subscribe, wait for a token, look for emissary, subscribe again. *)

SubscribeConfig ==
    /\ pc = "start"
    /\ pc' = "readKey"
    /\ UNCHANGED <<cluster, notices, getErrors, ctxDone, apiKey, conn,
                   identityVars, directed, senders>>

AfterRead == IF apiKey' = NoKey THEN "waitKey" ELSE "detect"

\* waitForAPIKey; its one-minute timeout only writes to the log.
waitForAPIKey ==
    /\ \/ /\ \/ pc = "readKey" /\ UNCHANGED configCh
             \/ pc = "waitKey" /\ configCh /\ configCh' = FALSE
          /\ \/ SecretFound /\ pc' = AfterRead
             \/ SecretMissing /\ pc' = "readMap"
       \/ /\ pc = "readMap"
          /\ UNCHANGED configCh
          /\ ReadConfigMap
          /\ pc' = AfterRead
    /\ UNCHANGED <<cluster, ambCh, ctxDone, newDirective, issued, identityVars,
                   directed, senders>>

\* Faulty: a cancelled context does not end the wait.
GiveUpWaitingNever == pc = "waitKey" /\ ctxDone /\ UNCHANGED vars

GiveUpWaiting ==
    /\ pc = "waitKey"
    /\ ctxDone
    /\ pc' = "detect"
    /\ UNCHANGED <<cluster, notices, getErrors, ctxDone, apiKey, conn,
                   identityVars, directed, senders>>

DetectEmissary ==
    /\ pc = "detect"
    /\ handleAmbassadorEndpointChange
    /\ pc' = "subscribe"
    /\ UNCHANGED <<cluster, notices, ctxDone, apiKey, conn, agentID,
                   reportToSend, directed, senders>>

SubscribeAmbassador ==
    /\ pc = "subscribe"
    /\ pc' = "select"
    /\ UNCHANGED <<cluster, notices, getErrors, ctxDone, apiKey, conn,
                   identityVars, directed, senders>>
----------------------------------------------------------------------------
(* watch: the select.  Any ready case may be the one chosen.               *)

WatchReturns ==
    /\ pc = "select"
    /\ ctxDone
    /\ pc' = "stopped"
    /\ UNCHANGED <<cluster, notices, getErrors, ctxDone, apiKey, conn,
                   identityVars, directed, senders>>

Tick ==
    /\ pc = "select"
    /\ pc' = "process"
    /\ UNCHANGED <<cluster, notices, getErrors, ctxDone, apiKey, conn,
                   identityVars, directed, senders>>

ConfigNotice ==
    /\ pc = "select"
    /\ configCh
    /\ configCh' = FALSE
    /\ \/ SecretFound /\ pc' = "process"
       \/ SecretMissing /\ pc' = "getMap"
    /\ UNCHANGED <<cluster, ambCh, ctxDone, newDirective, issued, identityVars,
                   directed, senders>>

ConfigMapRead ==
    /\ pc = "getMap"
    /\ ReadConfigMap
    /\ pc' = "process"
    /\ UNCHANGED <<cluster, notices, ctxDone, newDirective, issued, identityVars,
                   directed, senders>>

AmbassadorNotice ==
    /\ pc = "select"
    /\ ambCh
    /\ ambCh' = FALSE
    /\ handleAmbassadorEndpointChange
    /\ pc' = "process"
    /\ UNCHANGED <<cluster, configCh, ctxDone, apiKey, conn, agentID,
                   reportToSend, directed, senders>>

StopReporting == reportingStopped' = TRUE

SetMinReportPeriod(dur) == minReportPeriod' = dur

SetLastDirectiveID(d) == lastDirective' = d

\* A protobuf duration as a time.Duration: what is too long wraps around.
Converted(period) ==
    ((period + LongestDuration + 1) % (2 * (LongestDuration + 1))) - LongestDuration - 1

\* Faulty: the period is not raised to the default.
SetFlowUnbounded(d) ==
    /\ IF d.stop THEN StopReporting ELSE UNCHANGED reportingStopped
    /\ IF d.period = None THEN UNCHANGED minReportPeriod
       ELSE SetMinReportPeriod(Converted(d.period))

\* Faulty: the period is raised to the default before it is converted.
SetFlowConvertsLast(d) ==
    /\ IF d.stop THEN StopReporting ELSE UNCHANGED reportingStopped
    /\ IF d.period = None THEN UNCHANGED minReportPeriod
       ELSE SetMinReportPeriod(Converted(MaxDuration(d.period, DefaultMinReportPeriod)))

\* The effect of a directive's flow control fields.
SetFlow(d) ==
    /\ IF d.stop THEN StopReporting ELSE UNCHANGED reportingStopped
    /\ IF d.period = None THEN UNCHANGED minReportPeriod
       ELSE SetMinReportPeriod(MaxDuration(Converted(d.period), DefaultMinReportPeriod))

\* The next directive comes from the channel of newDirective.
TakeDirective ==
    /\ pc = "select"
    /\ newDirective # None
    /\ comms[newDirective].directive # None

\* Commands run and report their result here, in the loop's goroutine.
HandleDirective ==
    /\ TakeDirective
    /\ LET d == comms[newDirective].directive
       IN  /\ d.command => comm # None
           /\ SetFlow(d)
           /\ SetLastDirectiveID(d)
    /\ comms' = [comms EXCEPT ![newDirective].directive = None]
    /\ pc' = "process"
    /\ UNCHANGED <<cluster, notices, getErrors, ctxDone, apiKey, comm,
                   newDirective, issued, identityVars, senders>>

\* reportCommandResult calls a method of a nil a.comm.
CommandPanics ==
    /\ TakeDirective
    /\ comms[newDirective].directive.command
    /\ comm = None
    /\ Die
    /\ UNCHANGED <<cluster, getErrors, issued>>
----------------------------------------------------------------------------
(* watch: after the select.                                                *)

\* The snapshot is fetched or made unless a report runs or rests.
\* In standalone mode it always has an identity; emissary's may fail, or have none.
\* A snapshot that cannot be sanitized or marshalled leaves reportToSend alone.
ProcessSnapshot ==
    /\ ~reportingStopped
    /\ "snapshot" \notin running
    /\ \/ /\ emissaryPresent
          /\ UNCHANGED <<agentID, reportToSend>>
       \/ \E id \in Identity :
            /\ agentID' = id
            /\ reportToSend' \in {id, reportToSend}

Process ==
    /\ pc = "process"
    /\ \/ ProcessSnapshot
       \/ /\ reportingStopped \/ "snapshot" \in running
          /\ UNCHANGED <<agentID, reportToSend>>
    /\ pc' = IF apiKey = NoKey THEN "select" ELSE "connect"
    /\ UNCHANGED <<cluster, notices, getErrors, ctxDone, apiKey, conn,
                   emissaryPresent, directed, senders>>

AlreadyConnected ==
    /\ pc = "connect"
    /\ comm # None
    /\ pc' = "report"
    /\ UNCHANGED <<cluster, notices, getErrors, ctxDone, apiKey, conn,
                   identityVars, directed, senders>>

\* Nothing refers to the object any more, so its name may stand for a new one.
Collectable(c) ==
    /\ comms[c].state \in {"unused", "closed"}
    /\ c # comm
    /\ c # newDirective
    /\ \A s \in Slot : sender[s].comm # c

NewComm ==
    /\ pc = "connect"
    /\ comm = None
    /\ \E c \in CommId :
        /\ Collectable(c)
        /\ comms' = [comms EXCEPT ![c] =
                        [state |-> "open", key |-> apiKey, identity |-> agentID,
                         held |-> None, directive |-> None]]
        /\ comm' = c
        /\ newDirective' = c
    /\ pc' = "report"
    /\ UNCHANGED <<cluster, notices, getErrors, ctxDone, apiKey, issued,
                   identityVars, directed, senders>>

\* Faulty: an error of NewComm ends the loop.
DialFailsForGood ==
    /\ pc = "connect"
    /\ comm = None
    /\ pc' = "stopped"
    /\ UNCHANGED <<cluster, notices, getErrors, ctxDone, apiKey, conn,
                   identityVars, directed, senders>>

DialFails ==
    /\ pc = "connect"
    /\ comm = None
    /\ pc' = "select"
    /\ UNCHANGED <<cluster, notices, getErrors, ctxDone, apiKey, conn,
                   identityVars, directed, senders>>

\* Start a report goroutine; it captures the delay now, the connection later.
Spawn(kind) ==
    /\ running' = running \cup {kind}
    /\ \E s \in Slot :
        /\ sender[s].stage = "idle"
        /\ sender' = [sender EXCEPT ![s] =
                        [stage |-> "spawned", kind |-> kind, comm |-> None,
                         delay |-> minReportPeriod]]

ReportSnapshot ==
    /\ Spawn("snapshot")
    /\ reportToSend' = None

\* Faulty: a report that is ready goes out although reporting was stopped.
MayReportStopped == "snapshot" \notin running /\ reportToSend # None

MayReport ==
    ~reportingStopped /\ "snapshot" \notin running /\ reportToSend # None

Report ==
    /\ pc = "report"
    /\ \/ MayReport /\ ReportSnapshot
       \/ ~MayReport /\ UNCHANGED <<reportToSend, senders>>
    /\ pc' = IF emissaryPresent THEN "diagnose" ELSE "select"
    /\ UNCHANGED <<cluster, notices, getErrors, ctxDone, apiKey, conn, agentID,
                   emissaryPresent, directed>>

\* Faulty: nobody asks whether the last diagnostics are still being sent.
MayDiagnoseTwice == DiagnosticsAllowed

MayDiagnose == DiagnosticsAllowed /\ "diagnostics" \notin running

\* What Emissary may answer: nothing, or diagnostics of a system or of none.
getAmbDiagnosticsInfo == {None} \cup [system : Identity \cup {None}]

GetIdentityFromDiagnostics(diagnostics) ==
    IF diagnostics = None THEN None ELSE diagnostics.system

\* Diagnostics that are missing, carry no identity, or fail to marshal.
NoDiagnostics ==
    /\ \E diagnostics \in getAmbDiagnosticsInfo :
        LET id == GetIdentityFromDiagnostics(diagnostics)
        IN  agentID' = IF id = None THEN agentID ELSE id
    /\ UNCHANGED senders

ReportDiagnostics ==
    /\ \E diagnostics \in getAmbDiagnosticsInfo :
        /\ agentID' = GetIdentityFromDiagnostics(diagnostics)
        /\ agentID' # None
    /\ Spawn("diagnostics")

Diagnose ==
    /\ pc = "diagnose"
    /\ \/ MayDiagnose /\ (ReportDiagnostics \/ NoDiagnostics)
       \/ ~MayDiagnose /\ UNCHANGED <<agentID, senders>>
    /\ pc' = "select"
    /\ UNCHANGED <<cluster, notices, getErrors, ctxDone, apiKey, conn,
                   emissaryPresent, reportToSend, directed>>
----------------------------------------------------------------------------
(* A report goroutine: read a.comm, do the RPC on it, sleep, clear the flag. *)

Dereference(s) ==
    /\ sender[s].stage = "spawned"
    /\ comm # None
    /\ sender' = [sender EXCEPT ![s].stage = "sending", ![s].comm = comm]
    /\ UNCHANGED <<cluster, notices, getErrors, pc, ctxDone, apiKey, conn,
                   identityVars, directed, running>>

\* The goroutine calls a method of a nil a.comm.
SenderPanics(s) ==
    /\ sender[s].stage = "spawned"
    /\ comm = None
    /\ Die
    /\ UNCHANGED <<cluster, getErrors, issued>>

\* Faulty: the flag is cleared before the sleep.
SendReturnsReady(s) ==
    /\ sender[s].stage = "sending"
    /\ sender' = [sender EXCEPT ![s].stage = "resting", ![s].comm = None]
    /\ running' = running \ {sender[s].kind}
    /\ UNCHANGED <<cluster, notices, getErrors, pc, ctxDone, apiKey, conn,
                   identityVars, directed>>

\* The RPC ends, with an error or without; an error is only logged.
SendReturns(s) ==
    /\ sender[s].stage = "sending"
    /\ sender' = [sender EXCEPT ![s].stage = "resting", ![s].comm = None]
    /\ UNCHANGED <<cluster, notices, getErrors, pc, ctxDone, apiKey, conn,
                   identityVars, directed, running>>

\* The sleep ends and the flag is cleared; nobody reads the result channel.
Wake(s) ==
    /\ sender[s].stage = "resting"
    /\ running' = running \ {sender[s].kind}
    /\ sender' = [sender EXCEPT ![s] = Idle]
    /\ UNCHANGED <<cluster, notices, getErrors, pc, ctxDone, apiKey, conn,
                   identityVars, directed>>
----------------------------------------------------------------------------
(* The retriever of a connection, as the loop can see it: it holds one     *)
(* directive while the channel, of capacity one, is full; once closed it   *)
(* may still deliver what it holds before it notices.                      *)

Retrieving(c) == comms[c].state \in {"open", "closing"}

Receive(c) ==
    /\ Retrieving(c)
    /\ comms[c].held = None
    /\ issued < MaxDirectives
    /\ issued' = issued + 1
    /\ \E d \in Directive : comms' = [comms EXCEPT ![c].held = d]
    /\ UNCHANGED <<cluster, notices, getErrors, pc, ctxDone, apiKey, comm,
                   newDirective, identityVars, directed, senders>>

Deliver(c) ==
    /\ Retrieving(c)
    /\ comms[c].held # None
    /\ comms[c].directive = None
    /\ comms' = [comms EXCEPT ![c].held = None, ![c].directive = comms[c].held]
    /\ UNCHANGED <<cluster, notices, getErrors, pc, ctxDone, apiKey, comm,
                   newDirective, issued, identityVars, directed, senders>>

\* Faulty: the retriever ends, with what it holds, when its stream ends.
RetrieverExitsUnasked(c) ==
    /\ Retrieving(c)
    /\ comms' = [comms EXCEPT ![c].state = "closed", ![c].held = None]
    /\ UNCHANGED <<cluster, notices, getErrors, pc, ctxDone, apiKey, comm,
                   newDirective, issued, identityVars, directed, senders>>

RetrieverExits(c) ==
    /\ Retrieving(c)
    /\ ctxDone \/ comms[c].state = "closing"
    /\ comms' = [comms EXCEPT ![c].state = "closed", ![c].held = None]
    /\ UNCHANGED <<cluster, notices, getErrors, pc, ctxDone, apiKey, comm,
                   newDirective, issued, identityVars, directed, senders>>
----------------------------------------------------------------------------
Environment == ConfigChange \/ EndpointChange \/ Cancel \/ Killed

Starting == SubscribeConfig \/ waitForAPIKey \/ GiveUpWaiting
            \/ DetectEmissary \/ SubscribeAmbassador

Select == WatchReturns \/ Tick \/ ConfigNotice \/ ConfigMapRead \/ AmbassadorNotice
          \/ HandleDirective \/ CommandPanics

Body == Process \/ AlreadyConnected \/ NewComm \/ DialFails \/ Report \/ Diagnose

MainLoop == Starting \/ Select \/ Body

Sender(s) == Dereference(s) \/ SenderPanics(s) \/ SendReturns(s) \/ Wake(s)

Retriever(c) == Receive(c) \/ Deliver(c) \/ RetrieverExits(c)

Next ==
    \/ Environment
    \/ Restart
    \/ MainLoop
    \/ \E s \in Slot : Sender(s)
    \/ \E c \in CommId : Retriever(c)

\* Goroutines are scheduled; every RPC, read and sleep ends; a select picks
\* at random, so a case that is ready again and again is chosen in the end.
Fairness ==
    /\ WF_vars(Restart)
    /\ WF_vars(MainLoop)
    /\ SF_vars(WatchReturns)
    /\ SF_vars(ConfigNotice)
    /\ SF_vars(AmbassadorNotice)
    /\ \A s \in Slot : WF_vars(Sender(s))
    /\ \A c \in CommId : WF_vars(Deliver(c)) /\ WF_vars(RetrieverExits(c))

\* The Director can be dialled: an attempt that is made again and again succeeds.
Reachable == SF_vars(NewComm)

SafetySpec == Init /\ [][Next]_vars
Spec == SafetySpec /\ Fairness
----------------------------------------------------------------------------
(* Properties.                                                             *)

\* Every variable has the type its declaration gives it (Agent, RPCComm and
\* the report goroutines' captured arguments, agent.go:55-110, 613-640).
ClusterTypeOK ==
    /\ secret \in Token \cup {None}
    /\ configMap \in Token \cup {None}
    /\ endpoint \in BOOLEAN
    /\ configCh \in BOOLEAN
    /\ ambCh \in BOOLEAN
    /\ changes \in 0 .. MaxChanges
    /\ getErrors \in 0 .. MaxGetErrors
    /\ issued \in 0 .. MaxDirectives

LoopTypeOK ==
    /\ pc \in {"down", "start", "readKey", "readMap", "waitKey", "detect",
               "subscribe", "stopped"} \cup Watching
    /\ ctxDone \in BOOLEAN
    /\ apiKey \in Token
    /\ agentID \in Identity \cup {None}
    /\ emissaryPresent \in BOOLEAN
    /\ reportToSend \in Identity \cup {None}
    /\ reportingStopped \in BOOLEAN
    /\ minReportPeriod \in Nat
    /\ lastDirective \in Directive \cup {None}

ConnTypeOK ==
    /\ comm \in CommId \cup {None}
    /\ newDirective \in CommId \cup {None}
    /\ comms \in [CommId ->
                    [state : {"unused", "open", "closing", "closed"},
                     key : Token,
                     identity : Identity \cup {None},
                     held : Directive \cup {None},
                     directive : Directive \cup {None}]]

SenderTypeOK ==
    /\ running \in SUBSET Kind
    /\ sender \in [Slot ->
                     [stage : {"idle", "spawned", "sending", "resting"},
                      kind : Kind,
                      comm : CommId \cup {None},
                      delay : Nat]]

\* Every variable of the agent, its connections and its report goroutines has
\* the type agent.go:55-110 and comm.go:23-32 declare.
TypeOK == ClusterTypeOK /\ LoopTypeOK /\ ConnTypeOK /\ SenderTypeOK

Busy(kind) == {s \in Slot : sender[s].stage # "idle" /\ sender[s].kind = kind}

\* "The code will not launch multiple RPCs (or Goroutines)" (doc.go:125): there
\* is a report goroutine of a kind exactly while its flag is set (agent.go:566,
\* 583, 615, 627, 659, 671), and never two of them.
SingleFlight ==
    \A kind \in Kind :
        /\ (Busy(kind) # {}) <=> (kind \in running)
        /\ \A s, t \in Busy(kind) : s = t

\* "There is no queue of pending reports" (doc.go:126): while a report goroutine
\* sends or rests, no other report waits behind it (agent.go:518, 566, 639).
NoBacklog == "snapshot" \in running => reportToSend = None

\* The connection in use is live, was opened with the token the agent now holds,
\* and is the one whose directives it reads (agent.go:272-277, 550-564, 790-795).
CommMatchesKey ==
    comm # None =>
        /\ comms[comm].state \in {"open", "closed"}
        /\ comms[comm].state = "closed" => ctxDone
        /\ comms[comm].key = apiKey
        /\ apiKey # NoKey
        /\ newDirective = comm

\* Every connection the agent has let go of was closed: there is never a second
\* open one, whatever order changes of the token come in (agent.go:790-795).
NoLeakedConnection == \A c \in CommId : comms[c].state = "open" => c = comm

\* No directive, however it is interleaved with the others, makes a report
\* goroutine rest for less than the default (directive_handler.go:43, env.go:84).
RestsLongEnough ==
    \A s \in Slot :
        sender[s].stage # "idle" => sender[s].delay >= DefaultMinReportPeriod

ToldToStop == lastDirective # None /\ lastDirective.stop

\* Once a directive says "Stop sending snapshots" (director.proto:126,
\* directive_handler.go:31-34), no report of a snapshot is started before another
\* directive comes, also when one was ready to go and its connection was made
\* anew (agent.go:518, 566).
StopObeyed ==
    [][ToldToStop /\ pc' # "down" =>
           \A s \in Slot :
               sender[s].stage = "idle" /\ sender'[s].stage = "spawned"
                   => sender'[s].kind = "diagnostics"]_vars

Alive == pc # "down" /\ ~ctxDone

\* However the changes of secret and config map interleave with the loop, its
\* token becomes, and stays, the configured one: the subscription precedes the
\* first read (agent.go:325-326) and a change is never overwritten by an older
\* read.  Holds when no read of the cluster fails.
KeyConverges == <>[]Alive => <>[](apiKey = ConfiguredKey)

\* A cancelled Watch returns, also while it waits for a token (agent.go:474, 498).
WatchEnds == ctxDone ~> pc \in {"stopped", "down"}

\* With a token, a Director that can be dialled and no order to stop, a report
\* that is ready is sent, whatever else keeps the select busy and however often
\* dialling fails (agent.go:499-504, 554-560, 566-567).  It is this report or a
\* newer one, for nothing is sent while one is ready (NoBacklog).
ReadyIsSent ==
    Reachable =>
        (reportToSend # None
            ~> \/ \E s \in Slot : sender[s].kind = "snapshot" /\ sender[s].stage = "sending"
               \/ ~Alive \/ apiKey = NoKey \/ reportingStopped)
----------------------------------------------------------------------------
(* What doc.go says the reporting layer does, and this module implements.  *)

ReportPhase ==
    IF \E s \in Busy("snapshot") : sender[s].stage # "resting" THEN "sending"
    ELSE IF Busy("snapshot") # {} THEN "resting" ELSE "quiet"

Mailbox == INSTANCE ReportMailbox
              WITH Report <- Identity, pending <- reportToSend, phase <- ReportPhase

\* The loop and its report goroutines, forgetting everything else, are the
\* one-place mailbox with a single sender that doc.go:118-131 describes.
ImplementsMailbox == Mailbox!Spec
----------------------------------------------------------------------------
(* What a comment says and the code does not keep: a run refutes it.       *)

\* agent.go:549 says that no ClearComm comes between making sure of a connection
\* and the report; the goroutine reads a.comm (agent.go:621, 665) after the loop
\* may have gone round.
ReportHasComm ==
    \A s \in Slot : sender[s].stage = "spawned" => comm # None

\* director.proto:126-127 says that a directive whose stop_reporting is false asks
\* for snapshots; nothing ever clears reportingStopped (agent.go:195-203).
StoppedIsTold == reportingStopped => ToldToStop
=============================================================================
