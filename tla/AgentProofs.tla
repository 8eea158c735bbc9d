---------------------------- MODULE AgentProofs ----------------------------
(***************************************************************************)
(* Proofs about Agent for every value of its constants: any tokens,        *)
(* identities and directives, any number of report goroutines and          *)
(* connections, any bounds.                                                *)
(***************************************************************************)
EXTENDS Agent, TLAPS

USE KeyAssumption, DataAssumption, PeriodAssumption, DirectiveAssumption,
    BoundAssumption DEF KeyAssumption, DataAssumption, PeriodAssumption,
    DirectiveAssumption, BoundAssumption

----------------------------------------------------------------------------
(* Type correctness.                                                       *)

\* The parser raises what the environment says to the default (env.go:74-88).
LEMMA EnvPeriod ==
    EnvReportPeriod \in Nat /\ EnvReportPeriod >= DefaultMinReportPeriod
BY DEF EnvReportPeriod, MaxDuration

\* A directive's period, however long or negative, becomes some duration, and
\* directive_handler.go:43 makes it no shorter than the default.
LEMMA ConvertedPeriod ==
    ASSUME NEW period \in Int
    PROVE  /\ Converted(period) \in Int
           /\ MaxDuration(Converted(period), DefaultMinReportPeriod) \in Nat
           /\ MaxDuration(Converted(period), DefaultMinReportPeriod)
                 >= DefaultMinReportPeriod
<1> DEFINE rest == (period + LongestDuration + 1) % (2 * (LongestDuration + 1))
<1>1. rest \in Int
  OBVIOUS
<1>2. Converted(period) = rest - LongestDuration - 1
  BY DEF Converted
<1> HIDE DEF rest
<1>3. Converted(period) \in Int
  BY <1>1, <1>2
<1> QED
  BY <1>3 DEF MaxDuration

\* A read of the token, the secret's or the config map's.
ReadsKey == SecretFound \/ SecretMissing \/ ReadConfigMap

\* Whichever read fails or finds nothing, what becomes of it is a token, the one
\* the agent had if there is another read to come.
LEMMA KeyRead ==
    ASSUME TypeOK, ReadsKey
    PROVE  getErrors' \in 0 .. MaxGetErrors /\ \E key \in Token : maybeResetComm(key)
<1>1. getErrors' \in 0 .. MaxGetErrors
  BY DEF ReadsKey, SecretFound, SecretMissing, ReadConfigMap, ReadFails, TypeOK, ClusterTypeOK
<1>2. CASE SecretFound
  BY <1>1, <1>2 DEF SecretFound, TypeOK, ClusterTypeOK
<1>3. CASE SecretMissing
  BY <1>1, <1>3 DEF SecretMissing, maybeResetComm, TypeOK, LoopTypeOK
<1>4. CASE ReadConfigMap
  <2>1. EnvKey \in Token
    BY DEF Token
  <2> QED
    BY <1>1, <1>4, <2>1 DEF ReadConfigMap, TypeOK, ClusterTypeOK
<1> QED
  BY <1>2, <1>3, <1>4 DEF ReadsKey

\* A process that dies leaves variables of the right types (Die).
LEMMA DieType ==
    ASSUME TypeOK, Die, UNCHANGED <<cluster, getErrors, issued>>
    PROVE  TypeOK'
<1>1. ClusterTypeOK'
  BY DEF TypeOK, ClusterTypeOK, Die, cluster
<1>2. LoopTypeOK'
  BY EnvPeriod DEF Die, LoopTypeOK, Token
<1>3. ConnTypeOK'
  BY DEF Die, ConnTypeOK, NewObject, Token
<1>4. SenderTypeOK'
  BY DEF Die, SenderTypeOK, Idle, Kind
<1> QED
  BY <1>1, <1>2, <1>3, <1>4 DEF TypeOK

\* Reading the token keeps the types (agent.go:261-318).
LEMMA APIKeyType ==
    ASSUME TypeOK, ReadsKey
    PROVE  /\ apiKey' \in Token
           /\ getErrors' \in 0 .. MaxGetErrors
           /\ comm' \in CommId \cup {None}
           /\ comms' \in [CommId ->
                    [state : {"unused", "open", "closing", "closed"},
                     key : Token,
                     identity : Identity \cup {None},
                     held : Directive \cup {None},
                     directive : Directive \cup {None}]]
<1>1. PICK k \in Token : maybeResetComm(k)
  BY KeyRead
<1>2. getErrors' \in 0 .. MaxGetErrors
  BY KeyRead
<1>3. apiKey' = k /\ (UNCHANGED <<comm, comms>> \/ ClearComm)
  BY <1>1 DEF maybeResetComm
<1>4. CASE UNCHANGED <<comm, comms>>
  BY <1>2, <1>3, <1>4 DEF TypeOK, ConnTypeOK
<1>5. CASE ClearComm
  BY <1>2, <1>3, <1>5 DEF TypeOK, ConnTypeOK, ClearComm
<1> QED
  BY <1>3, <1>4, <1>5

\* The endpoint handler keeps the types (agent.go:594-611).
LEMMA EndpointType ==
    ASSUME TypeOK, handleAmbassadorEndpointChange
    PROVE  getErrors' \in 0 .. MaxGetErrors /\ emissaryPresent' \in BOOLEAN
<1>1. getErrors' \in 0 .. MaxGetErrors
  BY DEF handleAmbassadorEndpointChange, ReadFails, TypeOK, ClusterTypeOK
<1>2. emissaryPresent' \in BOOLEAN
  BY Zenon DEF handleAmbassadorEndpointChange, TypeOK, ClusterTypeOK
<1> QED
  BY <1>1, <1>2

\* Starting a report goroutine keeps the types of its kind (agent.go:613-640).
LEMMA SpawnType ==
    ASSUME TypeOK, NEW kind \in Kind, Spawn(kind)
    PROVE  SenderTypeOK'
<1>1. PICK s \in Slot :
        sender' = [sender EXCEPT ![s] = [stage |-> "spawned", kind |-> kind,
                                         comm |-> None, delay |-> minReportPeriod]]
  BY DEF Spawn
<1>2. running' \in SUBSET Kind
  BY DEF Spawn, TypeOK, SenderTypeOK
<1> QED
  BY <1>1, <1>2 DEF TypeOK, SenderTypeOK, LoopTypeOK

\* Whatever Emissary answers, an identity stays one (report.go:23-34).
LEMMA DiagnosedType ==
    ASSUME agentID \in Identity \cup {None}, ReportDiagnostics \/ NoDiagnostics
    PROVE  agentID' \in Identity \cup {None}
<1>1. ASSUME NEW d \in getAmbDiagnosticsInfo
      PROVE  GetIdentityFromDiagnostics(d) \in Identity \cup {None}
  BY <1>1 DEF getAmbDiagnosticsInfo, GetIdentityFromDiagnostics
<1> QED
  BY <1>1 DEF ReportDiagnostics, NoDiagnostics

LEMMA InitTypeOK == Init => TypeOK
<1> SUFFICES ASSUME Init PROVE TypeOK
  OBVIOUS
<1> USE DEF Init, ProcessInit, Token
<1>1. ClusterTypeOK
  <2>1. changes \in 0 .. MaxChanges /\ getErrors \in 0 .. MaxGetErrors
          /\ issued \in 0 .. MaxDirectives
    BY SMT
  <2>2. configCh \in BOOLEAN /\ ambCh \in BOOLEAN
    BY Zenon
  <2> QED
    BY <2>1, <2>2 DEF ClusterTypeOK
<1>2. LoopTypeOK
  BY EnvPeriod DEF LoopTypeOK, Token
<1>3. ConnTypeOK
  BY DEF ConnTypeOK, NewObject, Token
<1>4. SenderTypeOK
  BY DEF SenderTypeOK, Idle, Kind
<1> QED
  BY <1>1, <1>2, <1>3, <1>4 DEF TypeOK

\* Every action of the environment, the loop, the report goroutines and the
\* retrievers keeps the types.
LEMMA NextTypeOK == TypeOK /\ [Next]_vars => TypeOK'
<1> SUFFICES ASSUME TypeOK, [Next]_vars PROVE TypeOK'
  OBVIOUS
<1> USE DEF cluster, notices, identityVars, directed, senders, conn
<1>1. CASE waitForAPIKey
  <2>1. ReadsKey
    BY <1>1 DEF waitForAPIKey, ReadsKey
  <2>2. ClusterTypeOK'
    BY <1>1, <2>1, APIKeyType DEF TypeOK, ClusterTypeOK, waitForAPIKey
  <2>3. LoopTypeOK'
    BY <1>1, <2>1, APIKeyType DEF TypeOK, LoopTypeOK, waitForAPIKey, AfterRead
  <2>4. ConnTypeOK'
    BY <1>1, <2>1, APIKeyType DEF TypeOK, ConnTypeOK, waitForAPIKey
  <2>5. SenderTypeOK'
    BY <1>1 DEF TypeOK, SenderTypeOK, waitForAPIKey
  <2> QED
    BY <2>2, <2>3, <2>4, <2>5 DEF TypeOK
<1>2. CASE ConfigNotice \/ ConfigMapRead
  <2>1. ReadsKey
    BY <1>2 DEF ConfigNotice, ConfigMapRead, ReadsKey
  <2>2. ClusterTypeOK'
    BY <1>2, <2>1, APIKeyType DEF TypeOK, ClusterTypeOK, ConfigNotice, ConfigMapRead
  <2>3. LoopTypeOK'
    BY <1>2, <2>1, APIKeyType
       DEF TypeOK, LoopTypeOK, ConfigNotice, ConfigMapRead, Watching
  <2>4. ConnTypeOK'
    BY <1>2, <2>1, APIKeyType DEF TypeOK, ConnTypeOK, ConfigNotice, ConfigMapRead
  <2>5. SenderTypeOK'
    BY <1>2 DEF TypeOK, SenderTypeOK, ConfigNotice, ConfigMapRead
  <2> QED
    BY <2>2, <2>3, <2>4, <2>5 DEF TypeOK
<1>3. CASE AmbassadorNotice
  <2>1. ClusterTypeOK'
    BY <1>3, EndpointType DEF TypeOK, ClusterTypeOK, AmbassadorNotice
  <2>2. LoopTypeOK'
    BY <1>3, EndpointType DEF TypeOK, LoopTypeOK, AmbassadorNotice, Watching
  <2>3. ConnTypeOK'
    BY <1>3 DEF TypeOK, ConnTypeOK, AmbassadorNotice
  <2>4. SenderTypeOK'
    BY <1>3 DEF TypeOK, SenderTypeOK, AmbassadorNotice
  <2> QED
    BY <2>1, <2>2, <2>3, <2>4 DEF TypeOK
<1>4. CASE HandleDirective
  <2> DEFINE d == comms[newDirective].directive
  <2>1. newDirective \in CommId /\ d \in Directive
    BY <1>4 DEF HandleDirective, TakeDirective, TypeOK, ConnTypeOK
  <2>2. d.stop \in BOOLEAN /\ d.period \in Int \cup {None}
    BY <2>1
  <2>3. SetFlow(d) /\ lastDirective' = d
    BY <1>4 DEF HandleDirective, SetLastDirectiveID
  <2> HIDE DEF d
  <2>4. reportingStopped' \in BOOLEAN /\ minReportPeriod' \in Nat
    BY <2>2, <2>3, ConvertedPeriod DEF SetFlow, StopReporting, SetMinReportPeriod,
                                       TypeOK, LoopTypeOK
  <2>5. LoopTypeOK'
    BY <1>4, <2>1, <2>3, <2>4
       DEF HandleDirective, TypeOK, LoopTypeOK, Watching, identityVars
  <2>6. ConnTypeOK'
    BY <1>4, <2>1 DEF HandleDirective, TypeOK, ConnTypeOK
  <2>7. ClusterTypeOK' /\ SenderTypeOK'
    BY <1>4 DEF HandleDirective, TypeOK, ClusterTypeOK, SenderTypeOK
  <2> QED
    BY <2>5, <2>6, <2>7 DEF TypeOK
<1>5. CASE Report
  <2>1. ClusterTypeOK'
    BY <1>5 DEF TypeOK, ClusterTypeOK, Report
  <2>2. LoopTypeOK'
    BY <1>5 DEF TypeOK, LoopTypeOK, Report, ReportSnapshot, Watching
  <2>3. ConnTypeOK'
    BY <1>5 DEF TypeOK, ConnTypeOK, Report
  <2>4. SenderTypeOK'
    <3>1. CASE UNCHANGED senders
      BY <3>1 DEF TypeOK, SenderTypeOK, senders
    <3>2. CASE Spawn("snapshot")
      BY <3>2, SpawnType DEF Kind
    <3> QED
      BY <1>5, <3>1, <3>2 DEF Report, ReportSnapshot
  <2> QED
    BY <2>1, <2>2, <2>3, <2>4 DEF TypeOK
<1>6. CASE Diagnose
  <2>1. ClusterTypeOK'
    BY <1>6 DEF TypeOK, ClusterTypeOK, Diagnose
  <2>2. LoopTypeOK'
    <3>1. agentID' \in Identity \cup {None}
      BY <1>6, DiagnosedType DEF TypeOK, LoopTypeOK, Diagnose
    <3> QED
      BY <1>6, <3>1 DEF TypeOK, LoopTypeOK, Diagnose, Watching
  <2>3. ConnTypeOK'
    BY <1>6 DEF TypeOK, ConnTypeOK, Diagnose
  <2>4. SenderTypeOK'
    <3>1. CASE UNCHANGED senders
      BY <3>1 DEF TypeOK, SenderTypeOK, senders
    <3>2. CASE Spawn("diagnostics")
      BY <3>2, SpawnType DEF Kind
    <3> QED
      BY <1>6, <3>1, <3>2 DEF Diagnose, ReportDiagnostics, NoDiagnostics
  <2> QED
    BY <2>1, <2>2, <2>3, <2>4 DEF TypeOK
<1>7. ASSUME NEW s \in Slot, Dereference(s) PROVE TypeOK'
  <2>1. ClusterTypeOK'
    BY <1>7 DEF TypeOK, ClusterTypeOK, Dereference
  <2>2. LoopTypeOK'
    BY <1>7 DEF TypeOK, LoopTypeOK, Dereference
  <2>3. ConnTypeOK'
    BY <1>7 DEF TypeOK, ConnTypeOK, Dereference
  <2>4. SenderTypeOK'
    BY <1>7 DEF TypeOK, SenderTypeOK, Dereference, ConnTypeOK
  <2> QED
    BY <2>1, <2>2, <2>3, <2>4 DEF TypeOK
<1>8. ASSUME NEW s \in Slot, SendReturns(s) PROVE TypeOK'
  <2>1. ClusterTypeOK'
    BY <1>8 DEF TypeOK, ClusterTypeOK, SendReturns
  <2>2. LoopTypeOK'
    BY <1>8 DEF TypeOK, LoopTypeOK, SendReturns
  <2>3. ConnTypeOK'
    BY <1>8 DEF TypeOK, ConnTypeOK, SendReturns
  <2>4. SenderTypeOK'
    BY <1>8 DEF TypeOK, SenderTypeOK, SendReturns
  <2> QED
    BY <2>1, <2>2, <2>3, <2>4 DEF TypeOK
<1>9. ASSUME NEW s \in Slot, Wake(s) PROVE TypeOK'
  <2>1. ClusterTypeOK'
    BY <1>9 DEF TypeOK, ClusterTypeOK, Wake
  <2>2. LoopTypeOK'
    BY <1>9 DEF TypeOK, LoopTypeOK, Wake
  <2>3. ConnTypeOK'
    BY <1>9 DEF TypeOK, ConnTypeOK, Wake
  <2>4. SenderTypeOK'
    BY <1>9 DEF TypeOK, SenderTypeOK, Wake, Idle, Kind
  <2> QED
    BY <2>1, <2>2, <2>3, <2>4 DEF TypeOK
<1>10. ASSUME NEW c \in CommId, RetrieverExits(c) PROVE TypeOK'
  <2>1. ClusterTypeOK'
    BY <1>10 DEF TypeOK, ClusterTypeOK, RetrieverExits
  <2>2. LoopTypeOK'
    BY <1>10 DEF TypeOK, LoopTypeOK, RetrieverExits
  <2>3. ConnTypeOK'
    <3> DEFINE r == [comms[c] EXCEPT !.state = "closed", !.held = None]
    <3>1. comms' = [comms EXCEPT ![c] = r]
      BY <1>10 DEF RetrieverExits, TypeOK, ConnTypeOK
    <3>2. r \in [state : {"unused", "open", "closing", "closed"}, key : Token,
                 identity : Identity \cup {None}, held : Directive \cup {None},
                 directive : Directive \cup {None}]
      BY DEF TypeOK, ConnTypeOK
    <3>3. comm' = comm /\ newDirective' = newDirective
      BY <1>10 DEF RetrieverExits
    <3> HIDE DEF r
    <3> QED
      BY <3>1, <3>2, <3>3 DEF TypeOK, ConnTypeOK
  <2>4. SenderTypeOK'
    BY <1>10 DEF TypeOK, SenderTypeOK, RetrieverExits
  <2> QED
    BY <2>1, <2>2, <2>3, <2>4 DEF TypeOK
<1> USE DEF TypeOK, ClusterTypeOK, LoopTypeOK, ConnTypeOK, SenderTypeOK, Token
<1> USE DEF Watching
<1>11. CASE ConfigChange
  BY <1>11 DEF ConfigChange
<1>12. CASE EndpointChange
  BY <1>12 DEF EndpointChange
<1>13. CASE Cancel
  BY <1>13 DEF Cancel
<1>14. CASE Killed
  BY <1>14, DieType DEF Killed
<1>15. CASE Restart
  BY <1>15 DEF Restart
<1>16. CASE SubscribeConfig
  BY <1>16 DEF SubscribeConfig
<1>17. CASE GiveUpWaiting
  BY <1>17 DEF GiveUpWaiting
<1>18. CASE DetectEmissary
  BY <1>18, EndpointType DEF DetectEmissary
<1>19. CASE SubscribeAmbassador
  BY <1>19 DEF SubscribeAmbassador
<1>20. CASE WatchReturns
  BY <1>20 DEF WatchReturns
<1>21. CASE Tick
  BY <1>21 DEF Tick
<1>22. CASE CommandPanics
  BY <1>22, DieType DEF CommandPanics
<1>23. CASE Process
  BY <1>23 DEF Process, ProcessSnapshot
<1>24. CASE AlreadyConnected
  BY <1>24 DEF AlreadyConnected
<1>25. CASE NewComm
  BY <1>25 DEF NewComm
<1>26. CASE DialFails
  BY <1>26 DEF DialFails
<1>27. ASSUME NEW s \in Slot, SenderPanics(s) PROVE TypeOK'
  BY <1>27, DieType DEF SenderPanics
<1>28. ASSUME NEW c \in CommId, Receive(c) PROVE TypeOK'
  BY <1>28 DEF Receive
<1>29. ASSUME NEW c \in CommId, Deliver(c) PROVE TypeOK'
  BY <1>29 DEF Deliver
<1>30. CASE UNCHANGED vars
  BY <1>30 DEF vars
<1> QED
  BY <1>1, <1>2, <1>3, <1>4, <1>5, <1>6, <1>7, <1>8, <1>9, <1>10, <1>11, <1>12,
     <1>13, <1>14, <1>15, <1>16, <1>17, <1>18, <1>19, <1>20, <1>21, <1>22,
     <1>23, <1>24, <1>25, <1>26, <1>27, <1>28, <1>29, <1>30
     DEF Next, Environment, MainLoop, Starting, Select, Body, Sender, Retriever

\* Every variable always has its declared type (TypeOK; agent.go:55-110,
\* comm.go:23-32, and the arguments report goroutines capture).
THEOREM TypeCorrect == SafetySpec => []TypeOK
<1>1. Init => TypeOK
  BY InitTypeOK
<1>2. TypeOK /\ [Next]_vars => TypeOK'
  BY NextTypeOK
<1> QED
  BY <1>1, <1>2, PTL DEF SafetySpec
----------------------------------------------------------------------------
(* The connection in use.                                                  *)

\* The loop gets to the connection only with a token (agent.go:544-547), and
\* between there and the next select it does not change the token.
HasKey == pc \in {"connect", "report", "diagnose"} => apiKey # NoKey

ConnInv == TypeOK /\ CommMatchesKey /\ NoLeakedConnection /\ HasKey

LEMMA InitConnInv == Init => ConnInv
BY InitTypeOK DEF Init, ProcessInit, ConnInv, CommMatchesKey, NoLeakedConnection,
                  HasKey, NewObject

\* With the process, every connection goes.
LEMMA DieConn ==
    ASSUME Die
    PROVE  CommMatchesKey' /\ NoLeakedConnection' /\ HasKey'
BY DEF Die, CommMatchesKey, NoLeakedConnection, HasKey, NewObject

\* The token handler drops the connection exactly when the token changes, and
\* closes it then (agent.go:272-277, 790-795).
LEMMA APIKeyConn ==
    ASSUME ConnInv, ReadsKey, newDirective' = newDirective,
           ctxDone' = ctxDone
    PROVE  CommMatchesKey' /\ NoLeakedConnection'
<1>1. PICK k : maybeResetComm(k)
  BY KeyRead DEF ConnInv
<1>2. CASE k = apiKey
  <2>1. apiKey' = apiKey /\ comm' = comm /\ comms' = comms
    BY <1>1, <1>2 DEF maybeResetComm
  <2> QED
    BY <2>1 DEF ConnInv, CommMatchesKey, NoLeakedConnection
<1>3. CASE k # apiKey
  <2>1. ClearComm
    BY <1>1, <1>3 DEF maybeResetComm
  <2>2. CommMatchesKey'
    BY <2>1 DEF ClearComm, CommMatchesKey
  <2>3. \A c \in CommId : comms'[c].state # "open"
    BY <2>1 DEF ClearComm, ConnInv, NoLeakedConnection, TypeOK, ConnTypeOK
  <2> QED
    BY <2>2, <2>3 DEF NoLeakedConnection
<1> QED
  BY <1>2, <1>3

\* Whatever does not touch the connections, the token and the context.
LEMMA OtherConn ==
    ASSUME ConnInv, UNCHANGED <<apiKey, comm, newDirective, comms, ctxDone>>
    PROVE  CommMatchesKey' /\ NoLeakedConnection'
BY DEF ConnInv, CommMatchesKey, NoLeakedConnection

\* Whatever a step does inside an object, without opening one.
LEMMA ObjectConn ==
    ASSUME ConnInv, UNCHANGED <<apiKey, comm, newDirective, ctxDone>>,
           \A c \in CommId : /\ comms'[c].key = comms[c].key
                             /\ \/ comms'[c].state = comms[c].state
                                \/ ctxDone /\ comms'[c].state = "closed"
                                \/ c # comm /\ comms'[c].state = "closed"
    PROVE  CommMatchesKey' /\ NoLeakedConnection'
<1>1. CommMatchesKey'
  BY DEF ConnInv, CommMatchesKey, TypeOK, ConnTypeOK
<1>2. NoLeakedConnection'
  BY DEF ConnInv, NoLeakedConnection
<1> QED
  BY <1>1, <1>2

LEMMA NextConnInv == ConnInv /\ [Next]_vars => ConnInv'
<1> SUFFICES ASSUME ConnInv, [Next]_vars PROVE ConnInv'
  OBVIOUS
<1>0. TypeOK /\ TypeOK'
  BY NextTypeOK DEF ConnInv
<1> SUFFICES CommMatchesKey' /\ NoLeakedConnection' /\ HasKey'
  BY <1>0 DEF ConnInv
<1> USE DEF cluster, notices, identityVars, directed, senders, conn
<1>1. CASE Killed \/ CommandPanics \/ \E s \in Slot : SenderPanics(s)
  BY <1>1, DieConn DEF Killed, CommandPanics, SenderPanics
<1>2. CASE waitForAPIKey \/ ConfigNotice \/ ConfigMapRead
  <2>1. ReadsKey
    BY <1>2 DEF waitForAPIKey, ConfigNotice, ConfigMapRead, ReadsKey
  <2> QED
    BY <1>2, <2>1, APIKeyConn
       DEF waitForAPIKey, AfterRead, ConfigNotice, ConfigMapRead, HasKey
<1>3. CASE Cancel
  BY <1>3 DEF Cancel, ConnInv, CommMatchesKey, NoLeakedConnection, HasKey
<1>4. CASE ConfigChange \/ EndpointChange
  BY <1>4, OtherConn DEF ConfigChange, EndpointChange, ConnInv, HasKey
<1>5. CASE Restart \/ SubscribeConfig \/ GiveUpWaiting \/ DetectEmissary
           \/ SubscribeAmbassador
  BY <1>5, OtherConn DEF Restart, SubscribeConfig, GiveUpWaiting, DetectEmissary,
                         SubscribeAmbassador, HasKey
<1>6. CASE WatchReturns \/ Tick \/ AmbassadorNotice
  BY <1>6, OtherConn DEF WatchReturns, Tick, AmbassadorNotice, HasKey
<1>7. CASE HandleDirective
  <2>1. \A c \in CommId : /\ comms'[c].key = comms[c].key
                          /\ comms'[c].state = comms[c].state
    BY <1>0, <1>7 DEF HandleDirective, TypeOK, ConnTypeOK
  <2>2. UNCHANGED <<apiKey, comm, newDirective, ctxDone>> /\ pc' = "process"
    BY <1>7 DEF HandleDirective
  <2> QED
    BY <2>1, <2>2, ObjectConn DEF HasKey
<1>8. CASE Process
  BY <1>8, OtherConn DEF Process, HasKey
<1>9. CASE AlreadyConnected \/ DialFails
  BY <1>9, OtherConn DEF AlreadyConnected, DialFails, ConnInv, HasKey
<1>10. CASE NewComm
  <2>1. PICK c \in CommId :
          /\ comms' = [comms EXCEPT ![c] =
                         [state |-> "open", key |-> apiKey, identity |-> agentID,
                          held |-> None, directive |-> None]]
          /\ comm' = c
          /\ newDirective' = c
    BY <1>10 DEF NewComm
  <2>2. /\ comm = None /\ apiKey # NoKey
        /\ pc' = "report" /\ apiKey' = apiKey
    BY <1>10 DEF NewComm, ConnInv, HasKey
  <2>3. \A b \in CommId : b # c => comms'[b].state # "open"
    BY <1>0, <2>1, <2>2 DEF ConnInv, NoLeakedConnection, TypeOK, ConnTypeOK
  <2>4. comms'[c].state = "open" /\ comms'[c].key = apiKey
    BY <1>0, <2>1 DEF TypeOK, ConnTypeOK
  <2> QED
    BY <2>1, <2>2, <2>3, <2>4 DEF CommMatchesKey, NoLeakedConnection, HasKey
<1>11. CASE Report \/ Diagnose
  BY <1>11, OtherConn DEF Report, Diagnose, ConnInv, HasKey
<1>12. CASE \E s \in Slot : Dereference(s) \/ SendReturns(s) \/ Wake(s)
  BY <1>12, OtherConn DEF Dereference, SendReturns, Wake, ConnInv, HasKey
<1>13. ASSUME NEW c \in CommId, Receive(c) \/ Deliver(c)
       PROVE  CommMatchesKey' /\ NoLeakedConnection' /\ HasKey'
  <2>1. \A b \in CommId : /\ comms'[b].key = comms[b].key
                          /\ comms'[b].state = comms[b].state
    BY <1>0, <1>13 DEF Receive, Deliver, TypeOK, ConnTypeOK
  <2>2. UNCHANGED <<apiKey, comm, newDirective, ctxDone, pc>>
    BY <1>13 DEF Receive, Deliver
  <2> QED
    BY <2>1, <2>2, ObjectConn DEF ConnInv, HasKey
<1>14. ASSUME NEW c \in CommId, RetrieverExits(c)
       PROVE  CommMatchesKey' /\ NoLeakedConnection' /\ HasKey'
  <2>1. UNCHANGED <<apiKey, comm, newDirective, ctxDone, pc>>
    BY <1>14 DEF RetrieverExits
  <2>2. \A b \in CommId : /\ comms'[b].key = comms[b].key
                          /\ b # c => comms'[b].state = comms[b].state
                          /\ b = c => comms'[b].state = "closed"
    BY <1>0, <1>14 DEF RetrieverExits, TypeOK, ConnTypeOK
  <2>3. ctxDone \/ c # comm
    BY <1>0, <1>14 DEF RetrieverExits, ConnInv, CommMatchesKey, TypeOK, ConnTypeOK
  <2> QED
    BY <2>1, <2>2, <2>3, ObjectConn DEF ConnInv, HasKey
<1>15. CASE UNCHANGED vars
  BY <1>15, OtherConn DEF vars, ConnInv, HasKey
<1> QED
  BY <1>1, <1>2, <1>3, <1>4, <1>5, <1>6, <1>7, <1>8, <1>9, <1>10, <1>11, <1>12,
     <1>13, <1>14, <1>15
     DEF Next, Environment, MainLoop, Starting, Select, Body, Sender, Retriever

\* The connection in use was opened with the token the agent holds, is open, and its
\* directives are the ones read (agent.go:272-277, 544-564, 790-795).
THEOREM OneConnection == SafetySpec => []CommMatchesKey
<1>1. ConnInv => CommMatchesKey
  BY DEF ConnInv
<1> QED
  BY InitConnInv, NextConnInv, <1>1, PTL DEF SafetySpec

\* Every other connection has been told to close: none is forgotten while it is open,
\* however tokens, reports and the end of the process interleave (agent.go:272-277,
\* 555-561, 790-795).
THEOREM NoneLeaks == SafetySpec => []NoLeakedConnection
<1>1. ConnInv => NoLeakedConnection
  BY DEF ConnInv
<1> QED
  BY InitConnInv, NextConnInv, <1>1, PTL DEF SafetySpec
----------------------------------------------------------------------------
(* The report goroutines.                                                  *)

\* No report waits while one is sent or rests, and every goroutine rests for at
\* least the default, as does the next one.
SenderInv ==
    /\ TypeOK
    /\ SingleFlight
    /\ NoBacklog
    /\ RestsLongEnough
    /\ minReportPeriod >= DefaultMinReportPeriod

LEMMA InitSenderInv == Init => SenderInv
BY InitTypeOK, EnvPeriod DEF Init, ProcessInit, SenderInv, SingleFlight, Busy, NoBacklog,
                  RestsLongEnough, Idle

\* With the process, every goroutine goes.
LEMMA DieSender ==
    ASSUME Die
    PROVE  /\ SingleFlight' /\ NoBacklog' /\ RestsLongEnough'
           /\ minReportPeriod' >= DefaultMinReportPeriod
BY EnvPeriod DEF Die, SingleFlight, Busy, NoBacklog, RestsLongEnough, Idle

\* Starting the goroutine of a kind whose flag is clear (agent.go:566, 583).
LEMMA SpawnSender ==
    ASSUME SenderInv, NEW kind \in Kind, kind \notin running, Spawn(kind)
    PROVE  SingleFlight' /\ RestsLongEnough'
<1>1. PICK s \in Slot :
        /\ sender[s].stage = "idle"
        /\ sender' = [sender EXCEPT ![s] = [stage |-> "spawned", kind |-> kind,
                                           comm |-> None, delay |-> minReportPeriod]]
  BY DEF Spawn
<1>2. running' = running \cup {kind}
  BY DEF Spawn
<1>3. /\ sender'[s].stage = "spawned"
      /\ sender'[s].kind = kind
      /\ sender'[s].delay = minReportPeriod
      /\ \A t \in Slot : t # s => sender'[t] = sender[t]
  BY <1>1 DEF SenderInv, TypeOK, SenderTypeOK
<1>4. Busy(kind)' = {s}
  BY <1>3 DEF SenderInv, SingleFlight, Busy
<1>5. \A k \in Kind : k # kind => Busy(k)' = Busy(k)
  BY <1>1, <1>3 DEF Busy
<1>6. SingleFlight'
  BY <1>2, <1>4, <1>5 DEF SenderInv, SingleFlight
<1>7. RestsLongEnough'
  BY <1>3 DEF SenderInv, RestsLongEnough
<1> QED
  BY <1>6, <1>7

\* The next stage of a goroutine, short of its end.
LEMMA StageSender ==
    ASSUME SenderInv, UNCHANGED running, NEW s \in Slot,
           sender[s].stage # "idle", sender'[s].stage # "idle",
           sender'[s].kind = sender[s].kind, sender'[s].delay = sender[s].delay,
           \A t \in Slot : t # s => sender'[t] = sender[t]
    PROVE  SingleFlight' /\ RestsLongEnough'
<1>1. \A k \in Kind : Busy(k)' = Busy(k)
  BY DEF Busy
<1>2. SingleFlight'
  BY <1>1 DEF SenderInv, SingleFlight
<1>3. RestsLongEnough'
  BY DEF SenderInv, RestsLongEnough
<1> QED
  BY <1>2, <1>3

\* Whatever does not touch the goroutines and their flags.
LEMMA OtherSender ==
    ASSUME SenderInv, UNCHANGED senders
    PROVE  SingleFlight' /\ RestsLongEnough'
BY DEF SenderInv, SingleFlight, Busy, RestsLongEnough, senders

LEMMA NextSenderInv == SenderInv /\ [Next]_vars => SenderInv'
<1> SUFFICES ASSUME SenderInv, [Next]_vars PROVE SenderInv'
  OBVIOUS
<1>0. TypeOK /\ TypeOK'
  BY NextTypeOK DEF SenderInv
<1> DEFINE Goal == /\ SingleFlight' /\ NoBacklog' /\ RestsLongEnough'
                   /\ minReportPeriod' >= DefaultMinReportPeriod
<1> SUFFICES Goal
  BY <1>0 DEF SenderInv
<1>1. CASE Killed \/ CommandPanics \/ \E s \in Slot : SenderPanics(s)
  BY <1>1, DieSender DEF Killed, CommandPanics, SenderPanics
<1>2. CASE UNCHANGED <<senders, reportToSend, minReportPeriod>>
  BY <1>2, OtherSender DEF SenderInv, NoBacklog, senders
<1>3. CASE HandleDirective
  <2> DEFINE d == comms[newDirective].directive
  <2>1. d \in Directive
    BY <1>0, <1>3 DEF HandleDirective, TakeDirective, TypeOK, ConnTypeOK
  <2>2. SetFlow(d)
    BY <1>3 DEF HandleDirective
  <2> HIDE DEF d
  <2>3. d.period \in Int \cup {None}
    BY <2>1
  <2>4. minReportPeriod' >= DefaultMinReportPeriod
    BY <2>2, <2>3, ConvertedPeriod DEF SetFlow, SetMinReportPeriod, SenderInv
  <2>5. UNCHANGED <<senders, reportToSend>>
    BY <1>3 DEF HandleDirective, identityVars
  <2> QED
    BY <2>4, <2>5, OtherSender DEF SenderInv, NoBacklog, senders
<1>4. CASE Process
  <2>1. UNCHANGED <<senders, minReportPeriod>>
    BY <1>4 DEF Process, senders, directed
  <2>2. "snapshot" \notin running \/ UNCHANGED reportToSend
    BY <1>4 DEF Process, ProcessSnapshot
  <2> QED
    BY <2>1, <2>2, OtherSender DEF SenderInv, NoBacklog, senders
<1>5. CASE Report
  <2>1. UNCHANGED minReportPeriod
    BY <1>5 DEF Report, directed
  <2>2. CASE MayReport /\ ReportSnapshot
    BY <2>1, <2>2, SpawnSender DEF MayReport, ReportSnapshot, SenderInv, NoBacklog, Kind
  <2>3. CASE UNCHANGED <<reportToSend, senders>>
    BY <1>2, <2>1, <2>3
  <2> QED
    BY <1>5, <2>2, <2>3 DEF Report
<1>6. CASE Diagnose
  <2>1. UNCHANGED <<minReportPeriod, reportToSend>>
    BY <1>6 DEF Diagnose, directed
  <2>2. CASE MayDiagnose /\ ReportDiagnostics
    <3>1. "snapshot" \in running' => "snapshot" \in running
      BY <2>2 DEF ReportDiagnostics, Spawn
    <3>2. SingleFlight' /\ RestsLongEnough'
      BY <2>2, SpawnSender DEF MayDiagnose, ReportDiagnostics, Kind
    <3> QED
      BY <2>1, <3>1, <3>2 DEF SenderInv, NoBacklog
  <2>3. CASE UNCHANGED senders
    BY <1>2, <2>1, <2>3
  <2> QED
    BY <1>6, <2>2, <2>3 DEF Diagnose, NoDiagnostics
<1>7. ASSUME NEW s \in Slot, Dereference(s) \/ SendReturns(s) PROVE Goal
  <2>1. /\ sender[s].stage # "idle" /\ sender'[s].stage # "idle"
        /\ sender'[s].kind = sender[s].kind
        /\ sender'[s].delay = sender[s].delay
        /\ \A t \in Slot : t # s => sender'[t] = sender[t]
    BY <1>0, <1>7 DEF Dereference, SendReturns, TypeOK, SenderTypeOK
  <2>2. UNCHANGED <<running, reportToSend, minReportPeriod>>
    BY <1>7 DEF Dereference, SendReturns, identityVars, directed
  <2>3. SingleFlight' /\ RestsLongEnough'
    BY <2>1, <2>2, StageSender
  <2> QED
    BY <2>2, <2>3 DEF SenderInv, NoBacklog
<1>8. ASSUME NEW s \in Slot, Wake(s) PROVE Goal
  <2> DEFINE kind == sender[s].kind
  <2>1. /\ sender[s].stage # "idle" /\ sender'[s].stage = "idle"
        /\ \A t \in Slot : t # s => sender'[t] = sender[t]
        /\ running' = running \ {kind} /\ kind \in Kind
    BY <1>0, <1>8 DEF Wake, Idle, TypeOK, SenderTypeOK
  <2>2. UNCHANGED <<reportToSend, minReportPeriod>>
    BY <1>8 DEF Wake, identityVars, directed
  <2>3. Busy(kind) = {s}
    BY <2>1 DEF SenderInv, SingleFlight, Busy
  <2>4. \A k \in Kind : Busy(k)' = Busy(k) \ {s}
    BY <2>1 DEF Busy
  <2>5. \A k \in Kind : k # kind => s \notin Busy(k)
    BY DEF Busy
  <2>6. SingleFlight'
    BY <2>1, <2>3, <2>4, <2>5 DEF SenderInv, SingleFlight
  <2>7. RestsLongEnough'
    BY <2>1 DEF SenderInv, RestsLongEnough
  <2> QED
    BY <2>1, <2>2, <2>6, <2>7 DEF SenderInv, NoBacklog
<1>9. CASE UNCHANGED vars
  BY <1>2, <1>9 DEF vars, identityVars, directed, senders
<1> USE DEF identityVars, directed
<1>10. CASE ConfigChange \/ EndpointChange \/ Cancel \/ Restart
  BY <1>2, <1>10 DEF ConfigChange, EndpointChange, Cancel, Restart
<1>11. CASE Starting
  BY <1>2, <1>11 DEF Starting, SubscribeConfig, waitForAPIKey, GiveUpWaiting,
                     DetectEmissary, SubscribeAmbassador
<1>12. CASE WatchReturns \/ Tick \/ ConfigNotice \/ ConfigMapRead \/ AmbassadorNotice
  BY <1>2, <1>12 DEF WatchReturns, Tick, ConfigNotice, ConfigMapRead, AmbassadorNotice
<1>13. CASE AlreadyConnected \/ NewComm \/ DialFails
  BY <1>2, <1>13 DEF AlreadyConnected, NewComm, DialFails
<1>14. CASE \E c \in CommId : Retriever(c)
  BY <1>2, <1>14 DEF Retriever, Receive, Deliver, RetrieverExits
<1> QED
  BY <1>1, <1>3, <1>4, <1>5, <1>6, <1>7, <1>8, <1>9, <1>10, <1>11, <1>12, <1>13,
     <1>14 DEF Next, Environment, MainLoop, Select, Body, Sender

\* There is a report goroutine of a kind exactly while its flag is set, and never
\* two of them (doc.go:125; agent.go:566, 583, 615, 627).
THEOREM SingleFlightHolds == SafetySpec => []SingleFlight
<1>1. Init => SenderInv
  BY InitSenderInv
<1>2. SenderInv /\ [Next]_vars => SenderInv'
  BY NextSenderInv
<1>3. SenderInv => SingleFlight
  BY DEF SenderInv
<1> QED
  BY <1>1, <1>2, <1>3, PTL DEF SafetySpec

\* No report waits behind one that is sent or rests, and every rest is as long as
\* the default (doc.go:126; agent.go:518; directive_handler.go:43).
THEOREM RateIsLimited == SafetySpec => [](NoBacklog /\ RestsLongEnough)
<1>1. Init => SenderInv
  BY InitSenderInv
<1>2. SenderInv /\ [Next]_vars => SenderInv'
  BY NextSenderInv
<1>3. SenderInv => NoBacklog /\ RestsLongEnough
  BY DEF SenderInv
<1> QED
  BY <1>1, <1>2, <1>3, PTL DEF SafetySpec
----------------------------------------------------------------------------
(* A directive's order to stop.                                            *)

\* The order given last is still in force: no later directive lifts the flag.
StopKept == ToldToStop => reportingStopped

StopInv == TypeOK /\ StopKept

StopStep ==
    ToldToStop /\ pc' # "down" =>
        \A s \in Slot :
            sender[s].stage = "idle" /\ sender'[s].stage = "spawned"
                => sender'[s].kind = "diagnostics"

\* Whatever neither handles a directive nor starts a goroutine.
LEMMA OtherStop ==
    ASSUME StopKept, UNCHANGED <<reportingStopped, lastDirective>>,
           \A s \in Slot : sender[s].stage = "idle" => sender'[s] = sender[s]
    PROVE  StopKept' /\ StopStep
BY DEF StopKept, StopStep, ToldToStop

LEMMA NextStop == StopInv /\ [Next]_vars => StopKept' /\ StopStep
<1> SUFFICES ASSUME TypeOK, StopKept, [Next]_vars PROVE StopKept' /\ StopStep
  BY DEF StopInv
<1>1. CASE Killed \/ CommandPanics \/ \E s \in Slot : SenderPanics(s)
  BY <1>1 DEF Killed, CommandPanics, SenderPanics, Die, StopKept, StopStep, ToldToStop
<1>2. CASE UNCHANGED <<reportingStopped, lastDirective, sender>>
  BY <1>2, OtherStop
<1>3. CASE HandleDirective
  <2> DEFINE d == comms[newDirective].directive
  <2>1. SetFlow(d) /\ lastDirective' = d /\ sender' = sender
    BY <1>3 DEF HandleDirective, SetLastDirectiveID, senders
  <2> HIDE DEF d
  <2>2. StopKept'
    BY <2>1 DEF SetFlow, StopReporting, StopKept, ToldToStop
  <2> QED
    BY <2>1, <2>2 DEF StopStep
<1>4. CASE Process
  BY <1>2, <1>4 DEF Process, senders, directed
<1>5. CASE Report
  <2>1. UNCHANGED <<reportingStopped, lastDirective>>
    BY <1>5 DEF Report, directed
  <2>2. CASE MayReport
    BY <2>1, <2>2 DEF MayReport, StopKept, StopStep, ToldToStop
  <2>3. CASE UNCHANGED senders
    BY <1>2, <2>1, <2>3 DEF senders
  <2> QED
    BY <1>5, <2>2, <2>3 DEF Report
<1>6. CASE Diagnose
  <2>1. UNCHANGED <<reportingStopped, lastDirective>>
    BY <1>6 DEF Diagnose, directed
  <2>2. CASE Spawn("diagnostics")
    BY <2>1, <2>2 DEF Spawn, StopKept, StopStep, ToldToStop, TypeOK, SenderTypeOK
  <2>3. CASE UNCHANGED senders
    BY <1>2, <2>1, <2>3 DEF senders
  <2> QED
    BY <1>6, <2>2, <2>3 DEF Diagnose, ReportDiagnostics, NoDiagnostics
<1>7. CASE \E s \in Slot : Dereference(s) \/ SendReturns(s) \/ Wake(s)
  <2>1. PICK s \in Slot : Dereference(s) \/ SendReturns(s) \/ Wake(s)
    BY <1>7
  <2>2. sender[s].stage # "idle" /\ UNCHANGED <<reportingStopped, lastDirective>>
    BY <2>1 DEF Dereference, SendReturns, Wake, directed
  <2>3. \A t \in Slot : t # s => sender'[t] = sender[t]
    BY <2>1 DEF Dereference, SendReturns, Wake, TypeOK, SenderTypeOK
  <2> QED
    BY <2>2, <2>3, OtherStop
<1>8. CASE UNCHANGED vars
  BY <1>2, <1>8 DEF vars, directed, senders
<1> USE DEF directed, senders
<1>9. CASE ConfigChange \/ EndpointChange \/ Cancel \/ Restart
  BY <1>2, <1>9 DEF ConfigChange, EndpointChange, Cancel, Restart
<1>10. CASE Starting
  BY <1>2, <1>10 DEF Starting, SubscribeConfig, waitForAPIKey, GiveUpWaiting,
                     DetectEmissary, SubscribeAmbassador
<1>11. CASE WatchReturns \/ Tick \/ ConfigNotice \/ ConfigMapRead \/ AmbassadorNotice
  BY <1>2, <1>11 DEF WatchReturns, Tick, ConfigNotice, ConfigMapRead, AmbassadorNotice
<1>12. CASE AlreadyConnected \/ NewComm \/ DialFails
  BY <1>2, <1>12 DEF AlreadyConnected, NewComm, DialFails
<1>13. CASE \E c \in CommId : Retriever(c)
  BY <1>2, <1>13 DEF Retriever, Receive, Deliver, RetrieverExits
<1> QED
  BY <1>1, <1>3, <1>4, <1>5, <1>6, <1>7, <1>8, <1>9, <1>10, <1>11, <1>12, <1>13
     DEF Next, Environment, MainLoop, Select, Body, Sender

\* As long as the last directive says to stop, the process starts no snapshot report
\* (director.proto:126; directive_handler.go:31-34; agent.go:518, 566).
THEOREM StopObeyedHolds == SafetySpec => StopObeyed
<1>1. Init => StopInv
  BY InitTypeOK DEF Init, ProcessInit, StopInv, StopKept, ToldToStop
<1>2. StopInv /\ [Next]_vars => StopInv'
  BY NextTypeOK, NextStop DEF StopInv
<1>3. StopInv /\ [Next]_vars => [StopStep]_vars
  BY NextStop
<1>4. StopObeyed <=> [][StopStep]_vars
  BY DEF StopObeyed, StopStep
<1> QED
  BY <1>1, <1>2, <1>3, <1>4, PTL DEF SafetySpec
----------------------------------------------------------------------------
(* The reporting layer is the mailbox of ReportMailbox.                    *)

MailboxStep == [Mailbox!Next]_(Mailbox!vars)

\* Whatever leaves alone the report and what the snapshot goroutines do.
LEMMA OtherMailbox ==
    ASSUME UNCHANGED reportToSend,
           \A s \in Slot : \/ sender'[s] = sender[s]
                           \/ /\ sender[s].stage = "idle"
                                 \/ sender[s].kind = "diagnostics"
                              /\ sender'[s].stage = "idle"
                                 \/ sender'[s].kind = "diagnostics"
                           \/ /\ sender[s].stage \in {"spawned", "sending"}
                              /\ sender'[s].stage \in {"spawned", "sending"}
                              /\ sender'[s].kind = sender[s].kind
    PROVE  MailboxStep
<1>1. Busy("snapshot")' = Busy("snapshot")
  BY DEF Busy
<1>2. \A s \in Busy("snapshot") :
        (sender'[s].stage # "resting") <=> (sender[s].stage # "resting")
  BY DEF Busy
<1>3. ReportPhase' = ReportPhase
  BY <1>1, <1>2 DEF ReportPhase, Busy
<1> QED
  BY <1>3 DEF MailboxStep, Mailbox!vars

\* While no report runs or rests the mailbox is quiet.
LEMMA QuietPhase ==
    ASSUME SenderInv, "snapshot" \notin running
    PROVE  ReportPhase = "quiet"
BY DEF SenderInv, SingleFlight, Kind, ReportPhase

\* While one goroutine is busy with a snapshot, its stage is the phase.
LEMMA BusyPhase ==
    ASSUME NEW s \in Slot, Busy("snapshot") = {s}
    PROVE  ReportPhase = IF sender[s].stage = "resting" THEN "resting" ELSE "sending"
BY DEF ReportPhase

LEMMA NextMailbox == SenderInv /\ SenderInv' /\ [Next]_vars => MailboxStep
<1> SUFFICES ASSUME SenderInv, SenderInv', [Next]_vars PROVE MailboxStep
  OBVIOUS
<1>1. CASE Killed \/ CommandPanics \/ \E s \in Slot : SenderPanics(s)
  <2>1. reportToSend' = None /\ Busy("snapshot")' = {}
    BY <1>1 DEF Killed, CommandPanics, SenderPanics, Die, Busy, Idle
  <2>2. ReportPhase' = "quiet"
    BY <2>1 DEF ReportPhase
  <2> QED
    BY <2>1, <2>2 DEF MailboxStep, Mailbox!Next, Mailbox!Lost
<1>2. CASE UNCHANGED <<reportToSend, sender>>
  BY <1>2, OtherMailbox
<1>3. CASE Process
  <2>1. CASE UNCHANGED reportToSend
    BY <1>2, <1>3, <2>1 DEF Process, senders
  <2>2. CASE ~UNCHANGED reportToSend
    <3>1. /\ "snapshot" \notin running /\ reportToSend' \in Identity
          /\ UNCHANGED senders
      BY <1>3, <2>2 DEF Process, ProcessSnapshot, senders
    <3>2. ReportPhase = "quiet" /\ ReportPhase' = "quiet"
      BY <3>1, QuietPhase DEF senders, ReportPhase, Busy
    <3> QED
      BY <3>1, <3>2 DEF MailboxStep, Mailbox!Next, Mailbox!Produce
  <2> QED
    BY <2>1, <2>2
<1>4. CASE Report
  <2>1. CASE MayReport /\ ReportSnapshot
    <3>1. /\ ReportPhase = "quiet" /\ reportToSend # None
          /\ reportToSend' = None
      BY <2>1, QuietPhase DEF MayReport, ReportSnapshot
    <3>2. PICK s \in Slot :
            sender' = [sender EXCEPT ![s] = [stage |-> "spawned", kind |-> "snapshot",
                                             comm |-> None, delay |-> minReportPeriod]]
      BY <2>1 DEF ReportSnapshot, Spawn
    <3>3. sender'[s].stage = "spawned" /\ sender'[s].kind = "snapshot"
      BY <3>2 DEF SenderInv, TypeOK, SenderTypeOK
    <3>4. s \in Busy("snapshot")'
      BY <3>3 DEF Busy
    <3>5. ReportPhase' = "sending"
      BY <3>3, <3>4 DEF ReportPhase
    <3> QED
      BY <3>1, <3>5 DEF MailboxStep, Mailbox!Next, Mailbox!Launch
  <2>2. CASE UNCHANGED <<reportToSend, senders>>
    BY <1>2, <2>2 DEF senders
  <2> QED
    BY <1>4, <2>1, <2>2 DEF Report
<1>5. CASE Diagnose
  <2>1. UNCHANGED reportToSend
    BY <1>5 DEF Diagnose
  <2>2. CASE UNCHANGED senders
    BY <1>2, <2>1, <2>2 DEF senders
  <2>3. CASE Spawn("diagnostics")
    BY <2>1, <2>3, OtherMailbox DEF Spawn, SenderInv, TypeOK, SenderTypeOK
  <2> QED
    BY <1>5, <2>2, <2>3 DEF Diagnose, ReportDiagnostics, NoDiagnostics
<1>6. ASSUME NEW s \in Slot, Dereference(s) PROVE MailboxStep
  <2>1. /\ sender[s].stage = "spawned" /\ sender'[s].stage = "sending"
        /\ sender'[s].kind = sender[s].kind
        /\ \A t \in Slot : t # s => sender'[t] = sender[t]
        /\ UNCHANGED reportToSend
    BY <1>6 DEF Dereference, SenderInv, TypeOK, SenderTypeOK, identityVars
  <2> QED
    BY <2>1, OtherMailbox
<1>7. ASSUME NEW s \in Slot, SendReturns(s) \/ Wake(s) PROVE MailboxStep
  <2>1. /\ sender[s].stage \in {"sending", "resting"}
        /\ sender[s].stage = "sending" =>
              sender'[s].stage = "resting" /\ sender'[s].kind = sender[s].kind
        /\ sender[s].stage = "resting" => sender'[s].stage = "idle"
        /\ \A t \in Slot : t # s => sender'[t] = sender[t]
        /\ UNCHANGED reportToSend
    BY <1>7 DEF SendReturns, Wake, Idle, SenderInv, TypeOK, SenderTypeOK, identityVars
  <2>2. CASE sender[s].kind = "diagnostics"
    BY <2>1, <2>2, OtherMailbox
  <2>3. CASE sender[s].kind = "snapshot"
    <3>1. Busy("snapshot") = {s}
      BY <2>1, <2>3 DEF SenderInv, SingleFlight, Busy, Kind
    <3>2. CASE sender[s].stage = "sending"
      <4>1. Busy("snapshot")' = {s}
        BY <2>1, <2>3, <3>1, <3>2 DEF Busy
      <4>2. ReportPhase = "sending"
        BY <3>1, <3>2, BusyPhase
      <4>3. ReportPhase' = "resting"
        BY <2>1, <3>2, <4>1 DEF ReportPhase
      <4> QED
        BY <2>1, <4>2, <4>3 DEF MailboxStep, Mailbox!Next, Mailbox!SendReturns
    <3>3. CASE sender[s].stage = "resting"
      <4>1. Busy("snapshot")' = {}
        BY <2>1, <2>3, <3>1, <3>3 DEF Busy
      <4>2. ReportPhase = "resting"
        BY <3>1, <3>3, BusyPhase
      <4>3. ReportPhase' = "quiet"
        BY <4>1 DEF ReportPhase
      <4> QED
        BY <2>1, <4>2, <4>3 DEF MailboxStep, Mailbox!Next, Mailbox!Rested
    <3> QED
      BY <2>1, <3>2, <3>3
  <2>4. sender[s].kind \in Kind
    BY DEF SenderInv, TypeOK, SenderTypeOK
  <2> QED
    BY <2>2, <2>3, <2>4 DEF Kind
<1>8. CASE UNCHANGED vars
  BY <1>2, <1>8 DEF vars, identityVars, senders
<1> USE DEF identityVars, senders
<1>9. CASE ConfigChange \/ EndpointChange \/ Cancel \/ Restart
  BY <1>2, <1>9 DEF ConfigChange, EndpointChange, Cancel, Restart
<1>10. CASE Starting
  BY <1>2, <1>10 DEF Starting, SubscribeConfig, waitForAPIKey, GiveUpWaiting,
                     DetectEmissary, SubscribeAmbassador
<1>11. CASE WatchReturns \/ Tick \/ ConfigNotice \/ ConfigMapRead \/ AmbassadorNotice
           \/ HandleDirective
  BY <1>2, <1>11 DEF WatchReturns, Tick, ConfigNotice, ConfigMapRead, AmbassadorNotice,
                     HandleDirective
<1>12. CASE AlreadyConnected \/ NewComm \/ DialFails
  BY <1>2, <1>12 DEF AlreadyConnected, NewComm, DialFails
<1>13. CASE \E c \in CommId : Retriever(c)
  BY <1>2, <1>13 DEF Retriever, Receive, Deliver, RetrieverExits
<1> QED
  BY <1>1, <1>3, <1>4, <1>5, <1>6, <1>7, <1>8, <1>9, <1>10, <1>11, <1>12, <1>13
     DEF Next, Environment, MainLoop, Select, Body, Sender

\* The loop and its report goroutines implement the one-place mailbox with one
\* sender (doc.go:118-131): the safety part of ImplementsMailbox.
THEOREM MailboxImplemented ==
    SafetySpec => Mailbox!Init /\ [][Mailbox!Next]_(Mailbox!vars)
<1>1. Init => SenderInv
  BY InitSenderInv
<1>2. SenderInv /\ [Next]_vars => SenderInv'
  BY NextSenderInv
<1>3. Init => Mailbox!Init
  BY DEF Init, ProcessInit, Mailbox!Init, ReportPhase, Busy, Idle
<1>4. SenderInv /\ SenderInv' /\ [Next]_vars => [Mailbox!Next]_(Mailbox!vars)
  BY NextMailbox DEF MailboxStep
<1> QED
  BY <1>1, <1>2, <1>3, <1>4, PTL DEF SafetySpec
----------------------------------------------------------------------------
(* What the loop does to each of its connections is what RPCComm's         *)
(* contract, DirectiveChannel, lets it do.                                 *)

\* A connection, as the contract sees it.
Channel(c) == INSTANCE DirectiveChannel
                 WITH state <- comms[c].state, held <- comms[c].held,
                      directive <- comms[c].directive

ChannelStep(c) == [Channel(c)!Next]_(Channel(c)!vars)

\* Whatever leaves the objects alone.
LEMMA OtherChannel ==
    ASSUME NEW c \in CommId, UNCHANGED <<comms, ctxDone>>
    PROVE  ChannelStep(c)
BY DEF ChannelStep, Channel!vars

\* With the process, every connection goes.
LEMMA DieChannel ==
    ASSUME NEW c \in CommId, Die
    PROVE  ChannelStep(c)
<1>1. Channel(c)!Reset
  BY DEF Die, NewObject, Channel!Reset
<1> QED
  BY <1>1 DEF ChannelStep, Channel!Next

\* A change of the token closes the one in use, once.
LEMMA APIKeyChannel ==
    ASSUME TypeOK, NEW c \in CommId, ReadsKey, ctxDone' = ctxDone
    PROVE  ChannelStep(c)
<1>1. comms' = comms \/ ClearComm
  BY KeyRead DEF maybeResetComm
<1>2. CASE comms' = comms
  BY <1>2, OtherChannel
<1>3. CASE ClearComm
  <2>1. comms'[c] = IF c = comm /\ comms[c].state = "open"
                    THEN [comms[c] EXCEPT !.state = "closing"] ELSE comms[c]
    BY <1>3 DEF ClearComm
  <2>2. CASE c = comm /\ comms[c].state = "open"
    <3>1. /\ comms'[c].state = "closing" /\ comms'[c].held = comms[c].held
          /\ comms'[c].directive = comms[c].directive
      BY <2>1, <2>2 DEF TypeOK, ConnTypeOK
    <3>2. Channel(c)!Close
      BY <2>2, <3>1 DEF Channel!Close
    <3> QED
      BY <3>2 DEF ChannelStep, Channel!Next
  <2>3. CASE ~(c = comm /\ comms[c].state = "open")
    BY <2>1, <2>3 DEF ChannelStep, Channel!vars
  <2> QED
    BY <2>2, <2>3
<1> QED
  BY <1>1, <1>2, <1>3

LEMMA NextChannel ==
    ASSUME TypeOK, [Next]_vars, NEW c \in CommId
    PROVE  ChannelStep(c)
<1> USE DEF cluster, notices, identityVars, directed, senders, conn
<1>0. comms[c] \in [state : {"unused", "open", "closing", "closed"}, key : Token,
                    identity : Identity \cup {None}, held : Directive \cup {None},
                    directive : Directive \cup {None}]
      /\ comms = [b \in CommId |-> comms[b]]
  BY DEF TypeOK, ConnTypeOK
<1>1. CASE Killed \/ CommandPanics \/ \E s \in Slot : SenderPanics(s)
  BY <1>1, DieChannel DEF Killed, CommandPanics, SenderPanics
<1>2. CASE waitForAPIKey \/ ConfigNotice \/ ConfigMapRead
  <2>1. ReadsKey
    BY <1>2 DEF waitForAPIKey, ConfigNotice, ConfigMapRead, ReadsKey
  <2> QED
    BY <1>2, <2>1, APIKeyChannel DEF waitForAPIKey, ConfigNotice, ConfigMapRead
<1>3. CASE Cancel
  <2>1. Channel(c)!Cancel
    BY <1>3 DEF Cancel, Channel!Cancel
  <2> QED
    BY <2>1 DEF ChannelStep, Channel!Next
<1>4. CASE ConfigChange \/ EndpointChange \/ Restart \/ SubscribeConfig \/ GiveUpWaiting
           \/ DetectEmissary \/ SubscribeAmbassador
  BY <1>4, OtherChannel DEF ConfigChange, EndpointChange, Restart, SubscribeConfig,
                            GiveUpWaiting, DetectEmissary, SubscribeAmbassador
<1>5. CASE WatchReturns \/ Tick \/ AmbassadorNotice \/ Process \/ AlreadyConnected
           \/ DialFails \/ Report \/ Diagnose
  BY <1>5, OtherChannel DEF WatchReturns, Tick, AmbassadorNotice, Process,
                            AlreadyConnected, DialFails, Report, Diagnose
<1>6. CASE \E s \in Slot : Dereference(s) \/ SendReturns(s) \/ Wake(s)
  BY <1>6, OtherChannel DEF Dereference, SendReturns, Wake
\* A step inside one object is seen only there.
<1>7. ASSUME NEW b \in CommId, NEW object, comms' = [comms EXCEPT ![b] = object],
             ctxDone' = ctxDone, b = c => ChannelStep(c)
      PROVE  ChannelStep(c)
  <2>1. CASE b # c
    <3>1. comms'[c] = comms[c]
      BY <1>0, <1>7, <2>1
    <3> QED
      BY <1>7, <3>1 DEF ChannelStep, Channel!vars
  <2> QED
    BY <1>7, <2>1
<1>8. CASE HandleDirective
  <2>1. /\ newDirective \in CommId /\ comms[newDirective].directive # None
        /\ comms' = [comms EXCEPT ![newDirective].directive = None] /\ ctxDone' = ctxDone
    BY <1>8 DEF HandleDirective, TakeDirective, TypeOK, ConnTypeOK
  <2>2. ASSUME newDirective = c PROVE ChannelStep(c)
    <3>1. comms'[c].directive = None /\ comms'[c].state = comms[c].state
          /\ comms'[c].held = comms[c].held
      BY <1>0, <2>1, <2>2
    <3>2. Channel(c)!Take
      BY <2>1, <2>2, <3>1 DEF Channel!Take
    <3> QED
      BY <3>2 DEF ChannelStep, Channel!Next
  <2> QED
    BY <1>7, <2>1, <2>2
<1>9. CASE NewComm
  <2> DEFINE object == [state |-> "open", key |-> apiKey, identity |-> agentID,
                        held |-> None, directive |-> None]
  <2>1. PICK b \in CommId : Collectable(b) /\ comms' = [comms EXCEPT ![b] = object]
    BY <1>9 DEF NewComm
  <2>2. ctxDone' = ctxDone
    BY <1>9 DEF NewComm
  <2>3. ASSUME b = c PROVE ChannelStep(c)
    <3>1. comms'[c] = object
      BY <1>0, <2>1, <2>3
    <3>2. Channel(c)!New
      BY <2>1, <2>2, <2>3, <3>1 DEF Channel!New, Collectable
    <3> QED
      BY <3>2 DEF ChannelStep, Channel!Next
  <2> QED
    BY <1>7, <2>1, <2>2, <2>3
<1>10. ASSUME NEW b \in CommId, Retriever(b) PROVE ChannelStep(c)
  <2>1. ctxDone' = ctxDone /\ \E object : comms' = [comms EXCEPT ![b] = object]
    BY <1>10 DEF Retriever, Receive, Deliver, RetrieverExits
  <2>2. ASSUME b = c PROVE ChannelStep(c)
    <3>1. CASE Receive(c)
      <4>1. /\ comms'[c].held \in Directive /\ comms'[c].state = comms[c].state
            /\ comms'[c].directive = comms[c].directive
        BY <1>0, <3>1 DEF Receive
      <4>2. Channel(c)!Receive
        BY <2>1, <3>1, <4>1 DEF Receive, Retrieving, Channel!Receive, Channel!Retrieving
      <4> QED
        BY <4>2 DEF ChannelStep, Channel!Next
    <3>2. CASE Deliver(c)
      <4>1. /\ comms'[c].held = None /\ comms'[c].state = comms[c].state
            /\ comms'[c].directive = comms[c].held
        BY <1>0, <3>2 DEF Deliver
      <4>2. Channel(c)!Deliver
        BY <2>1, <3>2, <4>1 DEF Deliver, Retrieving, Channel!Deliver, Channel!Retrieving
      <4> QED
        BY <4>2 DEF ChannelStep, Channel!Next
    <3>3. CASE RetrieverExits(c)
      <4>1. /\ comms'[c].held = None /\ comms'[c].state = "closed"
            /\ comms'[c].directive = comms[c].directive
        BY <1>0, <3>3 DEF RetrieverExits
      <4>2. Channel(c)!Exit
        BY <2>1, <3>3, <4>1
           DEF RetrieverExits, Retrieving, Channel!Exit, Channel!Ending, Channel!Retrieving
      <4> QED
        BY <4>2 DEF ChannelStep, Channel!Next
    <3> QED
      BY <1>10, <2>2, <3>1, <3>2, <3>3 DEF Retriever
  <2> QED
    BY <1>7, <2>1, <2>2
<1>11. CASE UNCHANGED vars
  BY <1>11, OtherChannel DEF vars
<1> QED
  BY <1>1, <1>2, <1>3, <1>4, <1>5, <1>6, <1>8, <1>9, <1>10, <1>11
     DEF Next, Environment, MainLoop, Starting, Select, Body, Sender

\* Each connection, whatever the loop does to it and to the others, keeps to the contract:
\* it is closed at most once, is made again only where it has ended, and drops no directive
\* while in use: the safety part of KeepsChannel, for every one of any number of
\* connections (agent.go:550-564, 790-795; comm.go:69-112, 120-160).
THEOREM ChannelsKept ==
    ASSUME NEW c \in CommId
    PROVE  SafetySpec => Channel(c)!Init /\ [][Channel(c)!Next]_(Channel(c)!vars)
<1>1. Init => Channel(c)!Init
  BY DEF Init, ProcessInit, NewObject, Channel!Init
<1>2. TypeOK /\ [Next]_vars => [Channel(c)!Next]_(Channel(c)!vars)
  BY NextChannel DEF ChannelStep
<1> QED
  BY InitTypeOK, NextTypeOK, <1>1, <1>2, PTL DEF SafetySpec
=============================================================================
