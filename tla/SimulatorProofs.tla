-------------------------- MODULE SimulatorProofs --------------------------
(* Theorems about Simulator, for any runs, connectors and scenarios.         *)
EXTENDS Simulator, TLAPS

(* What a run asked for, once it has begun; a frame that was sent is one of  *)
(* its script.                                                               *)
RunInv ==
    /\ run \in [Runs -> [at : Places, scenario : Scenarios \cup {None},
                         connector : Numbers \cup {None}, step : 1 .. 7]]
    /\ \A r \in Runs : run[r].at # "idle" =>
          run[r].scenario \in Scenarios /\ run[r].connector \in Numbers
    /\ \A r \in Runs : run[r].at = "sent" => HasFrame(r)

LEMMA ScriptLength ==
    ASSUME NEW s, NEW r, NEW n
    PROVE  Len(Script(s, r, n)) \in 0 .. 6
BY DEF Script

LEMMA GoesType ==
    ASSUME RunInv, NEW r \in Runs, NEW place \in Places, Goes(r, place),
           run[r].at # "idle", place = "sent" => HasFrame(r)
    PROVE  RunInv'
<1>1. \A q \in Runs : /\ run'[q].scenario = run[q].scenario
                      /\ run'[q].connector = run[q].connector
                      /\ run'[q].step = run[q].step
                      /\ run'[q].at = IF q = r THEN place ELSE run[q].at
    BY DEF RunInv, Goes
<1>2. \A q \in Runs : HasFrame(q)' <=> HasFrame(q)
    BY <1>1 DEF HasFrame, ScriptOf
<1>3. run' \in [Runs -> [at : Places, scenario : Scenarios \cup {None},
                        connector : Numbers \cup {None}, step : 1 .. 7]]
    BY DEF RunInv, Goes
<1> QED
    BY <1>1, <1>2, <1>3 DEF RunInv

LEMMA RunStepInv == RunInv /\ [Next]_vars => RunInv'
<1> SUFFICES ASSUME RunInv, [Next]_vars
             PROVE  RunInv'
    OBVIOUS
<1>1. ASSUME NEW r \in Runs, NEW s \in Scenarios, NEW n \in Numbers,
             Begin(r, s, n)
      PROVE  RunInv'
    <2> DEFINE begun == [at |-> IF s \in Partner THEN "connecting"
                                ELSE "station",
                         scenario |-> s, connector |-> n, step |-> 1]
    <2>1. run' = [run EXCEPT ![r] = begun]
        BY <1>1 DEF Begin
    <2>2. \A q \in Runs : q # r => HasFrame(q)' = HasFrame(q)
        BY <2>1 DEF RunInv, HasFrame, ScriptOf
    <2> QED
        BY <2>1, <2>2 DEF RunInv, Places
<1>2. ASSUME NEW r \in Runs, Receive(r)
      PROVE  RunInv'
    <2>1. /\ run' = [run EXCEPT ![r].at = "open", ![r].step = @ + 1]
          /\ run[r].at = "sent"
        BY <1>2 DEF Receive
    <2>2. run[r].step \in 1 .. 6
        BY <2>1, ScriptLength DEF RunInv, HasFrame, ScriptOf
    <2>3. \A q \in Runs : q # r => HasFrame(q)' = HasFrame(q)
        BY <2>1 DEF RunInv, HasFrame, ScriptOf
    <2> QED
        BY <2>1, <2>2, <2>3 DEF RunInv, Places
<1>3. ASSUME NEW r \in Runs,
             \/ CheckStation(r) \/ CheckConnector(r) \/ Refuse(r) \/ Escape(r)
             \/ Open(r) \/ OpenFails(r) \/ Send(r) \/ SendRefused(r)
             \/ Finish(r) \/ Fail(r) \/ Lost(r)
      PROVE  RunInv'
    <2>1. PICK place \in Places : Goes(r, place) /\ (place = "sent" => HasFrame(r))
        BY <1>3 DEF CheckStation, CheckConnector, Refuse, Escape, Open,
           OpenFails, Send, SendRefused, Finish, Fail, Lost, Places
    <2>2. run[r].at # "idle"
        BY <1>3 DEF CheckStation, CheckConnector, Refuse, Escape, Open,
           OpenFails, Send, SendRefused, Finish, Fail, Lost
    <2> QED
        BY <2>1, <2>2, GoesType
<1>4. ASSUME UNCHANGED run
      PROVE  RunInv'
    BY <1>4 DEF RunInv, HasFrame, ScriptOf
<1> QED
    BY <1>1, <1>2, <1>3, <1>4 DEF Next, LoseReply, BackendRestart, vars

LEMMA RunInvAlways == Spec => []RunInv
<1>1. Init => RunInv
    BY DEF Init, RunInv, Places
<1> QED
    BY <1>1, RunStepInv, PTL DEF Spec

(* The frame a run sends is one of its scenario's.                           *)
LEMMA FrameType ==
    ASSUME RunInv, NEW r \in Runs, run[r].at = "open", HasFrame(r)
    PROVE  Frame(r) \in Frames
<1>1. run[r].scenario \in Scenarios /\ run[r].connector \in Numbers
      /\ run[r].step \in 1 .. 7
    BY DEF RunInv
<1>2. Len(ScriptOf(r)) \in 0 .. 6
    BY ScriptLength DEF ScriptOf
<1>3. Frame(r) \in FramesOf(ScriptOf(r))
    BY <1>1, <1>2 DEF FramesOf, Frame, HasFrame
<1> QED
    BY <1>1, <1>3 DEF Frames, ScriptOf

(* What the scenarios send.                                                  *)
LEMMA ScriptShape ==
    ASSUME NEW s, NEW r, NEW n, NEW i \in 1 .. Len(Script(s, r, n)),
           NEW frame, frame = Script(s, r, n)[i]
    PROVE  \/ frame \in {Beat(None), Begins(r, n), Sample(None, r),
                         Sample(MeterId(r), r), Stops(r)}
           \/ \E status \in {"Available", "Unavailable", "Faulted",
                             "SuspendedEVSE"} : frame = Report(n, status)
<1>1. CASE s = "happy-path-charging-session"
    BY <1>1 DEF Script
<1>2. CASE s = "duplicate-meter-value"
    BY <1>2 DEF Script
<1>3. CASE s \in {"station-offline-online", "connector-fault"}
    BY <1>3 DEF Script
<1>4. CASE s = "interrupted-session"
    BY <1>4 DEF Script
<1>5. CASE s \notin {"happy-path-charging-session", "duplicate-meter-value",
                    "station-offline-online", "connector-fault",
                    "interrupted-session"}
    BY <1>5 DEF Script
<1> QED
    BY <1>1, <1>2, <1>3, <1>4, <1>5

LEMMA FrameShape ==
    ASSUME NEW frame \in Frames
    PROVE  \E r \in Runs, n \in Numbers :
              \/ frame \in {Beat(None), Begins(r, n), Sample(None, r),
                            Sample(MeterId(r), r), Stops(r)}
              \/ \E status \in {"Available", "Unavailable", "Faulted",
                                "SuspendedEVSE"} : frame = Report(n, status)
<1>1. PICK s \in Scenarios, r \in Runs, n \in Numbers :
         frame \in FramesOf(Script(s, r, n))
    BY DEF Frames
<1>2. PICK i \in 1 .. Len(Script(s, r, n)) : frame = Script(s, r, n)[i]
    BY <1>1 DEF FramesOf
<1> QED
    BY <1>2, ScriptShape

-----------------------------------------------------------------------------
LEMMA BackendStep ==
    RunInv /\ [Next]_vars => [Backend!Next]_(Backend!vars)
<1> SUFFICES ASSUME RunInv, [Next]_vars
             PROVE  Backend!Next \/ UNCHANGED Backend!vars
    OBVIOUS
<1>1. UNCHANGED backend => UNCHANGED Backend!vars
    BY DEF backend, Backend!vars, Backend!db, Backend!socket
<1>2. ASSUME NEW r \in Runs, Send(r) \/ SendRefused(r)
      PROVE  Backend!Next
    <2>1. Frame(r) \in Frames
        BY <1>2, FrameType DEF Send, SendRefused
    <2> QED
        BY <1>2, <2>1 DEF Send, SendRefused, Handled, Backend!Next
<1>3. ASSUME NEW r \in Runs,
             Open(r) \/ Receive(r) \/ Finish(r) \/ Fail(r) \/ LoseReply(r)
      PROVE  Backend!Next \/ UNCHANGED backend
    BY <1>3 DEF Open, Receive, Finish, Fail, LoseReply, Backend!Next
<1>4. CASE BackendRestart
    BY <1>4 DEF BackendRestart, Backend!Next
<1>5. ASSUME NEW r \in Runs,
             \/ \E s \in Scenarios, n \in Numbers : Begin(r, s, n)
             \/ CheckStation(r) \/ CheckConnector(r) \/ Refuse(r) \/ Escape(r)
             \/ OpenFails(r) \/ Lost(r)
      PROVE  UNCHANGED backend
    BY <1>5 DEF Begin, CheckStation, CheckConnector, Refuse, Escape, OpenFails,
       Lost
<1>6. CASE UNCHANGED vars
    BY <1>1, <1>6 DEF vars
<1> QED
    BY <1>1, <1>2, <1>3, <1>4, <1>5, <1>6 DEF Next

(* Whatever scenario runs do, and however they overlap, the backend behaves  *)
(* as Ingestion: its invariants hold with the simulator too                  *)
(* (app.py:104-121, 384-411; ocpp.py:16-44).                                 *)
THEOREM SimulatorKeepsIngestion == Spec => Backend!Spec
<1>1. Init => Backend!Init
    BY DEF Init
<1> QED
    BY <1>1, BackendStep, RunInvAlways, PTL DEF Spec, Backend!Spec

-----------------------------------------------------------------------------
(* The theorems of Ingestion, for the backend of the simulator.              *)

Ingested == INSTANCE IngestionProofs WITH
    Stations <- {Station}, Connections <- Runs,
    StationOf <- [r \in Runs |-> Station],
    Workers <- {}, Calls <- Frames, Starts <- Runs,
    TxnId <- [k \in {Station} \X Runs |-> k[2]],
    Samples <- {"energy"},
    InitStation <- [s \in {Station} |->
                       [state |-> "online", online |-> TRUE, seen |-> "recent"]],
    InitConnector <- [k \in {Station} \X Numbers |-> "available"],
    AdminStations <- {}, AdminConnectors <- {}, QuietStations <- {}

(* Backend and Ingested are two instances of the same definitions.           *)
LEMMA SameTables ==
    /\ \A stored, list :
          Backend!Inserted(stored, list) = Ingested!Inserted(stored, list)
    /\ \A s, n : Backend!InterruptOne(s, n) => Ingested!InterruptOne(s, n)
<1>1. \A S : Backend!Cardinality(S) = Ingested!Cardinality(S)
    BY DEF Backend!Cardinality, Ingested!Cardinality
<1>2. \A x, list : Backend!Occurrences(x, list) = Ingested!Occurrences(x, list)
    BY <1>1 DEF Backend!Occurrences, Ingested!Occurrences
<1>3. \A stored, list :
         Backend!Inserted(stored, list) = Ingested!Inserted(stored, list)
    BY <1>2 DEF Backend!Inserted, Ingested!Inserted
<1>4. \A s, n : Backend!InterruptOne(s, n) => Ingested!InterruptOne(s, n)
    BY DEF Backend!InterruptOne, Ingested!InterruptOne, Backend!ActiveOn,
       Ingested!ActiveOn, Backend!Keys, Ingested!Keys, Backend!Allowed,
       Ingested!Allowed, Backend!SESSION_TRANSITIONS,
       Ingested!SESSION_TRANSITIONS
<1> QED
    BY <1>3, <1>4

LEMMA SameAcceptable ==
    ASSUME NEW c \in Runs, NEW call
    PROVE  /\ Backend!StatusAcceptable(c, call)
                  <=> Ingested!StatusAcceptable(c, call)
           /\ Backend!StartAcceptable(c, call)
                  <=> Ingested!StartAcceptable(c, call)
           /\ Backend!StopAcceptable(call) <=> Ingested!StopAcceptable(call)
<1>1. Backend!StatusAcceptable(c, call) <=> Ingested!StatusAcceptable(c, call)
    BY DEF Backend!StatusAcceptable, Ingested!StatusAcceptable,
       Backend!ConnectorState, Ingested!ConnectorState,
       Backend!ReportedState, Ingested!ReportedState, Backend!status_map,
       Ingested!status_map, Backend!StationStateFor,
       Ingested!StationStateFor, Backend!Allowed, Ingested!Allowed,
       Backend!STATION_TRANSITIONS, Ingested!STATION_TRANSITIONS,
       Backend!CONNECTOR_TRANSITIONS, Ingested!CONNECTOR_TRANSITIONS,
       Backend!SESSION_TRANSITIONS, Ingested!SESSION_TRANSITIONS,
       Backend!TRANSACTION_TRANSITIONS, Ingested!TRANSACTION_TRANSITIONS,
       Backend!ConnectorStates, Ingested!ConnectorStates
<1>2. Backend!StartAcceptable(c, call) <=> Ingested!StartAcceptable(c, call)
    BY DEF Backend!StartAcceptable, Ingested!StartAcceptable,
       Backend!ConnectorState, Ingested!ConnectorState, Backend!TxnIdFree,
       Ingested!TxnIdFree, Backend!Keys, Ingested!Keys
<1>3. Backend!StopAcceptable(call) <=> Ingested!StopAcceptable(call)
    BY DEF Backend!StopAcceptable, Ingested!StopAcceptable, Backend!Named,
       Ingested!Named, Backend!Keys, Ingested!Keys, Backend!Allowed,
       Ingested!Allowed, Backend!STATION_TRANSITIONS,
       Ingested!STATION_TRANSITIONS, Backend!CONNECTOR_TRANSITIONS,
       Ingested!CONNECTOR_TRANSITIONS, Backend!SESSION_TRANSITIONS,
       Ingested!SESSION_TRANSITIONS, Backend!TRANSACTION_TRANSITIONS,
       Ingested!TRANSACTION_TRANSITIONS, Backend!ConnectorStates,
       Ingested!ConnectorStates
<1> QED
    BY <1>1, <1>2, <1>3

LEMMA SameFrames ==
    ASSUME NEW c \in Runs, NEW call
    PROVE  /\ Backend!Duplicate(c, call) => Ingested!Duplicate(c, call)
           /\ Backend!Reject(c, call) => Ingested!Reject(c, call)
           /\ Backend!HandleHeartbeat(c, call)
                 => Ingested!HandleHeartbeat(c, call)
           /\ Backend!HandleAuthorize(c, call)
                 => Ingested!HandleAuthorize(c, call)
           /\ Backend!HandleStatus(c, call) => Ingested!HandleStatus(c, call)
           /\ Backend!HandleStart(c, call) => Ingested!HandleStart(c, call)
           /\ Backend!HandleMeter(c, call) => Ingested!HandleMeter(c, call)
           /\ Backend!HandleStop(c, call) => Ingested!HandleStop(c, call)
<1>1. ASSUME Backend!Duplicate(c, call)
      PROVE  Ingested!Duplicate(c, call)
    BY <1>1 DEF Backend!Duplicate, Ingested!Duplicate, Backend!Ready,
       Ingested!Ready, Backend!Idle, Ingested!Idle, Backend!db, Ingested!db,
       Backend!Recorded, Ingested!Recorded, Backend!Told, Ingested!Told,
       Backend!Existing, Ingested!Existing
<1>2. ASSUME Backend!Reject(c, call)
      PROVE  Ingested!Reject(c, call)
    BY <1>2, SameAcceptable DEF Backend!Reject, Ingested!Reject,
       Backend!Rejected, Ingested!Rejected, Backend!Ready, Ingested!Ready,
       Backend!Idle, Ingested!Idle, Backend!db, Ingested!db,
       Backend!Recorded, Ingested!Recorded, Backend!Allowed,
       Ingested!Allowed, Backend!STATION_TRANSITIONS,
       Ingested!STATION_TRANSITIONS
<1>3. ASSUME Backend!HandleHeartbeat(c, call)
      PROVE  Ingested!HandleHeartbeat(c, call)
    BY <1>3 DEF Backend!HandleHeartbeat, Ingested!HandleHeartbeat,
       Backend!Allowed, Ingested!Allowed, Backend!STATION_TRANSITIONS,
       Ingested!STATION_TRANSITIONS, Backend!Ready, Ingested!Ready,
       Backend!Idle, Ingested!Idle, Backend!Recorded, Ingested!Recorded,
       Backend!Handles, Ingested!Handles, Backend!Commit, Ingested!Commit,
       Backend!WriteStation, Ingested!WriteStation, Backend!Saved,
       Ingested!Saved, Backend!NetChange, Ingested!NetChange,
       Backend!Audited, Ingested!Audited
<1>4. ASSUME Backend!HandleAuthorize(c, call)
      PROVE  Ingested!HandleAuthorize(c, call)
    BY <1>4 DEF Backend!HandleAuthorize, Ingested!HandleAuthorize,
       Backend!Ready, Ingested!Ready, Backend!Idle, Ingested!Idle,
       Backend!Recorded, Ingested!Recorded, Backend!Handles,
       Ingested!Handles, Backend!Commit, Ingested!Commit,
       Backend!WriteStation, Ingested!WriteStation, Backend!Saved,
       Ingested!Saved, Backend!NetChange, Ingested!NetChange,
       Backend!Audited, Ingested!Audited
<1>5. ASSUME Backend!HandleStatus(c, call)
      PROVE  Ingested!HandleStatus(c, call)
    BY <1>5, SameAcceptable, SameTables DEF Backend!HandleStatus,
       Ingested!HandleStatus, Backend!Interrupts, Ingested!Interrupts,
       Backend!ReportedState, Ingested!ReportedState, Backend!status_map,
       Ingested!status_map, Backend!StationStateFor,
       Ingested!StationStateFor, Backend!ConnectorState,
       Ingested!ConnectorState, Backend!Ready, Ingested!Ready, Backend!Idle,
       Ingested!Idle, Backend!Recorded, Ingested!Recorded, Backend!Handles,
       Ingested!Handles, Backend!Commit, Ingested!Commit,
       Backend!WriteStation, Ingested!WriteStation, Backend!Saved,
       Ingested!Saved, Backend!NetChange, Ingested!NetChange,
       Backend!Audited, Ingested!Audited
<1>6. ASSUME Backend!HandleStart(c, call)
      PROVE  Ingested!HandleStart(c, call)
    BY <1>6, SameAcceptable DEF Backend!HandleStart, Ingested!HandleStart,
       Backend!NewSession, Ingested!NewSession, Backend!Ready,
       Ingested!Ready, Backend!Idle, Ingested!Idle, Backend!Recorded,
       Ingested!Recorded, Backend!Handles, Ingested!Handles, Backend!Commit,
       Ingested!Commit, Backend!WriteStation, Ingested!WriteStation,
       Backend!Saved, Ingested!Saved, Backend!NetChange, Ingested!NetChange,
       Backend!Audited, Ingested!Audited
<1>7. ASSUME Backend!HandleMeter(c, call)
      PROVE  Ingested!HandleMeter(c, call)
    BY <1>7, SameTables DEF Backend!HandleMeter, Ingested!HandleMeter,
       Backend!Named, Ingested!Named, Backend!Keys, Ingested!Keys,
       Backend!Ready, Ingested!Ready, Backend!Idle, Ingested!Idle,
       Backend!Recorded, Ingested!Recorded, Backend!Handles,
       Ingested!Handles, Backend!Commit, Ingested!Commit,
       Backend!WriteStation, Ingested!WriteStation, Backend!Saved,
       Ingested!Saved, Backend!NetChange, Ingested!NetChange,
       Backend!Audited, Ingested!Audited
<1>8. ASSUME Backend!HandleStop(c, call)
      PROVE  Ingested!HandleStop(c, call)
    BY <1>8, SameAcceptable DEF Backend!HandleStop, Ingested!HandleStop,
       Backend!Named, Ingested!Named, Backend!Completed, Ingested!Completed,
       Backend!Keys, Ingested!Keys, Backend!Ready, Ingested!Ready,
       Backend!Idle, Ingested!Idle, Backend!Recorded, Ingested!Recorded,
       Backend!Handles, Ingested!Handles, Backend!Commit, Ingested!Commit,
       Backend!WriteStation, Ingested!WriteStation, Backend!Saved,
       Ingested!Saved, Backend!NetChange, Ingested!NetChange,
       Backend!Audited, Ingested!Audited
<1> QED
    BY <1>1, <1>2, <1>3, <1>4, <1>5, <1>6, <1>7, <1>8

LEMMA SameNext == Backend!Next => Ingested!Next
<1>1. ASSUME NEW c \in Runs,
             \/ Backend!Connect(c) \/ Backend!Disconnect(c)
             \/ Backend!Reload(c) \/ Backend!Reply(c) \/ Backend!LoseReply(c)
      PROVE  \/ Ingested!Connect(c) \/ Ingested!Disconnect(c)
             \/ Ingested!Reload(c) \/ Ingested!Reply(c)
             \/ Ingested!LoseReply(c)
    BY <1>1 DEF Backend!Connect, Ingested!Connect, Backend!Disconnect,
       Ingested!Disconnect, Backend!Reload, Ingested!Reload, Backend!Reply,
       Ingested!Reply, Backend!LoseReply, Ingested!LoseReply, Backend!Close,
       Ingested!Close, Backend!Told, Ingested!Told, Backend!Idle,
       Ingested!Idle, Backend!db, Ingested!db
<1>2. Backend!BackendRestart => Ingested!BackendRestart
    BY DEF Backend!BackendRestart, Ingested!BackendRestart, Backend!db,
       Ingested!db
<1>3. Backend!StationCommit => Ingested!StationCommit
    BY DEF Backend!StationCommit, Ingested!StationCommit, Backend!Saved,
       Ingested!Saved, Backend!NetChange, Ingested!NetChange,
       Backend!socket, Ingested!socket
<1>4. /\ \A s : ~Backend!Silence(s)
      /\ \A s, online : ~Backend!StationLoad(s, online)
      /\ \A s, n, state : ~Backend!ConnectorSet(s, n, state)
    BY DEF Backend!Silence, Backend!StationLoad, Backend!ConnectorSet
<1> QED
    BY <1>1, <1>2, <1>3, <1>4, SameFrames DEF Backend!Next, Ingested!Next

LEMMA SameSpec == Backend!Spec => Ingested!Spec
<1>1. Backend!Init => Ingested!Init
    BY DEF Backend!Init, Ingested!Init, Backend!NoSweep, Ingested!NoSweep,
       Backend!Keys, Ingested!Keys
<1>2. [Backend!Next]_(Backend!vars) => [Ingested!Next]_(Ingested!vars)
    BY SameNext DEF Backend!vars, Ingested!vars, Backend!db, Ingested!db,
       Backend!socket, Ingested!socket
<1> QED
    BY <1>1, <1>2, PTL DEF Backend!Spec, Ingested!Spec

-----------------------------------------------------------------------------
(* The assumptions of Ingestion hold of the simulator's frames.              *)
LEMMA AssumptionsHold ==
    Ingested!IngestionAssumption /\ Ingested!NoneAssumption
<1>1. ASSUME NEW call \in Frames
      PROVE  /\ call.action = "StartTransaction" => call.id \in Runs
             /\ call.action \in {"StartTransaction", "StatusNotification"}
                   => call.connector \in Numbers
             /\ call.action = "MeterValues" => call.samples \in Seq({"energy"})
    <2>1. PICK r \in Runs, n \in Numbers :
             \/ call \in {Beat(None), Begins(r, n), Sample(None, r),
                          Sample(MeterId(r), r), Stops(r)}
             \/ \E status \in {"Available", "Unavailable", "Faulted",
                               "SuspendedEVSE"} : call = Report(n, status)
        BY FrameShape
    <2>2. CASE call = Beat(None)
        BY <2>2 DEF Beat
    <2>3. CASE call = Begins(r, n)
        BY <2>3 DEF Begins
    <2>4. CASE call \in {Sample(None, r), Sample(MeterId(r), r)}
        <3>1. call.action = "MeterValues" /\ call.samples = <<"energy">>
            BY <2>4 DEF Sample
        <3>2. <<"energy">> \in Seq({"energy"})
            OBVIOUS
        <3> QED
            BY <3>1, <3>2
    <2>5. CASE call = Stops(r)
        BY <2>5 DEF Stops
    <2>6. CASE \E status \in {"Available", "Unavailable", "Faulted",
                             "SuspendedEVSE"} : call = Report(n, status)
        BY <2>6 DEF Report
    <2> QED
        BY <2>1, <2>2, <2>3, <2>4, <2>5, <2>6
<1>2. Ingested!IngestionAssumption
    BY <1>1 DEF Ingested!IngestionAssumption, Ingested!StationRow,
       Ingested!StationStates, Ingested!ConnectorStates
<1>3. Ingested!NoneAssumption
    BY SimulatorAssumption DEF SimulatorAssumption, Ingested!NoneAssumption, Backend!StationRow, Ingested!StationRow,
       Backend!Session, Ingested!Session, Backend!AdminRequest,
       Ingested!AdminRequest, Backend!StationStates, Ingested!StationStates,
       Backend!ConnectorStates, Ingested!ConnectorStates,
       Backend!SessionStates, Ingested!SessionStates,
       Backend!TransactionStates, Ingested!TransactionStates
<1> QED
    BY <1>2, <1>3

(* Whatever scenario runs do, and however they overlap, restart or lose      *)
(* replies, the backend keeps what it promises: starts take effect once,     *)
(* what a run was told exists, the rows of a session agree, no report of an  *)
(* end, a fault or of availability is refused, and the sample that the       *)
(* duplicate scenario sends twice is stored once (app.py:104-121, 156-316;   *)
(* ingestion.py:236-568).                                                    *)
THEOREM BackendKeepsPromises ==
    Spec => [](/\ Backend!StartsMatchSessions
               /\ Backend!ToldIsDurable
               /\ Backend!SessionsAgree
               /\ Backend!ReportsNeverRefused
               /\ Backend!SamplesStoredOnce)
<1>1. ASSUME NEW call \in Frames, call.action = "MeterValues"
      PROVE  \A i, j \in DOMAIN call.samples :
                call.samples[i] = call.samples[j] => i = j
    <2>1. call.samples = <<"energy">>
        BY <1>1, FrameShape DEF Beat, Begins, Sample, Stops, Report
    <2> QED
        BY <2>1
<1>2. Ingested!Spec => []Ingested!StartsMatchSessions
    BY AssumptionsHold, Ingested!StartsAlwaysMatch
<1>3. Ingested!Spec => []Ingested!ToldIsDurable
    BY AssumptionsHold, Ingested!ToldAlwaysDurable
<1>4. Ingested!Spec => []Ingested!SessionsAgree
    BY AssumptionsHold, Ingested!SessionsAlwaysAgree
<1>5. Ingested!Spec => []Ingested!ReportsNeverRefused
    BY AssumptionsHold, Ingested!ReportsAlwaysAccepted
<1>6. Ingested!Spec => []Ingested!SamplesStoredOnce
    BY <1>1, AssumptionsHold, Ingested!SamplesAlwaysOnce
<1>7. Ingested!StartsMatchSessions => Backend!StartsMatchSessions
    BY DEF Backend!StartsMatchSessions, Ingested!StartsMatchSessions,
       Backend!Keys, Ingested!Keys
<1>8. Ingested!ToldIsDurable => Backend!ToldIsDurable
    BY DEF Backend!ToldIsDurable, Ingested!ToldIsDurable
<1>9. Ingested!SessionsAgree => Backend!SessionsAgree
    BY DEF Backend!SessionsAgree, Ingested!SessionsAgree, Backend!Keys,
       Ingested!Keys
<1>10. Ingested!ReportsNeverRefused => Backend!ReportsNeverRefused
    BY SameAcceptable DEF Backend!ReportsNeverRefused,
       Ingested!ReportsNeverRefused
<1>11. Ingested!SamplesStoredOnce => Backend!SamplesStoredOnce
    BY DEF Backend!SamplesStoredOnce, Ingested!SamplesStoredOnce,
       Backend!Keys, Ingested!Keys
<1> QED
    BY <1>2, <1>3, <1>4, <1>5, <1>6, <1>7, <1>8, <1>9, <1>10, <1>11,
       SimulatorKeepsIngestion, SameSpec, PTL

(* Whatever runs send, lose or repeat, the backend keeps the contract of its *)
(* transactions: a start has at most one charge, which no frame about        *)
(* another touches and which never begins again (app.py:384-411,             *)
(* ingestion.py:250-264, 384-418, 510-544).                                  *)
THEOREM SimulatorKeepsCharge == Spec => Backend!KeepsCharge
<1>1. Ingested!Spec => Ingested!KeepsCharge
    BY AssumptionsHold, Ingested!ImplementsCharge
<1> DEFINE carried == [k \in Ingested!Keys |-> Ingested!ChargeOf(k)]
           charged == [k \in Backend!Keys |-> Backend!ChargeOf(k)]
<1>2. carried = charged /\ carried' = charged'
    BY DEF Ingested!ChargeOf, Backend!ChargeOf, Ingested!Keys, Backend!Keys
<1>3. Ingested!Charges!Init => Backend!Charges!Init
    BY <1>2 DEF Ingested!Charges!Init, Backend!Charges!Init, Ingested!Keys,
       Backend!Keys
<1>4. [Ingested!Charges!Next]_(Ingested!Charges!vars)
          => [Backend!Charges!Next]_(Backend!Charges!vars)
    <2>1. Ingested!Charges!vars' = Ingested!Charges!vars
              => Backend!Charges!vars' = Backend!Charges!vars
        BY <1>2 DEF Ingested!Charges!vars, Backend!Charges!vars
    <2>2. ASSUME NEW k \in Ingested!Keys
          PROVE  /\ \A n \in Numbers : Ingested!Charges!Begin(k, n)
                                           => Backend!Charges!Begin(k, n)
                 /\ Ingested!Charges!Interrupt(k)
                       => Backend!Charges!Interrupt(k)
                 /\ Ingested!Charges!Complete(k) => Backend!Charges!Complete(k)
                 /\ Ingested!Charges!Tell(k) => Backend!Charges!Tell(k)
        BY <1>2
        DEF Ingested!Charges!Begin, Backend!Charges!Begin,
            Ingested!Charges!Interrupt, Backend!Charges!Interrupt,
            Ingested!Charges!Complete, Backend!Charges!Complete,
            Ingested!Charges!Tell, Backend!Charges!Tell
    <2>3. Ingested!Keys = Backend!Keys
        BY DEF Ingested!Keys, Backend!Keys
    <2> QED
        BY <2>1, <2>2, <2>3 DEF Ingested!Charges!Next, Backend!Charges!Next
<1>5. Ingested!KeepsCharge => Backend!KeepsCharge
    BY <1>3, <1>4, PTL DEF Ingested!KeepsCharge, Backend!KeepsCharge,
       Ingested!Charges!Spec, Backend!Charges!Spec
<1> QED
    BY <1>1, <1>5, SimulatorKeepsIngestion, SameSpec, PTL

(* A step leaves the flags alone, clears them or sets one of them.           *)
LEMMA SharedStep ==
    ASSUME shared \in [connected : BOOLEAN, running : BOOLEAN], [Next]_vars
    PROVE  (shared \in [connected : BOOLEAN, running : BOOLEAN])'
<1>1. ASSUME NEW r \in Runs, NEW s \in Scenarios, NEW n \in Numbers,
             Begin(r, s, n)
      PROVE  shared' = [connected |-> FALSE, running |-> TRUE]
    BY <1>1 DEF Begin
<1>2. ASSUME NEW r \in Runs,
             Refuse(r) \/ OpenFails(r) \/ Finish(r) \/ Fail(r) \/ Lost(r)
      PROVE  shared' = [connected |-> FALSE, running |-> FALSE]
    BY <1>2 DEF Refuse, OpenFails, Finish, Fail, Lost, Cleared
<1>3. ASSUME NEW r \in Runs, Open(r)
      PROVE  shared' = [shared EXCEPT !.connected = TRUE]
    BY <1>3 DEF Open
<1>4. ASSUME NEW r \in Runs,
             \/ CheckStation(r) \/ CheckConnector(r) \/ Escape(r)
             \/ Send(r) \/ SendRefused(r) \/ Receive(r) \/ LoseReply(r)
      PROVE  UNCHANGED shared
    BY <1>4 DEF CheckStation, CheckConnector, Escape, Send, SendRefused,
       Receive, LoseReply
<1>5. BackendRestart \/ UNCHANGED vars => UNCHANGED shared
    BY DEF BackendRestart, vars
<1>6. \/ shared' = [connected |-> FALSE, running |-> TRUE]
      \/ shared' = [connected |-> FALSE, running |-> FALSE]
      \/ shared' = [shared EXCEPT !.connected = TRUE]
      \/ shared' = shared
    BY <1>1, <1>2, <1>3, <1>4, <1>5 DEF Next
<1>7. ASSUME NEW flags \in [connected : BOOLEAN, running : BOOLEAN]
      PROVE  [flags EXCEPT !.connected = TRUE]
                \in [connected : BOOLEAN, running : BOOLEAN]
    BY Zenon
<1>8. /\ [connected |-> FALSE, running |-> TRUE]
            \in [connected : BOOLEAN, running : BOOLEAN]
      /\ [connected |-> FALSE, running |-> FALSE]
            \in [connected : BOOLEAN, running : BOOLEAN]
    BY Zenon
<1> QED
    BY <1>6, <1>7, <1>8

(* The backend's rows and connections, the shared flags and every run keep   *)
(* their types (app.py:43-60, 384-425).                                      *)
THEOREM TypeCorrect == Spec => []TypeOK
<1>1. Ingested!Spec => []Ingested!TypeOK
    BY AssumptionsHold, Ingested!TypeCorrect
<1>2. Ingested!TypeOK => Backend!TypeOK
    BY DEF Backend!TypeOK, Ingested!TypeOK, Backend!Keys, Ingested!Keys,
       Backend!StationRow, Ingested!StationRow, Backend!Session,
       Ingested!Session, Backend!AdminRequest, Ingested!AdminRequest,
       Backend!StationStates, Ingested!StationStates,
       Backend!ConnectorStates, Ingested!ConnectorStates,
       Backend!SessionStates, Ingested!SessionStates,
       Backend!TransactionStates, Ingested!TransactionStates
<1>3. Init => shared \in [connected : BOOLEAN, running : BOOLEAN]
    BY DEF Init
<1>4. shared \in [connected : BOOLEAN, running : BOOLEAN] /\ [Next]_vars =>
         (shared \in [connected : BOOLEAN, running : BOOLEAN])'
    BY SharedStep
<1>5. Backend!TypeOK /\ RunInv
      /\ shared \in [connected : BOOLEAN, running : BOOLEAN] => TypeOK
    BY DEF TypeOK, RunInv
<1> QED
    BY <1>1, <1>2, <1>3, <1>4, <1>5, RunInvAlways, SimulatorKeepsIngestion,
       SameSpec, PTL DEF Spec

-----------------------------------------------------------------------------
(* What a run of the charging scenario has had handled, and what that left   *)
(* in the backend: frame 4 starts the session, frame 6 stops it.             *)
Past(r, i) ==
    /\ run[r].at \in {"open", "sent", "completed"}
    /\ \/ run[r].step > i
       \/ run[r].at = "sent" /\ run[r].step = i

ScriptInv ==
    /\ \A r \in Runs :
          run[r].at \in {"station", "connector", "blocked", "connecting"} =>
             run[r].step = 1
    /\ \A r \in Runs : run[r].scenario = "happy-path-charging-session" =>
          /\ Past(r, 4) => session[<<Station, r>>] # None
          /\ Past(r, 6) => session[<<Station, r>>].state = "completed"
          /\ run[r].at = "completed" => Past(r, 6)

BackendInv ==
    /\ Ingested!ChargeInv
    /\ Ingested!RecordedHaveIds

LEMMA BackendInvAlways == Spec => []BackendInv
<1>1. Ingested!Spec => []Ingested!ChargeInv
    BY AssumptionsHold, Ingested!ChargeInvAlways
<1>2. Ingested!Spec => []Ingested!RecordedHaveIds
    BY AssumptionsHold, Ingested!RecordedHaveIdsAlways
<1>3. Ingested!ChargeInv /\ Ingested!RecordedHaveIds => BackendInv
    BY DEF BackendInv
<1> QED
    BY <1>1, <1>2, <1>3, SimulatorKeepsIngestion, SameSpec, PTL

LEMMA SessionsKept ==
    ASSUME RunInv, BackendInv, [Next]_vars, NEW r \in Runs,
           session[<<Station, r>>] # None
    PROVE  /\ session'[<<Station, r>>] # None
           /\ session[<<Station, r>>].state = "completed" =>
                 session'[<<Station, r>>].state = "completed"
<1>1. [Backend!Next]_(Backend!vars)
    BY BackendStep
<1>2. [Ingested!Next]_(Ingested!vars)
    BY <1>1, SameNext DEF Backend!vars, Ingested!vars, Backend!db, Ingested!db,
       Backend!socket, Ingested!socket
<1>3. <<Station, r>> \in Ingested!Keys
    BY DEF Ingested!Keys
<1> QED
    BY <1>2, <1>3, AssumptionsHold, Ingested!SessionsStay DEF BackendInv

(* A recorded message with the id of a start is that start, so the session   *)
(* exists also when the frame was answered as a duplicate.                   *)
LEMMA StartHandled ==
    ASSUME BackendInv, NEW r \in Runs, NEW n \in Numbers, Begins(r, n) \in Frames,
           Handled(r, Begins(r, n))
    PROVE  session'[<<Station, r>>] # None
<1> DEFINE key == <<Station, r>>
<1>1. key \in Ingested!Keys /\ [q \in Runs |-> Station][r] = Station
    BY DEF Ingested!Keys
<1>2. /\ Begins(r, n).action = "StartTransaction"
      /\ Begins(r, n).id = r /\ Begins(r, n).connector = n
    BY DEF Begins
<1>3. CASE Backend!HandleStart(r, Begins(r, n))
    <2>1. session' = [session EXCEPT ![key] = Backend!NewSession(n)]
        BY <1>1, <1>2, <1>3 DEF Backend!HandleStart
    <2>2. session \in [Ingested!Keys -> Ingested!Session \cup {None}]
        BY DEF BackendInv, Ingested!ChargeInv, Ingested!TypeInv, Ingested!TypeOK
    <2>3. Backend!NewSession(n) \in Backend!Session
        BY DEF Backend!NewSession, Backend!Session, Backend!SessionStates,
           Backend!TransactionStates
    <2> QED
        BY <1>1, <2>1, <2>2, <2>3, SimulatorAssumption DEF SimulatorAssumption
<1>4. CASE Backend!Duplicate(r, Begins(r, n))
    <2>1. PICK m \in messages[Station] : m.id = r
        BY <1>1, <1>2, <1>4 DEF Backend!Duplicate, Backend!Recorded
    <2>2. m \in Frames
        BY DEF BackendInv, Ingested!ChargeInv, Ingested!TypeInv, Ingested!TypeOK
    <2>3. m.action = "StartTransaction"
        <3>1. PICK q \in Runs, k \in Numbers :
                 \/ m \in {Beat(None), Begins(q, k), Sample(None, q),
                           Sample(MeterId(q), q), Stops(q)}
                 \/ \E status \in {"Available", "Unavailable", "Faulted",
                                   "SuspendedEVSE"} : m = Report(k, status)
            BY <2>2, FrameShape
        <3>2. m.id # None /\ m.id # MeterId(q)
            BY <2>1, SimulatorAssumption DEF SimulatorAssumption
        <3> QED
            BY <3>1, <3>2 DEF Beat, Begins, Sample, Stops, Report
    <2>4. session[key] # None
        BY <1>1, <2>1, <2>3 DEF BackendInv, Ingested!ChargeInv,
           Ingested!StartsMatchSessions
    <2>5. session' = session
        BY <1>4 DEF Backend!Duplicate, Backend!db
    <2> QED
        BY <2>4, <2>5
<1>5. CASE \/ Backend!HandleHeartbeat(r, Begins(r, n))
           \/ Backend!HandleStatus(r, Begins(r, n))
           \/ Backend!HandleMeter(r, Begins(r, n))
           \/ Backend!HandleStop(r, Begins(r, n))
    BY <1>2, <1>5 DEF Backend!HandleHeartbeat, Backend!HandleStatus,
       Backend!HandleMeter, Backend!HandleStop, Backend!Handles
<1> QED
    BY <1>3, <1>4, <1>5 DEF Handled

(* The stop has no id of its own, so it is never taken for a duplicate, and  *)
(* it names the run's own session.                                           *)
LEMMA StopHandled ==
    ASSUME BackendInv, NEW r \in Runs, Handled(r, Stops(r)),
           session[<<Station, r>>] # None
    PROVE  session'[<<Station, r>>].state = "completed"
<1> DEFINE key == <<Station, r>>
<1>1. /\ key \in Backend!Keys /\ [q \in Runs |-> Station][r] = Station
      /\ [k \in {Station} \X Runs |-> k[2]][key] = r
    BY DEF Backend!Keys
<1>2. /\ Stops(r).action = "StopTransaction"
      /\ Stops(r).id = None /\ Stops(r).txn = r
    BY DEF Stops
<1>3. CASE Backend!HandleStop(r, Stops(r))
    <2>1. session'[key] = IF key \in Backend!Named(Stops(r))
                          THEN Backend!Completed(session[key]) ELSE session[key]
        BY <1>1, <1>3 DEF Backend!HandleStop
    <2>2. key \in Backend!Named(Stops(r))
        BY <1>1, <1>2 DEF Backend!Named
    <2>3. session[key] \in Ingested!Session
        BY <1>1 DEF BackendInv, Ingested!ChargeInv, Ingested!TypeInv,
           Ingested!TypeOK, Backend!Keys, Ingested!Keys
    <2>4. Backend!Completed(session[key]).state = "completed"
        BY <2>3 DEF Backend!Completed, Ingested!Session
    <2> QED
        BY <2>1, <2>2, <2>4
<1>4. CASE Backend!Duplicate(r, Stops(r))
    <2>1. \E m \in messages[Station] : m.id = None
        BY <1>1, <1>2, <1>4 DEF Backend!Duplicate, Backend!Recorded
    <2> QED
        BY <2>1 DEF BackendInv, Ingested!RecordedHaveIds
<1>5. CASE \/ Backend!HandleHeartbeat(r, Stops(r))
           \/ Backend!HandleStatus(r, Stops(r))
           \/ Backend!HandleStart(r, Stops(r))
           \/ Backend!HandleMeter(r, Stops(r))
    BY <1>2, <1>5 DEF Backend!HandleHeartbeat, Backend!HandleStatus,
       Backend!HandleStart, Backend!HandleMeter, Backend!Handles
<1> QED
    BY <1>3, <1>4, <1>5 DEF Handled

LEMMA HappyScript ==
    ASSUME NEW r, NEW n
    PROVE  LET script == Script("happy-path-charging-session", r, n)
           IN  /\ Len(script) = 6
               /\ script[4] = Begins(r, n)
               /\ script[6] = Stops(r)
BY DEF Script

LEMMA ScriptStep ==
    ASSUME RunInv, BackendInv, ScriptInv, [Next]_vars
    PROVE  ScriptInv'
<1> DEFINE happy == "happy-path-charging-session"
           Kept(q) == /\ session[<<Station, q>>] # None =>
                            session'[<<Station, q>>] # None
                      /\ session[<<Station, q>>] # None
                         /\ session[<<Station, q>>].state = "completed" =>
                            session'[<<Station, q>>].state = "completed"
           (* The part of ScriptInv about one run.                           *)
           Of(q) == /\ run[q].at \in {"station", "connector", "blocked",
                                      "connecting"} => run[q].step = 1
                    /\ run[q].scenario = happy =>
                         /\ Past(q, 4) => session[<<Station, q>>] # None
                         /\ Past(q, 6) =>
                               session[<<Station, q>>].state = "completed"
                         /\ run[q].at = "completed" => Past(q, 6)
<1>1. \A q \in Runs : Kept(q)
    BY SessionsKept
<1>2. \A q \in Runs : Past(q, 6) => Past(q, 4)
    BY DEF Past, RunInv
<1>3. ASSUME NEW q \in Runs, run'[q] = run[q]
      PROVE  Of(q)'
    BY <1>1, <1>2, <1>3 DEF ScriptInv, Past
<1>4. ASSUME NEW r \in Runs, NEW s \in Scenarios, NEW n \in Numbers,
             Begin(r, s, n)
      PROVE  Of(r)'
    BY <1>4 DEF Begin, Past, RunInv
<1>5. ASSUME NEW r \in Runs, Send(r)
      PROVE  Of(r)'
    <2>1. /\ run'[r].at = "sent" /\ run'[r].step = run[r].step
          /\ run'[r].scenario = run[r].scenario
        BY <1>5 DEF Send, Goes, RunInv
    <2>2. /\ run[r].at = "open" /\ HasFrame(r) /\ Handled(r, Frame(r))
          /\ run[r].step \in 1 .. 7 /\ run[r].connector \in Numbers
        BY <1>5 DEF Send, RunInv
    <2>3. ASSUME run[r].scenario = happy, run[r].step = 4
          PROVE  session'[<<Station, r>>] # None
        <3>1. Frame(r) = Begins(r, run[r].connector)
            BY <2>3, HappyScript DEF Frame, ScriptOf
        <3> QED
            BY <2>2, <3>1, FrameType, StartHandled
    <2>4. ASSUME run[r].scenario = happy, run[r].step = 6
          PROVE  session'[<<Station, r>>].state = "completed"
        <3>1. Frame(r) = Stops(r)
            BY <2>4, HappyScript DEF Frame, ScriptOf
        <3>2. session[<<Station, r>>] # None
            BY <2>2, <2>4 DEF ScriptInv, Past
        <3> QED
            BY <2>2, <3>1, <3>2, StopHandled
    <2>5. \A i \in {4, 6} : Past(r, i)' <=> Past(r, i) \/ run[r].step = i
        BY <2>1, <2>2 DEF Past
    <2> QED
        BY <1>1, <1>2, <2>1, <2>3, <2>4, <2>5 DEF ScriptInv
<1>6. ASSUME NEW r \in Runs, Receive(r)
      PROVE  Of(r)'
    <2>1. /\ run'[r].at = "open" /\ run'[r].step = run[r].step + 1
          /\ run'[r].scenario = run[r].scenario
          /\ run[r].at = "sent" /\ run[r].step \in 1 .. 7
        BY <1>6 DEF Receive, RunInv
    <2>2. \A i \in {4, 6} : Past(r, i)' <=> Past(r, i)
        BY <2>1 DEF Past
    <2> QED
        BY <1>1, <1>2, <2>1, <2>2 DEF ScriptInv
<1>7. ASSUME NEW r \in Runs, Finish(r)
      PROVE  Of(r)'
    <2>1. /\ run'[r].at = "completed" /\ run'[r].step = run[r].step
          /\ run'[r].scenario = run[r].scenario
          /\ run[r].at = "open" /\ ~HasFrame(r) /\ run[r].step \in 1 .. 7
        BY <1>7 DEF Finish, Goes, RunInv
    <2>2. run[r].scenario = happy => run[r].step = 7
        BY <2>1, HappyScript DEF HasFrame, ScriptOf
    <2>3. run[r].scenario = happy =>
             Past(r, 4) /\ Past(r, 6) /\ Past(r, 4)' /\ Past(r, 6)'
        BY <2>1, <2>2 DEF Past
    <2> QED
        BY <1>1, <2>1, <2>3 DEF ScriptInv
<1>8. ASSUME NEW r \in Runs,
             \/ CheckStation(r) \/ CheckConnector(r) \/ Refuse(r) \/ Escape(r)
             \/ Open(r) \/ OpenFails(r) \/ SendRefused(r) \/ Fail(r) \/ Lost(r)
      PROVE  Of(r)'
    <2>1. PICK place \in {"connector", "blocked", "connecting", "open",
                          "failed", "stopped"} :
             /\ Goes(r, place)
             /\ place \in {"connector", "blocked", "connecting", "open"} =>
                   run[r].step = 1
        BY <1>8 DEF CheckStation, CheckConnector, Refuse, Escape, Open,
           OpenFails, SendRefused, Fail, Lost, ScriptInv
    <2>2. run'[r].at = place /\ run'[r].step = run[r].step
        BY <2>1 DEF Goes, RunInv
    <2>3. ~Past(r, 4)' /\ ~Past(r, 6)'
        BY <2>1, <2>2 DEF Past, RunInv
    <2> QED
        BY <2>1, <2>2, <2>3
<1>9. \/ run' = run
      \/ \E r \in Runs : Of(r)' /\ \A q \in Runs : q # r => run'[q] = run[q]
    <2>1. ASSUME NEW r \in Runs,
                 \/ \E s \in Scenarios, n \in Numbers : Begin(r, s, n)
                 \/ CheckStation(r) \/ CheckConnector(r) \/ Refuse(r)
                 \/ Escape(r) \/ Open(r) \/ OpenFails(r) \/ Send(r)
                 \/ SendRefused(r) \/ Receive(r) \/ Finish(r) \/ Fail(r)
                 \/ Lost(r)
          PROVE  /\ Of(r)'
                 /\ \A q \in Runs : q # r => run'[q] = run[q]
        <3>1. Of(r)'
            BY <2>1, <1>4, <1>5, <1>6, <1>7, <1>8
        <3>2. \A q \in Runs : q # r => run'[q] = run[q]
            BY <2>1 DEF RunInv, Begin, CheckStation, CheckConnector, Refuse,
               Escape, Open, OpenFails, Send, SendRefused, Receive, Finish,
               Fail, Lost, Goes
        <3> QED
            BY <3>1, <3>2
    <2>2. ASSUME \/ \E r \in Runs : LoseReply(r)
                 \/ BackendRestart \/ UNCHANGED vars
          PROVE  run' = run
        BY <2>2 DEF LoseReply, BackendRestart, vars
    <2> QED
        BY <2>1, <2>2 DEF Next
<1>10. \A q \in Runs : Of(q)'
    BY <1>3, <1>9
<1> QED
    BY <1>10 DEF ScriptInv

(* A charging session that ran to its end left a completed session behind,   *)
(* whatever other runs reported about the connector meanwhile, for any       *)
(* number of runs, through lost replies and restarts of the backend          *)
(* (app.py:117-118, 156-206; ingestion.py:250-264, 470-568).                 *)
THEOREM CompletedAlwaysClosed == Spec => []CompletedRunsClosed
<1>1. Init => ScriptInv
    BY DEF Init, ScriptInv, Past
<1>2. ScriptInv /\ RunInv => CompletedRunsClosed
    BY DEF ScriptInv, CompletedRunsClosed, Past, RunInv
<1> QED
    BY <1>1, <1>2, ScriptStep, RunInvAlways, BackendInvAlways, PTL DEF Spec

-----------------------------------------------------------------------------
(* Runs one after the other. The check a run makes before it connects is not *)
(* repeated when it starts its session, and only another run can have taken  *)
(* the connector meanwhile.                                                  *)

Sequential ==
    [][\A r \in Runs, s \in Scenarios, n \in Numbers :
          Begin(r, s, n) => \A q \in Runs : ~Under(q)]_vars

ChargesOn(r, n) ==
    /\ session[<<Station, r>>] # None
    /\ session[<<Station, r>>].state = "active"
    /\ session[<<Station, r>>].connector = n

Announces(frame) ==
    frame.action = "StatusNotification" /\ frame.status = "Available"

(* What a run goes on to send does not announce its connector available      *)
(* once its session has begun.                                               *)
Committed(r) ==
    session[<<Station, r>>] # None =>
        /\ run[r].at # "idle"
        /\ session[<<Station, r>>].connector = run[r].connector
        /\ \A j \in 1 .. Len(ScriptOf(r)) :
              j >= run[r].step => ~Announces(ScriptOf(r)[j])

Alone(r) ==
    run[r].at \in {"connecting", "open", "sent"}
    /\ run[r].scenario \notin Partner =>
          \A q \in Runs : ChargesOn(q, run[r].connector) => q = r

SequentialInv ==
    /\ \A q, r \in Runs : Under(q) /\ Under(r) => q = r
    /\ \A r \in Runs, n \in Numbers :
          ChargesOn(r, n) => connector[<<Station, n>>] # "available"
    /\ \A q, r \in Runs, n \in Numbers :
          ChargesOn(q, n) /\ ChargesOn(r, n) => q = r
    /\ \A r \in Runs : Alone(r) /\ Committed(r)

(* No script announces the connector after the session has begun.            *)
LEMMA BeginsLast ==
    ASSUME NEW s, NEW r \in Runs, NEW n \in Numbers,
           NEW i \in 1 .. Len(Script(s, r, n)),
           Script(s, r, n)[i] = Begins(r, n),
           NEW j \in 1 .. Len(Script(s, r, n)), j >= i
    PROVE  ~Announces(Script(s, r, n)[j])
<1> USE DEF Announces, Beat, Begins, Sample, Stops, Report
<1>1. CASE s = "happy-path-charging-session"
    BY <1>1 DEF Script
<1>2. CASE s = "duplicate-meter-value"
    BY <1>2 DEF Script
<1>3. CASE s \in {"station-offline-online", "connector-fault"}
    BY <1>3 DEF Script
<1>4. CASE s = "interrupted-session"
    BY <1>4 DEF Script
<1>5. CASE s \notin {"happy-path-charging-session", "duplicate-meter-value",
                    "station-offline-online", "connector-fault",
                    "interrupted-session"}
    BY <1>5 DEF Script
<1> QED
    BY <1>1, <1>2, <1>3, <1>4, <1>5

(* What one frame of a run does to the sessions and connectors.              *)
LEMMA FrameEffect ==
    ASSUME RunInv, BackendInv, NEW r \in Runs, Committed(r), Send(r)
    PROVE  LET n == run[r].connector
               frame == Frame(r)
           IN  /\ \A q \in Runs :
                     \/ session'[<<Station, q>>] = session[<<Station, q>>]
                     \/ /\ session[<<Station, q>>] # None
                        /\ session'[<<Station, q>>] # None
                        /\ session'[<<Station, q>>].connector
                              = session[<<Station, q>>].connector
                        /\ session'[<<Station, q>>].state # "active"
                     \/ /\ q = r /\ frame = Begins(r, n)
                        /\ session'[<<Station, r>>].connector = n
                        /\ connector'[<<Station, n>>] # "available"
               /\ \A m \in Numbers : connector'[<<Station, m>>] = "available" =>
                     \/ connector[<<Station, m>>] = "available"
                     \/ m = n /\ Announces(frame)
                     \/ m = n /\ ~ChargesOn(r, n)'
<1> DEFINE n == run[r].connector
           frame == Frame(r)
           key(q) == <<Station, q>>
<1>1. /\ n \in Numbers /\ [q \in Runs |-> Station][r] = Station
      /\ run[r].step \in 1 .. Len(ScriptOf(r))
      /\ frame = ScriptOf(r)[run[r].step]
      /\ Handled(r, frame)
    <2>1. Len(ScriptOf(r)) \in 0 .. 6
        BY ScriptLength DEF ScriptOf
    <2> QED
        BY <2>1 DEF Send, RunInv, HasFrame, Frame
<1>2. /\ session \in [{Station} \X Runs -> Ingested!Session \cup {None}]
      /\ connector \in [{Station} \X Numbers ->
                           Ingested!ConnectorStates \cup {None}]
    BY DEF BackendInv, Ingested!ChargeInv, Ingested!TypeInv, Ingested!TypeOK,
       Ingested!Keys
<1>3. \/ frame \in {Beat(None), Begins(r, n), Sample(None, r),
                    Sample(MeterId(r), r), Stops(r)}
      \/ \E status \in {"Available", "Unavailable", "Faulted",
                        "SuspendedEVSE"} : frame = Report(n, status)
    BY <1>1, ScriptShape DEF ScriptOf
<1>4. CASE \/ Backend!HandleHeartbeat(r, frame) \/ Backend!HandleMeter(r, frame)
           \/ Backend!Duplicate(r, frame)
    BY <1>4 DEF Backend!HandleHeartbeat, Backend!HandleMeter,
       Backend!Duplicate, Backend!db
<1>5. CASE Backend!HandleStart(r, frame)
    <2>1. frame.action = "StartTransaction"
        BY <1>5 DEF Backend!HandleStart, Backend!Handles
    <2>2. frame = Begins(r, n)
        BY <1>3, <2>1 DEF Beat, Sample, Stops, Report
    <2>3. frame.id = r /\ frame.connector = n
        BY <2>2 DEF Begins
    <2>4. /\ session' = [session EXCEPT ![key(r)] = Backend!NewSession(n)]
          /\ connector' = [connector EXCEPT ![<<Station, n>>] = "charging"]
        BY <1>1, <1>5, <2>3 DEF Backend!HandleStart
    <2>5. Backend!NewSession(n).connector = n
        BY DEF Backend!NewSession
    <2>6. /\ session'[key(r)].connector = n
          /\ connector'[<<Station, n>>] # "available"
        BY <1>1, <1>2, <2>4, <2>5
    <2>7. \A q \in Runs : q # r => session'[key(q)] = session[key(q)]
        BY <1>2, <2>4
    <2>8. \A m \in Numbers : m # n =>
             connector'[<<Station, m>>] = connector[<<Station, m>>]
        BY <1>2, <2>4
    <2> QED
        BY <2>2, <2>6, <2>7, <2>8
<1>6. CASE Backend!HandleStatus(r, frame)
    <2>1. frame.action = "StatusNotification"
        BY <1>6 DEF Backend!HandleStatus, Backend!Handles
    <2>2. PICK status \in {"Available", "Unavailable", "Faulted",
                           "SuspendedEVSE"} : frame = Report(n, status)
        BY <1>3, <2>1 DEF Beat, Begins, Sample, Stops
    <2>3. frame.connector = n /\ frame.status = status
        BY <2>2 DEF Report
    <2>4. PICK next : /\ next = "available" => status = "Available"
                      /\ connector' = [connector EXCEPT ![<<Station, n>>] = next]
        <3> DEFINE next == Backend!ReportedState(status,
                              Backend!ConnectorState(Station, n))
        <3>1. connector' = [connector EXCEPT ![<<Station, n>>] = next]
            BY <1>1, <1>6, <2>3 DEF Backend!HandleStatus
        <3>2. next = "available" => status = "Available"
            BY DEF Backend!ReportedState, Backend!status_map
        <3> QED
            BY <3>1, <3>2
    <2>5. \A m \in Numbers : connector'[<<Station, m>>] = "available" =>
             \/ connector[<<Station, m>>] = "available"
             \/ m = n /\ Announces(frame)
        BY <1>2, <2>1, <2>3, <2>4 DEF Announces
    <2>6. \/ session' = session
          \/ Backend!InterruptOne(Station, n)
        BY <1>1, <1>6, <2>3 DEF Backend!HandleStatus
    <2>7. ASSUME Backend!InterruptOne(Station, n), session' # session
          PROVE  \A q \in Runs :
                     \/ session'[key(q)] = session[key(q)]
                     \/ /\ session[key(q)] # None
                        /\ session'[key(q)] # None
                        /\ session'[key(q)].connector = session[key(q)].connector
                        /\ session'[key(q)].state # "active"
        <3>1. PICK k \in Backend!ActiveOn(Station, n) :
                 session' = [session EXCEPT ![k].state = "interrupted"]
            BY <2>7 DEF Backend!InterruptOne
        <3>2. k \in {Station} \X Runs /\ session[k] # None
            BY <3>1 DEF Backend!ActiveOn, Backend!Keys
        <3>3. session[k] \in Ingested!Session
            BY <1>2, <3>2
        <3> DEFINE ended == [session[k] EXCEPT !.state = "interrupted"]
        <3>4. /\ ended \in Backend!Session
              /\ ended.connector = session[k].connector
              /\ ended.state = "interrupted"
            BY <3>3 DEF Ingested!Session, Backend!Session,
               Ingested!SessionStates, Backend!SessionStates,
               Ingested!TransactionStates, Backend!TransactionStates
        <3>5. ended # None
            BY <3>4, SimulatorAssumption DEF SimulatorAssumption
        <3>6. session' = [session EXCEPT ![k] = ended]
            BY <3>1
        <3> HIDE DEF ended
        <3> QED
            BY <1>2, <3>2, <3>4, <3>5, <3>6
    <2> QED
        BY <2>5, <2>6, <2>7
<1>7. CASE Backend!HandleStop(r, frame)
    <2>1. frame.action = "StopTransaction"
        BY <1>7 DEF Backend!HandleStop, Backend!Handles
    <2>2. frame = Stops(r)
        BY <1>3, <2>1 DEF Beat, Begins, Sample, Report
    <2>3. frame.txn = r
        BY <2>2 DEF Stops
    <2>4. \A q \in Runs : key(q) \in Backend!Named(frame)
                             <=> q = r /\ session[key(r)] # None
        BY <2>3 DEF Backend!Named, Backend!Keys
    <2>5. \A k \in Backend!Named(frame) : k = key(r)
        <3> SUFFICES ASSUME NEW k \in Backend!Named(frame)
                     PROVE  k = key(r)
            OBVIOUS
        <3>1. k \in {Station} \X Runs
            BY DEF Backend!Named, Backend!Keys
        <3>2. PICK q \in Runs : k = key(q)
            BY <3>1
        <3> QED
            BY <2>4, <3>2
    <2>6. \A q \in Runs : session'[key(q)] =
             IF q = r /\ session[key(r)] # None
             THEN Backend!Completed(session[key(q)]) ELSE session[key(q)]
        BY <1>7, <2>4 DEF Backend!HandleStop, Backend!Keys
    <2>7. \A m \in Numbers : connector'[<<Station, m>>] =
             IF \E k \in Backend!Named(frame) :
                   <<Station, m>> = <<k[1], session[k].connector>>
             THEN "available" ELSE connector[<<Station, m>>]
        BY <1>7 DEF Backend!HandleStop
    <2>8. CASE session[key(r)] = None
        <3>1. Backend!Named(frame) = {}
            BY <2>4, <2>8, <2>5
        <3> QED
            BY <2>6, <2>7, <2>8, <3>1
    <2>9. CASE session[key(r)] # None
        <3>1. session[key(r)] \in Ingested!Session
            BY <1>2, <2>9
        <3> DEFINE ended == Backend!Completed(session[key(r)])
        <3>2. /\ ended \in Backend!Session
              /\ ended.connector = session[key(r)].connector
              /\ ended.state = "completed"
            BY <3>1 DEF Backend!Completed, Ingested!Session, Backend!Session,
               Ingested!SessionStates, Backend!SessionStates,
               Ingested!TransactionStates, Backend!TransactionStates
        <3>3. ended # None
            BY <3>2, SimulatorAssumption DEF SimulatorAssumption
        <3>4. session'[key(r)] = ended
            BY <2>6, <2>9
        <3>5. ~ChargesOn(r, n)'
            BY <3>2, <3>4 DEF ChargesOn
        <3>7. session[key(r)].connector = n
            BY <2>9 DEF Committed
        <3>8. \A m \in Numbers : m # n =>
                 connector'[<<Station, m>>] = connector[<<Station, m>>]
            BY <2>7, <2>5, <3>7
        <3>9. \A q \in Runs : q # r => session'[key(q)] = session[key(q)]
            BY <2>6
        <3> HIDE DEF ended
        <3> QED
            BY <2>9, <3>2, <3>3, <3>4, <3>5, <3>8, <3>9
    <2> QED
        BY <2>8, <2>9
<1> QED
    BY <1>1, <1>4, <1>5, <1>6, <1>7 DEF Handled

LEMMA SendKeepsSequential ==
    ASSUME RunInv, BackendInv, SequentialInv, NEW r \in Runs, Send(r)
    PROVE  SequentialInv'
<1> DEFINE n == run[r].connector
           frame == Frame(r)
           key(q) == <<Station, q>>
<1>1. /\ run[r].at = "open" /\ HasFrame(r) /\ n \in Numbers
      /\ run' = [run EXCEPT ![r].at = "sent"]
      /\ run[r].step \in 1 .. Len(ScriptOf(r))
      /\ frame = ScriptOf(r)[run[r].step]
    <2>1. Len(ScriptOf(r)) \in 0 .. 6
        BY ScriptLength DEF ScriptOf
    <2> QED
        BY <2>1 DEF Send, Goes, RunInv, HasFrame, Frame
<1>2. /\ run'[r].at = "sent" /\ run'[r].step = run[r].step
      /\ run'[r].scenario = run[r].scenario
      /\ run'[r].connector = run[r].connector
      /\ \A q \in Runs : q # r => run'[q] = run[q]
      /\ \A q \in Runs : Under(q)' <=> Under(q)
      /\ Under(r)
    BY <1>1 DEF RunInv, Under, Ended
<1>3. \A q \in Runs : ScriptOf(q)' = ScriptOf(q)
    BY <1>2 DEF ScriptOf
<1>4. run[r].scenario \notin Partner
    BY <1>1 DEF HasFrame, ScriptOf, Script, Partner
<1>5. \A q \in Runs : ChargesOn(q, n) => q = r
    BY <1>1, <1>4 DEF SequentialInv, Alone
<1>6. /\ \A q \in Runs :
            \/ session'[key(q)] = session[key(q)]
            \/ /\ session[key(q)] # None
               /\ session'[key(q)] # None
               /\ session'[key(q)].connector = session[key(q)].connector
               /\ session'[key(q)].state # "active"
            \/ /\ q = r /\ frame = Begins(r, n)
               /\ session'[key(r)].connector = n
               /\ connector'[<<Station, n>>] # "available"
      /\ \A m \in Numbers : connector'[<<Station, m>>] = "available" =>
            \/ connector[<<Station, m>>] = "available"
            \/ m = n /\ Announces(frame)
            \/ m = n /\ ~ChargesOn(r, n)'
    BY FrameEffect DEF SequentialInv
<1>7. \A q \in Runs, m \in Numbers : ChargesOn(q, m)' =>
         \/ ChargesOn(q, m)
         \/ q = r /\ m = n /\ connector'[<<Station, n>>] # "available"
    BY <1>6 DEF ChargesOn
<1>8. ASSUME NEW q \in Runs, NEW m \in Numbers, ChargesOn(q, m)'
      PROVE  connector'[<<Station, m>>] # "available"
    <2> SUFFICES ASSUME connector'[<<Station, m>>] = "available"
                 PROVE  FALSE
        OBVIOUS
    <2>1. ChargesOn(q, m)
        BY <1>7, <1>8
    <2>2. connector[<<Station, m>>] # "available"
        BY <2>1 DEF SequentialInv
    <2>3. m = n /\ (Announces(frame) \/ ~ChargesOn(r, n)')
        BY <1>6, <2>2
    <2>4. q = r
        BY <1>5, <2>1, <2>3
    <2>5. Announces(frame) /\ session[key(r)] # None
        <3>1. ChargesOn(r, n)'
            BY <1>2, <1>8, <2>3, <2>4 DEF ChargesOn
        <3>2. session[key(r)] # None
            BY <2>1, <2>4 DEF ChargesOn
        <3> QED
            BY <2>3, <3>1, <3>2
    <2>6. ~Announces(frame)
        BY <1>1, <2>5 DEF SequentialInv, Committed
    <2> QED
        BY <2>5, <2>6
<1>9. ASSUME NEW p \in Runs, NEW q \in Runs, NEW m \in Numbers,
             ChargesOn(p, m)', ChargesOn(q, m)'
      PROVE  p = q
    BY <1>5, <1>7, <1>9 DEF SequentialInv
<1>10. ASSUME NEW q \in Runs
       PROVE  Alone(q)'
    <2>1. CASE q = r
        BY <1>1, <1>2, <1>5, <1>7, <2>1 DEF Alone
    <2>2. CASE q # r
        <3>1. ~Under(q)
            BY <1>2, <2>2 DEF SequentialInv
        <3> QED
            BY <1>2, <2>2, <3>1 DEF Alone, Under, Ended
    <2> QED
        BY <2>1, <2>2
<1>11. ASSUME NEW q \in Runs
       PROVE  Committed(q)'
    <2>1. CASE /\ q = r /\ frame = Begins(r, n)
               /\ session'[key(r)].connector = n
        <3>1. \A j \in 1 .. Len(ScriptOf(r)) :
                 j >= run[r].step => ~Announces(ScriptOf(r)[j])
            BY <1>1, <2>1, BeginsLast DEF ScriptOf
        <3> QED
            BY <1>2, <1>3, <2>1, <3>1 DEF Committed
    <2>2. CASE \/ session'[key(q)] = session[key(q)]
               \/ /\ session[key(q)] # None
                  /\ session'[key(q)].connector = session[key(q)].connector
        <3>1. /\ run'[q].at = "idle" => run[q].at = "idle"
              /\ run'[q].step = run[q].step
              /\ run'[q].connector = run[q].connector
            BY <1>2
        <3> QED
            BY <1>3, <2>2, <3>1 DEF SequentialInv, Committed
    <2> QED
        BY <1>6, <2>1, <2>2
<1> QED
    BY <1>2, <1>8, <1>9, <1>10, <1>11 DEF SequentialInv

LEMMA SequentialKept ==
    ASSUME RunInv, BackendInv, SequentialInv, [Next]_vars,
           [\A r \in Runs, s \in Scenarios, n \in Numbers :
               Begin(r, s, n) => \A q \in Runs : ~Under(q)]_vars
    PROVE  SequentialInv'
<1>1. CASE \E r \in Runs : Send(r)
    BY <1>1, SendKeepsSequential
<1>2. ASSUME session' = session, connector' = connector,
             NEW r \in Runs, \A q \in Runs : q # r => run'[q] = run[q],
             Under(r)' => \A q \in Runs : Under(q) => q = r,
             Alone(r)', Committed(r)'
      PROVE  SequentialInv'
    <2>1. \A q \in Runs, n \in Numbers : ChargesOn(q, n)' <=> ChargesOn(q, n)
        BY <1>2 DEF ChargesOn
    <2>2. \A q \in Runs : q # r => Under(q)' = Under(q)
        BY <1>2 DEF Under, Ended
    <2>3. ASSUME NEW q \in Runs, q # r
          PROVE  Alone(q)' /\ Committed(q)'
        BY <1>2, <2>3 DEF SequentialInv, Alone, Committed, ChargesOn, ScriptOf
    <2> QED
        BY <1>2, <2>1, <2>2, <2>3 DEF SequentialInv
<1>3. ASSUME NEW r \in Runs, NEW s \in Scenarios, NEW n \in Numbers,
             Begin(r, s, n)
      PROVE  SequentialInv'
    <2> DEFINE begun == [at |-> IF s \in Partner THEN "connecting"
                                ELSE "station",
                         scenario |-> s, connector |-> n, step |-> 1]
    <2>1. /\ run[r].at = "idle" /\ run' = [run EXCEPT ![r] = begun]
          /\ session' = session /\ connector' = connector
        BY <1>3 DEF Begin, backend
    <2>2. run'[r] = begun /\ \A q \in Runs : q # r => run'[q] = run[q]
        BY <2>1 DEF RunInv
    <2>3. begun.at # "idle"
        OBVIOUS
    <2>4. \A q \in Runs : ~Under(q)
        BY <1>3, <2>1, <2>2, <2>3 DEF vars
    <2>5. Alone(r)'
        BY <2>2 DEF Alone
    <2>6. session[<<Station, r>>] = None
        BY <2>1 DEF SequentialInv, Committed
    <2>7. Committed(r)'
        BY <2>1, <2>6 DEF Committed
    <2> QED
        BY <1>2, <2>1, <2>2, <2>4, <2>5, <2>7
<1>4. ASSUME NEW r \in Runs, NEW place \in Places, Goes(r, place),
             session' = session, connector' = connector,
             run[r].at # "idle", place # "idle",
             Ended(r) => place \in {"completed", "stopped"},
             place \in {"connecting", "open", "sent"} /\ run[r].scenario \notin Partner
             => \/ run[r].at \in {"connecting", "open", "sent"}
                \/ connector[<<Station, run[r].connector>>] = "available"
      PROVE  SequentialInv'
    <2>1. /\ run'[r].at = place /\ run'[r].step = run[r].step
          /\ run'[r].scenario = run[r].scenario
          /\ run'[r].connector = run[r].connector
          /\ \A q \in Runs : q # r => run'[q] = run[q]
        BY <1>4 DEF Goes, RunInv
    <2>2. run[r].connector \in Numbers
        BY <1>4 DEF RunInv
    <2>3. Under(r)' => Under(r)
        BY <1>4, <2>1 DEF Under, Ended
    <2>4. Alone(r)'
        BY <1>4, <2>1, <2>2 DEF Alone, ChargesOn, SequentialInv
    <2>5. Committed(r)'
        BY <1>4, <2>1 DEF Committed, SequentialInv, ScriptOf
    <2> QED
        BY <1>2, <1>4, <2>1, <2>3, <2>4, <2>5 DEF SequentialInv
<1>5. ASSUME NEW r \in Runs,
             \/ CheckStation(r) \/ CheckConnector(r) \/ Refuse(r) \/ Escape(r)
             \/ Open(r) \/ OpenFails(r) \/ SendRefused(r) \/ Finish(r)
             \/ Fail(r) \/ Lost(r)
      PROVE  SequentialInv'
    <2>1. session' = session /\ connector' = connector
        BY <1>5 DEF CheckStation, CheckConnector, Refuse, Escape, Open,
           OpenFails, SendRefused, Finish, Fail, Lost, backend,
           Backend!Connect, Backend!Reject, Backend!Disconnect, Backend!Close,
           Backend!db
    <2>2. PICK place \in {"connector", "blocked", "connecting", "open",
                          "failed", "completed", "stopped"} :
             /\ Goes(r, place)
             /\ run[r].at # "idle" /\ ~Ended(r)
             /\ place \in {"connecting", "open"} =>
                   \/ run[r].at = "connecting"
                   \/ connector[<<Station, run[r].connector>>] = "available"
        BY <1>5 DEF CheckStation, CheckConnector, Refuse, Escape, Open,
           OpenFails, SendRefused, Finish, Fail, Lost, Ended
    <2>3. place \in Places
        BY DEF Places
    <2> QED
        BY <1>4, <2>1, <2>2, <2>3
<1>6. ASSUME NEW r \in Runs, Receive(r)
      PROVE  SequentialInv'
    <2>1. session' = session /\ connector' = connector
        BY <1>6 DEF Receive, backend, Backend!Reply, Backend!db
    <2>2. /\ run[r].at = "sent" /\ run'[r].at = "open"
          /\ run'[r].step = run[r].step + 1 /\ run[r].step \in 1 .. 7
          /\ run'[r].scenario = run[r].scenario
          /\ run'[r].connector = run[r].connector
          /\ \A q \in Runs : q # r => run'[q] = run[q]
        BY <1>6 DEF Receive, RunInv
    <2>3. Under(r)
        BY <2>2 DEF Under, Ended
    <2>4. Alone(r)'
        BY <2>1, <2>2 DEF Alone, ChargesOn, SequentialInv
    <2>5. Committed(r)'
        <3>1. ScriptOf(r)' = ScriptOf(r) /\ Len(ScriptOf(r)) \in 0 .. 6
            BY <2>2, ScriptLength DEF ScriptOf
        <3> QED
            BY <2>1, <2>2, <3>1 DEF Committed, SequentialInv
    <2> QED
        BY <1>2, <2>1, <2>2, <2>3, <2>4, <2>5 DEF SequentialInv
<1>7. ASSUME \/ \E r \in Runs : LoseReply(r)
             \/ BackendRestart \/ UNCHANGED vars
      PROVE  SequentialInv'
    <2>1. session' = session /\ connector' = connector /\ run' = run
        BY <1>7 DEF LoseReply, BackendRestart, vars, backend,
           Backend!LoseReply, Backend!BackendRestart, Backend!Close, Backend!db
    <2> QED
        BY <2>1 DEF SequentialInv, Alone, Committed, ChargesOn, ScriptOf, Under,
           Ended
<1> QED
    BY <1>1, <1>3, <1>5, <1>6, <1>7 DEF Next

(* What overlapping runs break, runs that follow one another keep: no run    *)
(* starts a session on a connector that another session is charging on, for  *)
(* any runs, connectors and scenarios, through lost replies, failed runs and *)
(* restarts of the backend (app.py:328-357, 384-425; ingestion.py:384-418).  *)
THEOREM SequentialRunsKeepConnectors ==
    Spec /\ Sequential => []OneSessionPerConnector
<1>1. Init => SequentialInv
    BY DEF Init, Backend!Init, Backend!Keys, SequentialInv, Under, ChargesOn,
       Alone, Committed
<1>2. BackendInv /\ SequentialInv => OneSessionPerConnector
    <2> SUFFICES ASSUME BackendInv, SequentialInv, NEW j \in Runs, NEW k \in Runs,
                        session[<<Station, j>>] # None,
                        session[<<Station, k>>] # None,
                        session[<<Station, j>>].state = "active",
                        session[<<Station, k>>].state = "active",
                        session[<<Station, j>>].connector
                           = session[<<Station, k>>].connector
                 PROVE  j = k
        BY DEF OneSessionPerConnector
    <2> DEFINE n == session[<<Station, j>>].connector
    <2>1. session[<<Station, j>>] \in Ingested!Session
        BY DEF BackendInv, Ingested!ChargeInv, Ingested!TypeInv,
           Ingested!TypeOK, Ingested!Keys
    <2>2. n \in Numbers
        BY <2>1 DEF Ingested!Session
    <2>3. ChargesOn(j, n) /\ ChargesOn(k, n)
        BY DEF ChargesOn
    <2> QED
        BY <2>2, <2>3 DEF SequentialInv
<1> QED
    BY <1>1, <1>2, SequentialKept, RunInvAlways, BackendInvAlways, PTL
    DEF Spec, Sequential

-----------------------------------------------------------------------------
(* The flag "connected" is shown only while some run holds a connection or   *)
(* has just lost it, for any number of runs (app.py:355, 389, 409, 423).     *)
THEOREM ConnectedAlwaysOpen == Spec => []ConnectedMeansOpen
<1>1. Init => ConnectedMeansOpen
    BY DEF Init, ConnectedMeansOpen
<1>2. RunInv /\ ConnectedMeansOpen /\ [Next]_vars => ConnectedMeansOpen'
    <2> SUFFICES ASSUME RunInv, ConnectedMeansOpen, [Next]_vars,
                        shared'.connected
                 PROVE  \E r \in Runs : run'[r].at \in {"open", "sent", "failed"}
        BY DEF ConnectedMeansOpen
    <2>1. ASSUME NEW r \in Runs, Open(r) \/ Send(r) \/ SendRefused(r) \/ Receive(r)
          PROVE  run'[r].at \in {"open", "sent", "failed"}
        BY <2>1 DEF Open, Send, SendRefused, Receive, Goes, RunInv
    <2>2. ASSUME NEW r \in Runs,
                 CheckStation(r) \/ CheckConnector(r) \/ Escape(r)
          PROVE  \E q \in Runs : run'[q].at \in {"open", "sent", "failed"}
        <3>1. PICK q \in Runs : run[q].at \in {"open", "sent", "failed"}
            BY <2>2 DEF CheckStation, CheckConnector, Escape, ConnectedMeansOpen
        <3>2. run'[q].at = run[q].at
            BY <2>2, <3>1 DEF CheckStation, CheckConnector, Escape, Goes, RunInv
        <3> QED
            BY <3>1, <3>2
    <2>3. ASSUME NEW r \in Runs,
                 \/ \E s \in Scenarios, n \in Numbers : Begin(r, s, n)
                 \/ Refuse(r) \/ OpenFails(r) \/ Finish(r) \/ Fail(r) \/ Lost(r)
          PROVE  FALSE
        BY <2>3 DEF Begin, Refuse, OpenFails, Finish, Fail, Lost, Cleared
    <2>4. ASSUME UNCHANGED <<shared, run>>
          PROVE  \E q \in Runs : run'[q].at \in {"open", "sent", "failed"}
        BY <2>4 DEF ConnectedMeansOpen
    <2> QED
        BY <2>1, <2>2, <2>3, <2>4 DEF Next, LoseReply, BackendRestart, vars
<1> QED
    BY <1>1, <1>2, RunInvAlways, PTL DEF Spec

=============================================================================
