------------------------------ MODULE Simulator ------------------------------
(* Scenario runs of the simulator (simulator/simulator/app.py) against the   *)
(* backend. Every request to /run/{scenario} is a coroutine of one event     *)
(* loop that yields at each await, and all of them share the global STATE.   *)
(* A run first asks the backend whether its connector is free, then opens a  *)
(* connection of its own and sends its frames one at a time; the backend     *)
(* handles them as Ingestion says.                                           *)
EXTENDS Integers, Sequences

CONSTANTS
    Runs,       (* the requests, by the number that is also the message id   *)
                (* of the StartTransaction they send                         *)
    Numbers,    (* connector numbers                                         *)
    Scenarios,  (* the scenarios the requests may ask for                    *)
    Station,    (* the station the runs play                                 *)
    None        (* an absent row, copy or scenario                           *)

VARIABLES
    station, connector, session, meter, messages, lastEvent, pc, copy, pending,
    told, sweep, admin,  (* the backend, see Ingestion *)
    shared,     (* the flags of the simulator's global STATE; the log of     *)
                (* frames it also keeps is not read by any run               *)
    run         (* how far each run is                                       *)

(* The frames of a run. Ids are fresh but for the meter frame that the       *)
(* duplicate scenario sends twice.                                           *)
Beat(id)            == [id |-> id, action |-> "Heartbeat"]
Report(n, status)   == [id |-> None, action |-> "StatusNotification",
                        connector |-> n, status |-> status]
Begins(r, n)        == [id |-> r, action |-> "StartTransaction", connector |-> n]
Sample(id, r)       == [id |-> id, action |-> "MeterValues", txn |-> r,
                        samples |-> <<"energy">>]
Stops(r)            == [id |-> None, action |-> "StopTransaction", txn |-> r]

MeterId(r) == r + 100

(* BootNotification and Heartbeat do the same to the backend. A partner      *)
(* scenario posts webhooks over HTTP and sends nothing on its connection.    *)
Script(scenario, r, n) ==
    CASE scenario = "happy-path-charging-session" ->
            <<Beat(None), Beat(None), Report(n, "Available"), Begins(r, n),
              Sample(None, r), Stops(r)>>
      [] scenario = "duplicate-meter-value" ->
            <<Begins(r, n), Sample(MeterId(r), r), Sample(MeterId(r), r)>>
      [] scenario = "station-offline-online" ->
            <<Report(n, "Unavailable"), Report(n, "Available")>>
      [] scenario = "connector-fault" -> <<Report(n, "Faulted")>>
      [] scenario = "interrupted-session" ->
            <<Begins(r, n), Report(n, "SuspendedEVSE")>>
      [] OTHER -> << >>

Partner == {"partner-webhook", "invalid-partner-signature",
            "duplicate-partner-event"}

FramesOf(script) == {script[i] : i \in 1 .. Len(script)}

Frames == UNION {FramesOf(Script(s, r, n)) :
                    s \in Scenarios, r \in Runs, n \in Numbers}

Backend == INSTANCE Ingestion WITH
    Stations <- {Station}, Connections <- Runs,
    StationOf <- [r \in Runs |-> Station],
    Workers <- {}, Calls <- Frames, Starts <- Runs,
    TxnId <- [k \in {Station} \X Runs |-> k[2]],
    Samples <- {"energy"},
    InitStation <- [s \in {Station} |->
                       [state |-> "online", online |-> TRUE, seen |-> "recent"]],
    InitConnector <- [k \in {Station} \X Numbers |-> "available"],
    AdminStations <- {}, AdminConnectors <- {}, QuietStations <- {}

(* Message ids are new ones: that of a start is no other frame's.            *)
ASSUME SimulatorAssumption ==
    /\ Runs \subseteq Nat
    /\ \A q, r \in Runs : MeterId(q) # r
    /\ None \notin Nat /\ None \notin Frames
    /\ None \notin Backend!ConnectorStates
    /\ None \notin Backend!StationRow
    /\ None \notin Backend!Session
    /\ None \notin Backend!AdminRequest

backend == <<station, connector, session, meter, messages, lastEvent,
             pc, copy, pending, told, sweep, admin>>
vars == <<backend, shared, run>>

(* at: the await a run is suspended at; step: the frame it sends next.       *)
Places == {"idle", "station", "connector", "blocked", "connecting", "open",
           "sent", "failed", "completed", "stopped"}

TypeOK ==
    /\ Backend!TypeOK
    /\ shared \in [connected : BOOLEAN, running : BOOLEAN]
    /\ run \in [Runs -> [at : Places, scenario : Scenarios \cup {None},
                         connector : Numbers \cup {None}, step : 1 .. 7]]

Init ==
    /\ Backend!Init
    /\ shared = [connected |-> FALSE, running |-> FALSE]
    /\ run = [r \in Runs |-> [at |-> "idle", scenario |-> None,
                              connector |-> None, step |-> 1]]

Goes(r, place) == run' = [run EXCEPT ![r].at = place]

ScriptOf(r) == Script(run[r].scenario, r, run[r].connector)

Frame(r) == ScriptOf(r)[run[r].step]

(* Operators marked (variant) are defects the properties are tried against;  *)
(* no specification uses them.                                               *)

HasFrameEarly(r) == run[r].step < Len(ScriptOf(r))             (* variant *)

HasFrame(r) == run[r].step <= Len(ScriptOf(r))

ClearedHalf == [shared EXCEPT !.running = FALSE]                (* variant *)

(* STATE once a run has ended in connect_and_run or in the route: both flags *)
(* are cleared, whoever set them.                                            *)
Cleared == [connected |-> FALSE, running |-> FALSE]

-----------------------------------------------------------------------------
(* connect_and_run begins; runs of partner scenarios skip the checks.        *)
Begin(r, scenario, n) ==
    /\ run[r].at = "idle"
    /\ shared' = [connected |-> FALSE, running |-> TRUE]
    /\ run' = [run EXCEPT ![r] =
                 [at |-> IF scenario \in Partner THEN "connecting" ELSE "station",
                  scenario |-> scenario, connector |-> n, step |-> 1]]
    /\ UNCHANGED backend

(* The answer to GET /stations, and to GET /stations/{id}/connectors.        *)
CheckStation(r) ==
    /\ run[r].at = "station"
    /\ Goes(r, IF /\ station[Station].online
                  /\ station[Station].state \notin {"offline", "faulted"}
               THEN "connector" ELSE "blocked")
    /\ UNCHANGED <<backend, shared>>

CheckConnector(r) ==
    /\ run[r].at = "connector"
    /\ Goes(r, IF connector[<<Station, run[r].connector>>] = "available"
               THEN "connecting" ELSE "blocked")
    /\ UNCHANGED <<backend, shared>>

(* The HTTPException of a blocked run is caught by the route, which clears   *)
(* the flags.                                                                *)
Refuse(r) ==
    /\ run[r].at = "blocked"
    /\ shared' = Cleared
    /\ Goes(r, "stopped")
    /\ UNCHANGED backend

(* A request to the backend fails with an error of the HTTP client: neither  *)
(* the route nor connect_and_run catches it.                                 *)
Escape(r) ==
    /\ run[r].at \in {"station", "connector"}
    /\ Goes(r, "stopped")
    /\ UNCHANGED <<backend, shared>>

-----------------------------------------------------------------------------
(* The connection.                                                           *)

Open(r) ==
    /\ run[r].at = "connecting"
    /\ Backend!Connect(r)
    /\ shared' = [shared EXCEPT !.connected = TRUE]
    /\ Goes(r, "open")

OpenFails(r) ==
    /\ run[r].at = "connecting"
    /\ shared' = Cleared
    /\ Goes(r, "stopped")
    /\ UNCHANGED backend

Handled(r, frame) ==
    \/ Backend!HandleHeartbeat(r, frame)
    \/ Backend!HandleStatus(r, frame)
    \/ Backend!HandleStart(r, frame)
    \/ Backend!HandleMeter(r, frame)
    \/ Backend!HandleStop(r, frame)
    \/ Backend!Duplicate(r, frame)

(* The backend has the frame and handles it.                                 *)
Send(r) ==
    /\ run[r].at = "open"
    /\ HasFrame(r)
    /\ Handled(r, Frame(r))
    /\ Goes(r, "sent")
    /\ UNCHANGED shared

(* The backend refuses the frame: send_frame raises on the CALLERROR.        *)
SendRefused(r) ==
    /\ run[r].at = "open"
    /\ HasFrame(r)
    /\ Backend!Reject(r, Frame(r))
    /\ Goes(r, "failed")
    /\ UNCHANGED shared

(* The reply arrives; a duplicate's was sent at once.                        *)
Receive(r) ==
    /\ run[r].at = "sent"
    /\ \/ Backend!Reply(r)
       \/ pc[r] = "idle" /\ UNCHANGED backend
    /\ run' = [run EXCEPT ![r].at = "open", ![r].step = @ + 1]
    /\ UNCHANGED shared

(* The finally clause, after the last frame, an error reply, a failed        *)
(* webhook or a lost connection.                                             *)
Finish(r) ==
    /\ run[r].at = "open"
    /\ ~HasFrame(r)
    /\ Backend!Disconnect(r)
    /\ shared' = Cleared
    /\ Goes(r, "completed")

Fail(r) ==
    /\ \/ run[r].at = "failed"
       \/ run[r].at = "open" /\ run[r].scenario \in Partner
    /\ Backend!Disconnect(r)
    /\ shared' = Cleared
    /\ Goes(r, "stopped")

LostUnnoticed(r) == FALSE /\ UNCHANGED vars                    (* variant *)

Lost(r) ==
    /\ run[r].at \in {"open", "sent", "failed"}
    /\ pc[r] = "closed"
    /\ shared' = Cleared
    /\ Goes(r, "stopped")
    /\ UNCHANGED backend

LoseReply(r) ==
    /\ run[r].at = "sent"
    /\ Backend!LoseReply(r)
    /\ UNCHANGED <<shared, run>>

BackendRestart == Backend!BackendRestart /\ UNCHANGED <<shared, run>>

-----------------------------------------------------------------------------
Next ==
    \/ \E r \in Runs, s \in Scenarios, n \in Numbers : Begin(r, s, n)
    \/ \E r \in Runs : CheckStation(r)
    \/ \E r \in Runs : CheckConnector(r)
    \/ \E r \in Runs : Refuse(r)
    \/ \E r \in Runs : Escape(r)
    \/ \E r \in Runs : Open(r)
    \/ \E r \in Runs : OpenFails(r)
    \/ \E r \in Runs : Send(r)
    \/ \E r \in Runs : SendRefused(r)
    \/ \E r \in Runs : Receive(r)
    \/ \E r \in Runs : Finish(r)
    \/ \E r \in Runs : Fail(r)
    \/ \E r \in Runs : Lost(r)
    \/ \E r \in Runs : LoseReply(r)
    \/ BackendRestart

Spec == Init /\ [][Next]_vars

(* A run that was begun goes on at each await: a request and a connection    *)
(* attempt are answered or fail, a frame is handled, and a closed connection *)
(* is noticed. Nothing makes anyone begin a run, or the backend restart.     *)
RunStep(r) ==
    \/ CheckStation(r) \/ CheckConnector(r) \/ Refuse(r) \/ Open(r)
    \/ Send(r) \/ SendRefused(r) \/ Receive(r)
    \/ Finish(r) \/ Fail(r) \/ Lost(r)

FairSpec == Spec /\ \A r \in Runs : WF_vars(RunStep(r))

-----------------------------------------------------------------------------
(* Properties.                                                               *)

Ended(r) == run[r].at \in {"completed", "stopped"}

Under(r) == run[r].at # "idle" /\ ~Ended(r)

(* "connected" is never shown without a run that holds a connection or has   *)
(* just lost it, although every run that begins or ends overwrites the flag  *)
(* of the others (app.py:355, 389, 409, 423).                                *)
ConnectedMeansOpen ==
    shared.connected => \E r \in Runs : run[r].at \in {"open", "sent", "failed"}

(* A charging session that ran to its end left a completed session behind,   *)
(* whatever other runs reported about the connector meanwhile                *)
(* (app.py:117-118, 156-206).                                                *)
CompletedRunsClosed ==
    \A r \in Runs :
        run[r].at = "completed"
        /\ run[r].scenario = "happy-path-charging-session" =>
            /\ session[<<Station, r>>] # None
            /\ session[<<Station, r>>].state = "completed"

(* Every run comes to an end, through refusals, lost replies and restarts of *)
(* the backend (app.py:384-425).                                             *)
RunsEnd == \A r \in Runs : Under(r) ~> Ended(r)

(* No run starts a session on a connector that is not available, that is,    *)
(* one another session is charging on (app.py:345-348).                      *)
OneSessionPerConnector ==
    \A j, k \in Runs :
        LET a == session[<<Station, j>>]
            b == session[<<Station, k>>]
        IN  /\ a # None /\ b # None
            /\ a.state = "active" /\ b.state = "active"
            /\ a.connector = b.connector
            => j = k

=============================================================================
