------------------------------ MODULE Ingestion ------------------------------
(* OCPP messages from the websocket to the database: ingest_ocpp_message     *)
(* (app/services/ingestion.py) as the socket loop runs it                    *)
(* (app/api/routes/ocpp.py), together with the other writers of the same     *)
(* rows: the worker's sweep that marks silent stations offline               *)
(* (app/services/stations.py) and the admin's station and connector controls *)
(* (app/api/routes/admin.py).                                                *)
(*                                                                           *)
(* The backend is one event loop and its handlers do not await between their *)
(* first query and their commit, so two handlers never interleave; the       *)
(* worker is another process and commits between any two statements. A       *)
(* connection keeps one database session for its whole life, and that        *)
(* session keeps the station it loaded: a handler decides and writes from    *)
(* this copy, which is reloaded only after a commit or a rollback. Connectors,*)
(* sessions and transactions are queried anew by every handler, and only the *)
(* backend writes them.                                                      *)
EXTENDS Integers, FiniteSets, Sequences, StateTables, UnitOfWork

CONSTANTS
    Stations,       (* station ids                                           *)
    Numbers,        (* connector numbers                                     *)
    Connections,    (* websocket connections                                 *)
    StationOf,      (* the station a connection authenticates as             *)
    Workers,        (* worker processes                                      *)
    Calls,          (* bound: the CALL frames chargers send                  *)
    Starts,         (* the message ids of the StartTransaction frames        *)
    TxnId,          (* _transaction_id_for_message: the crc32 of a station   *)
                    (* and a message id, not necessarily one to one          *)
    Samples,        (* meter samples, as far as the duplicate check tells    *)
                    (* them apart: time, value, unit and measurand           *)
    InitStation,    (* the rows stations start with (seed data)              *)
    InitConnector,  (* the states of the connectors that have a row then     *)
    AdminStations,  (* bound: stations an admin switches online and offline  *)
    AdminConnectors,(* bound: connectors an admin switches                   *)
    QuietStations,  (* bound: stations that may stay silent beyond           *)
                    (* station_heartbeat_timeout_seconds                     *)
    None            (* SQL NULL, an absent row, an absent copy               *)

(* last_seen_at is kept as the sweep compares it: within the timeout or not. *)
StationRow == [state : StationStates, online : BOOLEAN,
               seen : {None, "recent", "old"}]

(* A StartTransaction is identified by its station and message id, from      *)
(* which both the session id and the transaction id are computed.            *)
Keys == Stations \X Starts

Session == [connector : Numbers, state : SessionStates,
            transactionState : TransactionStates,  (* on the session row     *)
            transaction : TransactionStates]       (* on the transaction row *)

(* A frame: its message id, its action and the fields the handler reads. An  *)
(* id of None stands for ids that are new every time: the frame may be sent  *)
(* again and again, and is never taken for a duplicate.                      *)
Heartbeat(id)         == [id |-> id, action |-> "Heartbeat"]
Authorize(id)         == [id |-> id, action |-> "Authorize"]
Status(id, n, status) == [id |-> id, action |-> "StatusNotification",
                          connector |-> n, status |-> status]
Start(id, n)          == [id |-> id, action |-> "StartTransaction",
                          connector |-> n]
Meter(id, txn, list)  == [id |-> id, action |-> "MeterValues", txn |-> txn,
                          samples |-> list]
Stop(id, txn)         == [id |-> id, action |-> "StopTransaction", txn |-> txn]
Malformed             == [id |-> None, action |-> "Malformed"]

AdminRequest == [station : Stations, online : BOOLEAN, copy : StationRow]

ASSUME IngestionAssumption ==
    /\ StationOf \in [Connections -> Stations]
    /\ InitStation \in [Stations -> StationRow]
    /\ InitConnector \in [Stations \X Numbers -> ConnectorStates \cup {None}]
    /\ AdminConnectors \subseteq Stations \X Numbers
    /\ \A call \in Calls :
          /\ call.action = "StartTransaction" => call.id \in Starts
          /\ call.action \in {"StartTransaction", "StatusNotification"}
                => call.connector \in Numbers
          /\ call.action = "MeterValues" => call.samples \in Seq(Samples)

ASSUME NoneAssumption ==
    /\ None \notin Starts /\ None \notin Calls
    /\ None \notin ConnectorStates
    /\ None \notin StationRow
    /\ None \notin Session
    /\ None \notin AdminRequest

VARIABLES
    station,     (* the stations table                                       *)
    connector,   (* the connectors table, None where there is no row         *)
    session,     (* charging_sessions joined with transactions               *)
    meter,       (* meter_values: how often each sample of a session is kept *)
    messages,    (* ocpp_messages: the frames recorded for each station      *)
    lastEvent,   (* the state in which the audit event about a station that  *)
                 (* was committed last ends; how a list orders the events is *)
                 (* the matter of module Trail                               *)
    pc,          (* where the handler of each connection is                  *)
    copy,        (* the station as each connection's session holds it        *)
    pending,     (* the committed frame a connection has still to answer     *)
    told,        (* the starts a charger was given a transaction id for      *)
    sweep,       (* the copies a worker's sweep selected                     *)
    admin        (* the admin request in flight                              *)

db == <<station, connector, session, meter, messages, lastEvent>>
socket == <<pc, copy, pending, told>>
vars == <<db, socket, sweep, admin>>

TypeOK ==
    /\ station \in [Stations -> StationRow]
    /\ connector \in [Stations \X Numbers -> ConnectorStates \cup {None}]
    /\ session \in [Keys -> Session \cup {None}]
    /\ meter \in [Keys -> [Samples -> Nat]]
    /\ messages \in [Stations -> SUBSET Calls]
    /\ lastEvent \in [Stations -> StationStates]
    /\ pc \in [Connections -> {"closed", "idle", "loaded", "committed"}]
    /\ copy \in [Connections -> StationRow \cup {None}]
    /\ pending \in [Connections -> Calls \cup {None}]
    /\ told \subseteq Keys
    /\ sweep \in [Workers -> [Stations -> StationRow \cup {None}]]
    /\ admin \in AdminRequest \cup {None}

-----------------------------------------------------------------------------
(* A sweep that has selected no station.                                     *)
NoSweep == [s \in Stations |-> None]

Init ==
    /\ station = InitStation
    /\ connector = InitConnector
    /\ session = [k \in Keys |-> None]
    /\ meter = [k \in Keys |-> [x \in Samples |-> 0]]
    /\ messages = [s \in Stations |-> {}]
    /\ lastEvent = [s \in Stations |-> InitStation[s].state]
    /\ pc = [c \in Connections |-> "closed"]
    /\ copy = [c \in Connections |-> None]
    /\ pending = [c \in Connections |-> None]
    /\ told = {}
    /\ sweep = [w \in Workers |-> NoSweep]
    /\ admin = None

(* No handler of the backend is between its load and its commit or reply.    *)
Idle == admin = None /\ \A c \in Connections : pc[c] \in {"closed", "idle"}

-----------------------------------------------------------------------------
(* The connection.                                                           *)

(* The station authenticates; the session of the connection holds its row.   *)
Connect(c) ==
    /\ Idle
    /\ pc[c] = "closed"
    /\ pc' = [pc EXCEPT ![c] = "idle"]
    /\ copy' = [copy EXCEPT ![c] = station[StationOf[c]]]
    /\ UNCHANGED <<db, pending, told, sweep, admin>>

Close(c) ==
    /\ pc' = [pc EXCEPT ![c] = "closed"]
    /\ copy' = [copy EXCEPT ![c] = None]
    /\ pending' = [pending EXCEPT ![c] = None]
    /\ UNCHANGED <<db, told, sweep, admin>>

Disconnect(c) == Idle /\ pc[c] = "idle" /\ Close(c)

(* A frame arrives at a session whose copy a rollback expired: station.id    *)
(* loads it again.                                                           *)
Reload(c) ==
    /\ Idle
    /\ pc[c] = "idle"
    /\ copy[c] = None
    /\ pc' = [pc EXCEPT ![c] = "loaded"]
    /\ copy' = [copy EXCEPT ![c] = station[StationOf[c]]]
    /\ UNCHANGED <<db, pending, told, sweep, admin>>

(* Connection c can run its handler on a frame.                              *)
Ready(c) == \/ pc[c] = "loaded"
            \/ Idle /\ pc[c] = "idle" /\ copy[c] # None

Recorded(s, call) == \E m \in messages[s] : m.id = call.id

(* The recorded message a duplicate frame is answered from.                  *)
Existing(s, call) == CHOOSE m \in messages[s] : m.id = call.id

(* Operators marked (variant) are defects the properties are tried against;  *)
(* no specification uses them.                                               *)

ToldAny(s, call) == told \cup {<<s, call.id>>}                (* variant *)

(* The CALLRESULT of a StartTransaction carries the transaction id.          *)
Told(s, call) == IF call.action = "StartTransaction"
                 THEN told \cup {<<s, call.id>>} ELSE told

(* A message id the station has used before: nothing is written, and the     *)
(* answer is the one the recorded message got.                               *)
Duplicate(c, call) ==
    /\ Ready(c)
    /\ call.action # "Malformed"
    /\ Recorded(StationOf[c], call)
    /\ told' = Told(StationOf[c], Existing(StationOf[c], call))
    /\ pc' = [pc EXCEPT ![c] = "idle"]
    /\ UNCHANGED <<db, copy, pending, sweep, admin>>

(* Connection c handles a frame whose message id is new.                     *)
Handles(c, call, action) ==
    /\ Ready(c)
    /\ call.action = action
    /\ ~Recorded(StationOf[c], call)

(* The commit of an accepted frame: the message, its outbox row and all the  *)
(* handler changed, in one transaction that expires the session's copies.    *)
Commit(c, call) ==
    /\ messages' = IF call.id = None THEN messages
                   ELSE [messages EXCEPT ![StationOf[c]] = @ \cup {call}]
    /\ pc' = [pc EXCEPT ![c] = "committed"]
    /\ copy' = [copy EXCEPT ![c] = None]
    /\ pending' = [pending EXCEPT ![c] = call]
    /\ UNCHANGED <<told, sweep, admin>>

(* Building the reply reads station.id, which loads the row again.           *)
Reply(c) ==
    /\ pc[c] = "committed"
    /\ told' = Told(StationOf[c], pending[c])
    /\ pc' = [pc EXCEPT ![c] = "idle"]
    /\ copy' = [copy EXCEPT ![c] = station[StationOf[c]]]
    /\ pending' = [pending EXCEPT ![c] = None]
    /\ UNCHANGED <<db, sweep, admin>>

(* The socket is gone when the reply is sent: the charger cannot tell        *)
(* whether its message was recorded.                                         *)
LoseReply(c) == pc[c] = "committed" /\ Close(c)

(* The backend dies with whatever it had in flight, and starts again.        *)
BackendRestart ==
    /\ \/ admin # None
       \/ \E c \in Connections : pc[c] # "closed"
    /\ pc' = [c \in Connections |-> "closed"]
    /\ copy' = [c \in Connections |-> None]
    /\ pending' = [c \in Connections |-> None]
    /\ admin' = None
    /\ UNCHANGED <<db, told, sweep>>

-----------------------------------------------------------------------------
(* Writes to a station row: state and online flag net of the copy, and the   *)
(* time of contact, which a handler that touches it always stamps.           *)

SavedStateOnly(row, held, state, online, seen) ==
    [row EXCEPT !.state = state, !.seen = seen]                (* variant *)

Saved(row, held, state, online, seen) ==
    [state  |-> NetChange(row.state, held.state, state),
     online |-> NetChange(row.online, held.online, online),
     seen   |-> seen]

AuditedPrevious(s, held, state) ==
    IF held.state = state THEN lastEvent
    ELSE [lastEvent EXCEPT ![s] = held.state]                  (* variant *)

(* _record_transition adds an audit event to the transaction, unless the     *)
(* state stays the same; it is committed with the change it tells of.        *)
Audited(s, held, state) ==
    IF held.state = state THEN lastEvent ELSE [lastEvent EXCEPT ![s] = state]

WriteStation(c, state, online) ==
    LET s == StationOf[c]
    IN  /\ station' = [station EXCEPT ![s] =
                         Saved(@, copy[c], state, online, "recent")]
        /\ lastEvent' = Audited(s, copy[c], state)

-----------------------------------------------------------------------------
(* The supported actions.                                                    *)

(* BootNotification and Heartbeat.                                           *)
HandleHeartbeat(c, call) ==
    /\ Handles(c, call, "Heartbeat")
    /\ Allowed(STATION_TRANSITIONS, copy[c].state, "online")
    /\ Commit(c, call)
    /\ WriteStation(c, "online", TRUE)
    /\ UNCHANGED <<connector, session, meter>>

HandleAuthorize(c, call) ==
    /\ Handles(c, call, "Authorize")
    /\ Commit(c, call)
    /\ station' = [station EXCEPT ![StationOf[c]].seen = "recent"]
    /\ UNCHANGED <<connector, session, meter, lastEvent>>

(* A connector row is created, available, when its number is first used.     *)
ConnectorState(s, n) ==
    IF connector[<<s, n>>] = None THEN "available" ELSE connector[<<s, n>>]

ActiveOn(s, n) == {k \in Keys : /\ k[1] = s
                                /\ session[k] # None
                                /\ session[k].connector = n
                                /\ session[k].state \in {"active", "starting"}}

Interrupts(state) == state \in {"suspended_ev", "suspended_evse", "faulted"}

InterruptLatest(s, n) ==
    LET latest == {k \in Keys : /\ k[1] = s
                                /\ session[k] # None
                                /\ session[k].connector = n}
    IN  IF latest = {} THEN UNCHANGED session
        ELSE \E k \in latest :
                session' = [session EXCEPT ![k].state = "interrupted"]
                                                               (* variant *)

(* One of the sessions the connector is charging is interrupted, if any.     *)
InterruptOne(s, n) ==
    IF ActiveOn(s, n) = {} THEN UNCHANGED session
    ELSE \E k \in ActiveOn(s, n) :
            /\ Allowed(SESSION_TRANSITIONS, session[k].state, "interrupted")
            /\ session' = [session EXCEPT ![k].state = "interrupted"]

StatusAcceptable(c, call) ==
    LET current == ConnectorState(StationOf[c], call.connector)
    IN  /\ Allowed(STATION_TRANSITIONS, copy[c].state,
                   StationStateFor(call.status))
        /\ Allowed(CONNECTOR_TRANSITIONS, current,
                   ReportedState(call.status, current))

HandleStatus(c, call) ==
    /\ Handles(c, call, "StatusNotification")
    /\ StatusAcceptable(c, call)
    /\ Commit(c, call)
    /\ WriteStation(c, StationStateFor(call.status),
                       call.status # "Unavailable")
    /\ LET s    == StationOf[c]
           n    == call.connector
           next == ReportedState(call.status, ConnectorState(s, n))
       IN  /\ connector' = [connector EXCEPT ![<<s, n>>] = next]
           /\ IF Interrupts(next) THEN InterruptOne(s, n)
              ELSE UNCHANGED session
    /\ UNCHANGED meter

TxnIdUnchecked(key) == TRUE                                    (* variant *)

(* The crc32 of two messages may be the same; the transactions table takes   *)
(* an id once.                                                               *)
TxnIdFree(key) == \A k \in Keys : session[k] # None => TxnId[k] # TxnId[key]

StartAcceptable(c, call) ==
    LET s == StationOf[c]
    IN  /\ copy[c].online
        /\ copy[c].state \notin {"offline", "faulted"}
        /\ ConnectorState(s, call.connector) = "available"
        /\ TxnIdFree(<<s, call.id>>)

NewSession(n) == [connector |-> n, state |-> "active",
                  transactionState |-> "open", transaction |-> "open"]

HandleStart(c, call) ==
    /\ Handles(c, call, "StartTransaction")
    /\ StartAcceptable(c, call)
    /\ Commit(c, call)
    /\ LET s == StationOf[c]
       IN  /\ session' = [session EXCEPT ![<<s, call.id>>] =
                            NewSession(call.connector)]
           /\ connector' = [connector EXCEPT ![<<s, call.connector>>] = "charging"]
           /\ station' = [station EXCEPT ![s] =
                            Saved(@, copy[c], "online", TRUE, @.seen)]
    /\ UNCHANGED <<meter, lastEvent>>

(* The transaction a frame names, of whatever station.                       *)
Named(call) == {k \in Keys : session[k] # None /\ TxnId[k] = call.txn}

Occurrences(x, list) == Cardinality({i \in DOMAIN list : list[i] = x})

InsertedAgain(stored, list) ==
    [x \in Samples |-> stored[x] + Occurrences(x, list)]       (* variant *)

(* The check against stored samples does not see those the same message has  *)
(* added: nothing is flushed before the commit.                              *)
Inserted(stored, list) ==
    [x \in Samples |-> IF stored[x] > 0 THEN stored[x]
                       ELSE Occurrences(x, list)]

(* A frame that names no known transaction is recorded and stores nothing.   *)
HandleMeter(c, call) ==
    /\ Handles(c, call, "MeterValues")
    /\ Commit(c, call)
    /\ meter' = [k \in Keys |-> IF k \in Named(call)
                                THEN Inserted(meter[k], call.samples)
                                ELSE meter[k]]
    /\ UNCHANGED <<station, connector, session, lastEvent>>

StopAcceptable(call) ==
    \A k \in Named(call) :
        LET freed == <<k[1], session[k].connector>>
        IN  /\ Allowed(TRANSACTION_TRANSITIONS, session[k].transaction, "closed")
            /\ Allowed(SESSION_TRANSITIONS, session[k].state, "completed")
            /\ Allowed(CONNECTOR_TRANSITIONS, connector[freed], "available")

CompletedHalf(s) == [s EXCEPT !.state = "completed",
                              !.transaction = "closed"]        (* variant *)

Completed(s) == [s EXCEPT !.state = "completed",
                          !.transactionState = "closed",
                          !.transaction = "closed"]

HandleStop(c, call) ==
    /\ Handles(c, call, "StopTransaction")
    /\ StopAcceptable(call)
    /\ Commit(c, call)
    /\ session' = [k \in Keys |-> IF k \in Named(call)
                                  THEN Completed(session[k]) ELSE session[k]]
    /\ connector' = [p \in Stations \X Numbers |->
                        IF \E k \in Named(call) :
                              p = <<k[1], session[k].connector>>
                        THEN "available" ELSE connector[p]]
    /\ UNCHANGED <<station, meter, lastEvent>>

(* The handler raises: everything is rolled back, the copy expires and the   *)
(* charger gets a CALLERROR.                                                 *)
Rejected(c, call) ==
    \/ call.action = "Malformed"
    \/ /\ ~Recorded(StationOf[c], call)
       /\ \/ /\ call.action = "Heartbeat"
             /\ ~Allowed(STATION_TRANSITIONS, copy[c].state, "online")
          \/ call.action = "StatusNotification" /\ ~StatusAcceptable(c, call)
          \/ call.action = "StartTransaction" /\ ~StartAcceptable(c, call)
          \/ call.action = "StopTransaction" /\ ~StopAcceptable(call)

RejectAccepted(c, call) ==
    /\ Ready(c)
    /\ Rejected(c, call)
    /\ told' = Told(StationOf[c], call)
    /\ pc' = [pc EXCEPT ![c] = "idle"]
    /\ copy' = [copy EXCEPT ![c] = None]
    /\ UNCHANGED <<db, pending, sweep, admin>>                 (* variant *)

Reject(c, call) ==
    /\ Ready(c)
    /\ Rejected(c, call)
    /\ pc' = [pc EXCEPT ![c] = "idle"]
    /\ copy' = [copy EXCEPT ![c] = None]
    /\ UNCHANGED <<db, pending, told, sweep, admin>>

-----------------------------------------------------------------------------
(* The worker's sweep for silent stations: a query, and a later commit of    *)
(* everything it found.                                                      *)

SilentOnline(row) == row.state = "online" /\ row.seen = "old" (* variant *)

Silent(row) == row.online /\ row.seen = "old"

SweepSelect(w) ==
    /\ sweep[w] = NoSweep
    /\ \E s \in Stations : Silent(station[s])
    /\ sweep' = [sweep EXCEPT ![w] =
                   [s \in Stations |-> IF Silent(station[s]) THEN station[s]
                                       ELSE None]]
    /\ UNCHANGED <<db, socket, admin>>

SweepCommit(w) ==
    /\ sweep[w] # NoSweep
    /\ station' = [s \in Stations |->
                     IF sweep[w][s] # None
                     THEN Saved(station[s], sweep[w][s], "offline", FALSE,
                                station[s].seen)
                     ELSE station[s]]
    /\ lastEvent' = [s \in Stations |-> IF sweep[w][s] # None THEN "offline"
                                    ELSE lastEvent[s]]
    /\ sweep' = [sweep EXCEPT ![w] = NoSweep]
    /\ UNCHANGED <<connector, session, meter, messages, socket, admin>>

WorkerCrash(w) ==
    /\ sweep[w] # NoSweep
    /\ sweep' = [sweep EXCEPT ![w] = NoSweep]
    /\ UNCHANGED <<db, socket, admin>>

(* A station stays silent for longer than the timeout.                       *)
Silence(s) ==
    /\ s \in QuietStations
    /\ station[s].seen = "recent"
    /\ station' = [station EXCEPT ![s].seen = "old"]
    /\ UNCHANGED <<connector, session, meter, messages, lastEvent, socket,
                   sweep, admin>>

-----------------------------------------------------------------------------
(* The admin's controls.                                                     *)

StationLoad(s, online) ==
    /\ Idle
    /\ s \in AdminStations
    /\ admin' = [station |-> s, online |-> online, copy |-> station[s]]
    /\ UNCHANGED <<db, socket, sweep>>

(* /stations/{id}/online stamps last_seen_at, /offline clears it.            *)
StationCommit ==
    /\ admin # None
    /\ LET s     == admin.station
           held  == admin.copy
           state == IF admin.online THEN "online" ELSE "offline"
           seen  == IF admin.online THEN "recent"
                    ELSE NetChange(station[s].seen, held.seen, None)
       IN  /\ station' = [station EXCEPT ![s] =
                            Saved(@, held, state, admin.online, seen)]
           /\ lastEvent' = [lastEvent EXCEPT ![s] = state]
    /\ admin' = None
    /\ UNCHANGED <<connector, session, meter, messages, socket, sweep>>

ConnectorSet(s, n, state) ==
    /\ Idle
    /\ <<s, n>> \in AdminConnectors
    /\ connector[<<s, n>>] # None
    /\ connector' = [connector EXCEPT ![<<s, n>>] = state]
    /\ UNCHANGED <<station, session, meter, messages, lastEvent, socket,
                   sweep, admin>>

-----------------------------------------------------------------------------
Next ==
    \/ \E c \in Connections : Connect(c)
    \/ \E c \in Connections : Disconnect(c)
    \/ \E c \in Connections : Reload(c)
    \/ \E c \in Connections : Reply(c)
    \/ \E c \in Connections : LoseReply(c)
    \/ BackendRestart
    \/ \E c \in Connections, call \in Calls : Duplicate(c, call)
    \/ \E c \in Connections, call \in Calls : Reject(c, call)
    \/ \E c \in Connections, call \in Calls : HandleHeartbeat(c, call)
    \/ \E c \in Connections, call \in Calls : HandleAuthorize(c, call)
    \/ \E c \in Connections, call \in Calls : HandleStatus(c, call)
    \/ \E c \in Connections, call \in Calls : HandleStart(c, call)
    \/ \E c \in Connections, call \in Calls : HandleMeter(c, call)
    \/ \E c \in Connections, call \in Calls : HandleStop(c, call)
    \/ \E w \in Workers : SweepSelect(w)
    \/ \E w \in Workers : SweepCommit(w)
    \/ \E w \in Workers : WorkerCrash(w)
    \/ \E s \in Stations : Silence(s)
    \/ \E s \in Stations, online \in BOOLEAN : StationLoad(s, online)
    \/ StationCommit
    \/ \E s \in Stations, n \in Numbers,
          state \in {"available", "unavailable"} : ConnectorSet(s, n, state)

Spec == Init /\ [][Next]_vars

(* A handler runs to its reply, an admin request to its commit, and the      *)
(* worker sweeps again and again. Nothing makes a charger connect, send or   *)
(* fall silent, an admin act or a process die.                               *)
Fairness ==
    /\ \A c \in Connections : WF_vars(Reply(c) \/ LoseReply(c))
    /\ WF_vars(StationCommit)
    /\ \A w \in Workers : WF_vars(SweepSelect(w) \/ SweepCommit(w))

FairSpec == Spec /\ Fairness

-----------------------------------------------------------------------------
(* Safety.                                                                   *)

(* A start takes effect exactly when its message is recorded, however often  *)
(* the charger sends it, and no two sessions share a transaction id though   *)
(* the ids are checksums (ingestion.py:250-264, 384-418, 560).               *)
StartsMatchSessions ==
    /\ \A k \in Keys : session[k] # None <=>
          \E m \in messages[k[1]] : m.id = k[2] /\ m.action = "StartTransaction"
    /\ \A j, k \in Keys : session[j] # None /\ session[k] # None /\ j # k
                              => TxnId[j] # TxnId[k]

(* A charger that was given a transaction id can rely on it: the session     *)
(* exists, and it is its own (ingestion.py:250-264, 560-568; ocpp.py:33-40). *)
ToldIsDurable ==
    \A k \in told : session[k] # None

(* The two rows of a session and its copy of the transaction state agree:    *)
(* completed is closed, anything else is open (ingestion.py:510-542).        *)
SessionsAgree ==
    \A k \in Keys : session[k] # None =>
        /\ session[k].transaction = session[k].transactionState
        /\ session[k].state = "completed" <=> session[k].transaction = "closed"

(* A charger may always end a transaction, report a fault and report itself  *)
(* available: no state that the frames, the sweep and the admin bring about  *)
(* makes the transition tables refuse it (ingestion.py:45-80).               *)
ReportsNeverRefused ==
    \A c \in Connections : copy[c] # None =>
        \A call \in Calls :
            \/ call.action \notin {"StopTransaction", "StatusNotification"}
            \/ call.action = "StopTransaction" /\ StopAcceptable(call)
            \/ /\ call.action = "StatusNotification"
               /\ call.status \in {"Faulted", "Available"}
                      => StatusAcceptable(c, call)

(* What a charger sees of a session.                                         *)
ChargeOf(k) ==
    IF session[k] = None THEN [connector |-> None, phase |-> "absent"]
    ELSE [connector |-> session[k].connector,
          phase |-> IF session[k].state \in {"completed", "interrupted"}
                    THEN session[k].state ELSE "charging"]

Charges == INSTANCE Charge WITH
    Requests <- Keys, Connectors <- Numbers,
    charge <- [k \in Keys |-> ChargeOf(k)]

(* With frames repeated, replies lost, ids that are checksums and several    *)
(* stations, each charge goes its own way: no frame touches two, none begins *)
(* again, and what a charger was told remains (ingestion.py:250-264, 364-382,*)
(* 384-418, 510-544, 560-568).                                               *)
KeepsCharge == Charges!Spec

(* However stale the copies a handler and a sweep write from, the state of a *)
(* station changes only with an audit event, and no event ends in a state    *)
(* the row does not take: whatever a station's row holds, the event committed*)
(* last says so (ingestion.py:207-233, 296-328, stations.py:22-38).          *)
ChangesRecorded ==
    \A s \in Stations : lastEvent[s] = station[s].state

(* A sample sent again in a later message is stored once                     *)
(* (ingestion.py:474-508).                                                   *)
SamplesStoredOnce ==
    \A k \in Keys : \A x \in Samples : meter[k][x] <= 1

-----------------------------------------------------------------------------
(* What the repository says of the program and the code does not do.         *)

(* No session starts on a station the database shows as offline              *)
(* (tests/test_ingestion.py:107, page.tsx:1569).                             *)
StartsOnlyWhileOnline ==
    [][\A c \in Connections : \A call \in Calls :
          HandleStart(c, call) => station[StationOf[c]].online]_vars

-----------------------------------------------------------------------------
(* Liveness.                                                                 *)

(* A step only a crash of the worker explains: losing a sweep may look like   *)
(* the commit of one that finds the stations offline already.                *)
SweepLost(w) == WorkerCrash(w) /\ ~SweepCommit(w)

Undisturbed == /\ <>[](admin = None)
               /\ <>[][\A w \in Workers : ~SweepLost(w)]_vars

(* A station that stays silent beyond the timeout ends up offline, whatever  *)
(* it last reported and whatever its chargers tried to start meanwhile       *)
(* (stations.py:11-39, worker.py:27-30).                                     *)
SilentGoesOffline ==
    \A s \in Stations :
        Undisturbed /\ <>[](station[s].seen = "old")
        => <>[](~station[s].online)

(* A station whose heartbeats keep coming ends up online, although a sweep   *)
(* may commit over one of them and the next one is judged by the copy from   *)
(* before the sweep (ingestion.py:296-311, stations.py:22-25).               *)
HeartbeatsRestore ==
    \A s \in Stations :
        /\ Undisturbed
        /\ <>[](station[s].seen # "old")
        /\ []<>(\E c \in Connections : StationOf[c] = s /\ pc[c] = "committed")
        /\ <>[](\A c \in Connections : pending[c] \in {None, Heartbeat(None)})
        => <>[](station[s].online /\ station[s].state = "online")

=============================================================================
