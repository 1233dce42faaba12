--------------------------- MODULE IngestionProofs ---------------------------
(* Theorems about Ingestion, for any stations, connections, frames, checksums *)
(* and workers.                                                              *)
EXTENDS Ingestion, FiniteSetTheorems, TLAPS

(* A handler between load and commit has its copy, one between commit and    *)
(* reply the frame it answers.                                               *)
Sockets ==
    \A c \in Connections :
        /\ pc[c] = "loaded" => copy[c] # None
        /\ pc[c] = "committed" => pending[c] \in Calls

TypeInv == TypeOK /\ Sockets

-----------------------------------------------------------------------------
(* Tables and rows.                                                          *)

LEMMA ReportedType ==
    ASSUME NEW status, NEW current \in ConnectorStates
    PROVE  ReportedState(status, current) \in ConnectorStates
BY DEF ReportedState, status_map, ConnectorStates

LEMMA StationStateForType ==
    ASSUME NEW status
    PROVE  StationStateFor(status) \in {"online", "offline", "faulted"}
BY DEF StationStateFor

LEMMA SavedType ==
    ASSUME NEW row \in StationRow, NEW held \in StationRow,
           NEW state \in StationStates, NEW online \in BOOLEAN,
           NEW seen \in {None, "recent", "old"}
    PROVE  Saved(row, held, state, online, seen) \in StationRow
<1>1. NetChange(row.state, held.state, state) \in StationStates
    BY DEF NetChange, StationRow
<1>2. NetChange(row.online, held.online, online) \in BOOLEAN
    BY DEF NetChange, StationRow
<1> QED
    BY <1>1, <1>2 DEF Saved, StationRow

LEMMA OccurrencesType ==
    ASSUME NEW x, NEW S, NEW list \in Seq(S)
    PROVE  Occurrences(x, list) \in Nat
<1>1. IsFiniteSet(1 .. Len(list))
    BY FS_Interval
<1>2. IsFiniteSet({i \in DOMAIN list : list[i] = x})
    BY <1>1, FS_Subset
<1> QED
    BY <1>2, FS_CardinalityType DEF Occurrences

-----------------------------------------------------------------------------
LEMMA ReadyHasCopy ==
    ASSUME TypeInv, NEW c \in Connections, Ready(c)
    PROVE  copy[c] \in StationRow
BY DEF TypeInv, TypeOK, Sockets, Ready

(* What a commit does to everything but the tables of the domain.            *)
LEMMA CommitTypes ==
    ASSUME TypeInv, NEW c \in Connections, NEW call \in Calls, Commit(c, call)
    PROVE  /\ messages' \in [Stations -> SUBSET Calls]
           /\ pc' \in [Connections -> {"closed", "idle", "loaded", "committed"}]
           /\ copy' \in [Connections -> StationRow \cup {None}]
           /\ pending' \in [Connections -> Calls \cup {None}]
           /\ told' = told /\ sweep' = sweep /\ admin' = admin
           /\ Sockets'
<1>1. StationOf[c] \in Stations
    BY IngestionAssumption DEF IngestionAssumption
<1> QED
    BY <1>1 DEF TypeInv, TypeOK, Sockets, Commit

LEMMA WriteStationTypes ==
    ASSUME TypeInv, NEW c \in Connections, Ready(c),
           NEW state \in StationStates, NEW online \in BOOLEAN,
           WriteStation(c, state, online)
    PROVE  /\ station' \in [Stations -> StationRow]
           /\ lastEvent' \in [Stations -> StationStates]
<1> DEFINE s == StationOf[c]
           row == Saved(station[s], copy[c], state, online, "recent")
<1>1. s \in Stations /\ copy[c] \in StationRow /\ station[s] \in StationRow
    BY ReadyHasCopy, IngestionAssumption DEF IngestionAssumption, TypeInv, TypeOK
<1>2. row \in StationRow
    BY <1>1, SavedType
<1>3. station' = [station EXCEPT ![s] = row]
    BY DEF WriteStation
<1>4. lastEvent' \in {lastEvent, [lastEvent EXCEPT ![s] = state]}
    BY DEF WriteStation, Audited
<1> QED
    BY <1>1, <1>2, <1>3, <1>4 DEF TypeInv, TypeOK

LEMMA InterruptTypes ==
    ASSUME TypeInv, NEW s, NEW n, InterruptOne(s, n)
    PROVE  session' \in [Keys -> Session \cup {None}]
<1>1. CASE UNCHANGED session
    BY <1>1 DEF TypeInv, TypeOK
<1>2. CASE ActiveOn(s, n) # {}
    <2>1. PICK k \in ActiveOn(s, n) :
             session' = [session EXCEPT ![k].state = "interrupted"]
        BY <1>2 DEF InterruptOne
    <2>2. k \in Keys /\ session[k] \in Session
        BY DEF ActiveOn, TypeInv, TypeOK
    <2>3. [session[k] EXCEPT !.state = "interrupted"] \in Session
        BY <2>2 DEF Session, SessionStates
    <2> QED
        BY <2>1, <2>2, <2>3 DEF TypeInv, TypeOK
<1> QED
    BY <1>1, <1>2 DEF InterruptOne

LEMMA CompletedType ==
    ASSUME NEW s \in Session
    PROVE  Completed(s) \in Session
BY DEF Completed, Session, SessionStates, TransactionStates

(* A handler that accepts its frame.                                         *)
Accepts(c, call) ==
    \/ HandleHeartbeat(c, call) \/ HandleAuthorize(c, call)
    \/ HandleStatus(c, call)    \/ HandleStart(c, call)
    \/ HandleMeter(c, call)     \/ HandleStop(c, call)

LEMMA AcceptsTypes ==
    ASSUME TypeInv, NEW c \in Connections, NEW call \in Calls,
           Accepts(c, call)
    PROVE  TypeInv'
<1> DEFINE s == StationOf[c]
<1>1. Ready(c) /\ Commit(c, call)
    BY DEF Accepts, HandleHeartbeat, HandleAuthorize, HandleStatus,
           HandleStart, HandleMeter, HandleStop, Handles
<1>2. s \in Stations /\ copy[c] \in StationRow /\ station[s] \in StationRow
    BY <1>1, ReadyHasCopy, IngestionAssumption
    DEF IngestionAssumption, TypeInv, TypeOK
<1>3. \A n \in Numbers : ConnectorState(s, n) \in ConnectorStates
    BY <1>2 DEF ConnectorState, ConnectorStates, TypeInv, TypeOK
<1> DEFINE Tables == /\ station' \in [Stations -> StationRow]
                     /\ connector' \in [Stations \X Numbers ->
                                           ConnectorStates \cup {None}]
                     /\ session' \in [Keys -> Session \cup {None}]
                     /\ meter' \in [Keys -> [Samples -> Nat]]
                     /\ lastEvent' \in [Stations -> StationStates]
<1>4. SUFFICES Tables
    BY <1>1, CommitTypes DEF TypeInv, TypeOK
<1>5. CASE HandleHeartbeat(c, call)
    <2>1. WriteStation(c, "online", TRUE)
        BY <1>5 DEF HandleHeartbeat
    <2>2. /\ station' \in [Stations -> StationRow]
          /\ lastEvent' \in [Stations -> StationStates]
        BY <1>1, <2>1, WriteStationTypes DEF StationStates
    <2> QED
        BY <1>5, <2>2 DEF HandleHeartbeat, TypeInv, TypeOK
<1>6. CASE HandleAuthorize(c, call)
    <2>1. [station[s] EXCEPT !.seen = "recent"] \in StationRow
        BY <1>2 DEF StationRow
    <2> QED
        BY <1>2, <1>6, <2>1 DEF HandleAuthorize, TypeInv, TypeOK
<1>7. CASE HandleStatus(c, call)
    <2> DEFINE n == call.connector
               next == ReportedState(call.status, ConnectorState(s, n))
    <2>1. n \in Numbers
        BY <1>7, IngestionAssumption
        DEF IngestionAssumption, HandleStatus, Handles
    <2>2. next \in ConnectorStates
        BY <1>3, <2>1, ReportedType
    <2>3. StationStateFor(call.status) \in StationStates
        BY StationStateForType DEF StationStates
    <2>4. WriteStation(c, StationStateFor(call.status),
                          call.status # "Unavailable")
        BY <1>7 DEF HandleStatus
    <2>5. /\ station' \in [Stations -> StationRow]
          /\ lastEvent' \in [Stations -> StationStates]
        BY <1>1, <2>3, <2>4, WriteStationTypes
    <2>6. InterruptOne(s, n) \/ UNCHANGED session
        BY <1>7 DEF HandleStatus
    <2>7. session' \in [Keys -> Session \cup {None}]
        BY <2>6, InterruptTypes DEF TypeInv, TypeOK
    <2>8. connector' = [connector EXCEPT ![<<s, n>>] = next] /\ UNCHANGED meter
        BY <1>7 DEF HandleStatus
    <2> QED
        BY <1>2, <2>1, <2>2, <2>5, <2>7, <2>8 DEF TypeInv, TypeOK
<1>8. CASE HandleStart(c, call)
    <2> DEFINE n == call.connector
               row == Saved(station[s], copy[c], "online", TRUE,
                            station[s].seen)
    <2>1. n \in Numbers /\ call.id \in Starts
        BY <1>8, IngestionAssumption
        DEF IngestionAssumption, HandleStart, Handles
    <2>2. NewSession(n) \in Session
        BY <2>1 DEF NewSession, Session, SessionStates, TransactionStates
    <2>3. row \in StationRow
        <3>1. station[s].seen \in {None, "recent", "old"}
            BY <1>2 DEF StationRow
        <3> QED
            BY <1>2, <3>1, SavedType DEF StationStates
    <2>4. /\ session' = [session EXCEPT ![<<s, call.id>>] = NewSession(n)]
          /\ connector' = [connector EXCEPT ![<<s, n>>] = "charging"]
          /\ station' = [station EXCEPT ![s] = row]
          /\ UNCHANGED <<meter, lastEvent>>
        BY <1>8 DEF HandleStart
    <2>5. <<s, call.id>> \in Keys
        BY <1>2, <2>1 DEF Keys
    <2> QED
        BY <1>2, <2>1, <2>2, <2>3, <2>4, <2>5
        DEF TypeInv, TypeOK, ConnectorStates
<1>9. CASE HandleMeter(c, call)
    <2>1. call.samples \in Seq(Samples)
        BY <1>9, IngestionAssumption
        DEF IngestionAssumption, HandleMeter, Handles
    <2>2. \A k \in Keys : Inserted(meter[k], call.samples) \in [Samples -> Nat]
        BY <2>1, OccurrencesType DEF Inserted, TypeInv, TypeOK
    <2>3. meter' = [k \in Keys |-> IF k \in Named(call)
                                   THEN Inserted(meter[k], call.samples)
                                   ELSE meter[k]]
        BY <1>9 DEF HandleMeter
    <2>4. meter' \in [Keys -> [Samples -> Nat]]
        BY <2>2, <2>3 DEF TypeInv, TypeOK
    <2> QED
        BY <1>9, <2>4 DEF HandleMeter, TypeInv, TypeOK
<1>10. CASE HandleStop(c, call)
    <2>1. \A k \in Named(call) : k \in Keys /\ session[k] \in Session
        BY DEF Named, TypeInv, TypeOK
    <2>2. session' = [k \in Keys |-> IF k \in Named(call)
                                     THEN Completed(session[k]) ELSE session[k]]
        BY <1>10 DEF HandleStop
    <2>3. session' \in [Keys -> Session \cup {None}]
        BY <2>1, <2>2, CompletedType DEF TypeInv, TypeOK
    <2>4. connector' = [p \in Stations \X Numbers |->
                           IF \E k \in Named(call) :
                                 p = <<k[1], session[k].connector>>
                           THEN "available" ELSE connector[p]]
        BY <1>10 DEF HandleStop
    <2>5. connector' \in [Stations \X Numbers -> ConnectorStates \cup {None}]
        BY <2>4 DEF TypeInv, TypeOK, ConnectorStates
    <2> QED
        BY <1>10, <2>3, <2>5 DEF HandleStop, TypeInv, TypeOK
<1> QED
    BY <1>5, <1>6, <1>7, <1>8, <1>9, <1>10 DEF Accepts

-----------------------------------------------------------------------------
(* The disjuncts of Next, by what they do to the tables.                     *)
SocketStep(c) ==
    \/ Connect(c) \/ Disconnect(c) \/ Reload(c) \/ Reply(c) \/ LoseReply(c)
    \/ \E call \in Calls : Duplicate(c, call) \/ Reject(c, call)

SweepStep(w) == SweepSelect(w) \/ SweepCommit(w) \/ WorkerCrash(w)

OtherStep ==
    \/ BackendRestart \/ StationCommit \/ UNCHANGED vars
    \/ \E s \in Stations : Silence(s)
    \/ \E s \in Stations, online \in BOOLEAN : StationLoad(s, online)
    \/ \E s \in Stations, n \in Numbers,
          state \in {"available", "unavailable"} : ConnectorSet(s, n, state)

LEMMA ToldType ==
    ASSUME NEW s \in Stations, NEW call \in Calls
    PROVE  Told(s, call) \subseteq told \cup Keys
BY IngestionAssumption DEF IngestionAssumption, Told, Keys

LEMMA ExistingType ==
    ASSUME TypeInv, NEW s \in Stations, NEW call, Recorded(s, call)
    PROVE  /\ Existing(s, call) \in messages[s]
           /\ Existing(s, call) \in Calls
           /\ Existing(s, call).id = call.id
BY DEF Recorded, Existing, TypeInv, TypeOK

LEMMA SocketTypes ==
    ASSUME TypeInv, NEW c \in Connections,
           SocketStep(c)
    PROVE  TypeInv'
<1> DEFINE s == StationOf[c]
<1>1. s \in Stations /\ station[s] \in StationRow
    BY IngestionAssumption DEF IngestionAssumption, TypeInv, TypeOK
<1>2. CASE Connect(c) \/ Reload(c)
    <2>1. station[s] # None
        BY <1>1, NoneAssumption DEF NoneAssumption
    <2> QED
        BY <1>1, <1>2, <2>1
        DEF Connect, Reload, db, TypeInv, TypeOK, Sockets
<1>3. CASE Disconnect(c) \/ LoseReply(c)
    BY <1>3 DEF Disconnect, LoseReply, Close, db, TypeInv, TypeOK, Sockets
<1>4. CASE Reply(c)
    <2>1. pending[c] \in Calls
        BY <1>4 DEF Reply, TypeInv, Sockets
    <2>2. told' \subseteq Keys
        BY <1>1, <1>4, <2>1, ToldType DEF Reply, TypeInv, TypeOK
    <2> QED
        BY <1>1, <1>4, <2>2 DEF Reply, db, TypeInv, TypeOK, Sockets
<1>5. ASSUME NEW call \in Calls, Duplicate(c, call)
      PROVE  TypeInv'
    <2>1. Existing(s, call) \in Calls
        BY <1>1, <1>5, ExistingType DEF Duplicate
    <2>2. told' \subseteq Keys
        BY <1>1, <1>5, <2>1, ToldType DEF Duplicate, TypeInv, TypeOK
    <2> QED
        BY <1>5, <2>2 DEF Duplicate, db, TypeInv, TypeOK, Sockets
<1>6. ASSUME NEW call \in Calls, Reject(c, call)
      PROVE  TypeInv'
    BY <1>6 DEF Reject, db, TypeInv, TypeOK, Sockets
<1> QED
    BY <1>2, <1>3, <1>4, <1>5, <1>6 DEF SocketStep

LEMMA SweepTypes ==
    ASSUME TypeInv, NEW w \in Workers,
           SweepStep(w)
    PROVE  TypeInv'
<1>1. NoSweep \in [Stations -> StationRow \cup {None}]
    BY DEF NoSweep
<1>2. CASE SweepSelect(w)
    BY <1>2 DEF SweepSelect, db, socket, TypeInv, TypeOK, Sockets
<1>3. CASE SweepCommit(w)
    <2>1. ASSUME NEW s \in Stations, sweep[w][s] # None
          PROVE  Saved(station[s], sweep[w][s], "offline", FALSE,
                       station[s].seen) \in StationRow
        <3>1. station[s] \in StationRow /\ sweep[w][s] \in StationRow
            BY <2>1 DEF TypeInv, TypeOK
        <3>2. station[s].seen \in {None, "recent", "old"}
            BY <3>1 DEF StationRow
        <3> QED
            BY <3>1, <3>2, SavedType DEF StationStates
    <2>2. station' \in [Stations -> StationRow]
        BY <1>3, <2>1 DEF SweepCommit, TypeInv, TypeOK
    <2>3. lastEvent' \in [Stations -> StationStates]
        BY <1>3 DEF SweepCommit, TypeInv, TypeOK, StationStates
    <2> QED
        BY <1>1, <1>3, <2>2, <2>3
        DEF SweepCommit, socket, TypeInv, TypeOK, Sockets
<1>4. CASE WorkerCrash(w)
    BY <1>1, <1>4 DEF WorkerCrash, db, socket, TypeInv, TypeOK, Sockets
<1> QED
    BY <1>2, <1>3, <1>4 DEF SweepStep

LEMMA OtherTypes ==
    ASSUME TypeInv, OtherStep
    PROVE  TypeInv'
<1>1. CASE BackendRestart
    BY <1>1 DEF BackendRestart, db, TypeInv, TypeOK, Sockets
<1>2. CASE StationCommit
    <2> DEFINE s == admin.station
               state == IF admin.online THEN "online" ELSE "offline"
               seen  == IF admin.online THEN "recent"
                        ELSE NetChange(station[s].seen, admin.copy.seen, None)
               row   == Saved(station[s], admin.copy, state, admin.online, seen)
    <2>1. admin \in AdminRequest
        BY <1>2 DEF StationCommit, TypeInv, TypeOK
    <2>2. s \in Stations /\ admin.copy \in StationRow /\ admin.online \in BOOLEAN
          /\ station[s] \in StationRow
        BY <2>1 DEF AdminRequest, TypeInv, TypeOK
    <2>3. seen \in {None, "recent", "old"} /\ state \in StationStates
        BY <2>2 DEF NetChange, StationRow, StationStates
    <2>4. row \in StationRow
        BY <2>2, <2>3, SavedType
    <2>5. /\ station' = [station EXCEPT ![s] = row]
          /\ lastEvent' = [lastEvent EXCEPT ![s] = state]
          /\ admin' = None
          /\ UNCHANGED <<connector, session, meter, messages, socket, sweep>>
        BY <1>2 DEF StationCommit
    <2> QED
        BY <2>2, <2>3, <2>4, <2>5 DEF socket, TypeInv, TypeOK, Sockets
<1>3. CASE UNCHANGED vars
    BY <1>3 DEF vars, db, socket, TypeInv, TypeOK, Sockets
<1>4. ASSUME NEW s \in Stations, Silence(s)
      PROVE  TypeInv'
    <2>1. [station[s] EXCEPT !.seen = "old"] \in StationRow
        <3>1. station[s] \in StationRow
            BY DEF TypeInv, TypeOK
        <3> QED
            BY <3>1 DEF StationRow
    <2> QED
        BY <1>4, <2>1 DEF Silence, socket, TypeInv, TypeOK, Sockets
<1>5. ASSUME NEW s \in Stations, NEW online \in BOOLEAN, StationLoad(s, online)
      PROVE  TypeInv'
    <2>1. [station |-> s, online |-> online, copy |-> station[s]] \in AdminRequest
        BY DEF AdminRequest, TypeInv, TypeOK
    <2> QED
        BY <1>5, <2>1 DEF StationLoad, db, socket, TypeInv, TypeOK, Sockets
<1>6. ASSUME NEW s \in Stations, NEW n \in Numbers,
             NEW state \in {"available", "unavailable"}, ConnectorSet(s, n, state)
      PROVE  TypeInv'
    BY <1>6 DEF ConnectorSet, ConnectorStates, socket, TypeInv, TypeOK, Sockets
<1> QED
    BY <1>1, <1>2, <1>3, <1>4, <1>5, <1>6 DEF OtherStep

LEMMA Steps ==
    ASSUME [Next]_vars
    PROVE  \/ \E c \in Connections, call \in Calls : Accepts(c, call)
           \/ \E c \in Connections : SocketStep(c)
           \/ \E w \in Workers : SweepStep(w)
           \/ OtherStep
BY DEF Next, Accepts, SocketStep, SweepStep, OtherStep

LEMMA TypeInit == Init => TypeInv
BY IngestionAssumption
DEF IngestionAssumption, Init, TypeInv, TypeOK, Sockets, NoSweep, StationRow

LEMMA TypeStep == TypeInv /\ [Next]_vars => TypeInv'
<1> SUFFICES ASSUME TypeInv, [Next]_vars
             PROVE  TypeInv'
    OBVIOUS
<1>1. ASSUME NEW c \in Connections, NEW call \in Calls, Accepts(c, call)
      PROVE  TypeInv'
    BY <1>1, AcceptsTypes
<1>2. ASSUME NEW c \in Connections, SocketStep(c)
      PROVE  TypeInv'
    BY <1>2, SocketTypes
<1>3. ASSUME NEW w \in Workers, SweepStep(w)
      PROVE  TypeInv'
    BY <1>3, SweepTypes
<1>4. CASE OtherStep
    BY <1>4, OtherTypes
<1> QED
    BY <1>1, <1>2, <1>3, <1>4, Steps

LEMMA TypeInvAlways == Spec => []TypeInv
BY TypeInit, TypeStep, PTL DEF Spec

(* In every reachable state every row, copy, request and connection is well  *)
(* formed, whatever the frames and their order (ingestion.py:236-568,        *)
(* ocpp.py:16-44).                                                           *)
THEOREM TypeCorrect == Spec => []TypeOK
<1>1. TypeInv => TypeOK
    BY DEF TypeInv
<1> QED
    BY <1>1, TypeInvAlways, PTL

-----------------------------------------------------------------------------
(* Sessions. StartsMatchSessions, SessionsAgree and ToldIsDurable become     *)
(* inductive with the phases sessions really go through, the connector each  *)
(* of them has, and the start a connection has still to answer.              *)

Phases ==
    \A k \in Keys : session[k] # None =>
        /\ session[k].state \in {"active", "interrupted", "completed"}
        /\ session[k].transaction \in {"open", "closed"}
        /\ connector[<<k[1], session[k].connector>>] # None

AnswersExist ==
    \A c \in Connections :
        pc[c] = "committed" /\ pending[c].action = "StartTransaction" =>
            session[<<StationOf[c], pending[c].id>>] # None

ChargeInv ==
    /\ TypeInv
    /\ StartsMatchSessions
    /\ SessionsAgree
    /\ ToldIsDurable
    /\ Phases
    /\ AnswersExist

(* What an accepted frame may do to the sessions.                            *)
Begins(c, call) ==
    LET key == <<StationOf[c], call.id>>
    IN  /\ call.action = "StartTransaction"
        /\ key \in Keys /\ call.connector \in Numbers
        /\ session[key] = None
        /\ TxnIdFree(key)
        /\ session' = [session EXCEPT ![key] = NewSession(call.connector)]

Interrupted(call, k) ==
    /\ call.action # "StartTransaction"
    /\ session[k] # None
    /\ session[k].state = "active"
    /\ session' = [session EXCEPT ![k].state = "interrupted"]

Stopped(call, k) ==
    /\ call.action # "StartTransaction"
    /\ session[k] # None
    /\ session' = [session EXCEPT ![k] = Completed(session[k])]

LEMMA SessionSteps ==
    ASSUME ChargeInv, NEW c \in Connections, NEW call \in Calls,
           Accepts(c, call)
    PROVE  \/ call.action # "StartTransaction" /\ UNCHANGED session
           \/ Begins(c, call)
           \/ \E k \in Keys : Interrupted(call, k) \/ Stopped(call, k)
<1> DEFINE s == StationOf[c]
<1>0. s \in Stations
    BY IngestionAssumption DEF IngestionAssumption
<1>1. CASE HandleHeartbeat(c, call) \/ HandleAuthorize(c, call)
           \/ HandleMeter(c, call)
    BY <1>1 DEF HandleHeartbeat, HandleAuthorize, HandleMeter, Handles
<1>2. CASE HandleStatus(c, call)
    <2>1. call.action = "StatusNotification"
        BY <1>2 DEF HandleStatus, Handles
    <2>2. InterruptOne(s, call.connector) \/ UNCHANGED session
        BY <1>2 DEF HandleStatus
    <2>3. ASSUME ~UNCHANGED session
          PROVE  \E k \in Keys : Interrupted(call, k)
        <3>1. PICK k \in ActiveOn(s, call.connector) :
                 session' = [session EXCEPT ![k].state = "interrupted"]
            BY <2>2, <2>3 DEF InterruptOne
        <3>2. k \in Keys /\ session[k] # None /\ session[k].state = "active"
            BY DEF ActiveOn, ChargeInv, Phases
        <3> QED
            BY <2>1, <3>1, <3>2 DEF Interrupted
    <2> QED
        BY <2>1, <2>3
<1>3. CASE HandleStart(c, call)
    <2>1. /\ call.action = "StartTransaction" /\ ~Recorded(s, call)
          /\ TxnIdFree(<<s, call.id>>)
          /\ session' = [session EXCEPT ![<<s, call.id>>] =
                            NewSession(call.connector)]
        BY <1>3 DEF HandleStart, Handles, StartAcceptable
    <2>2. call.id \in Starts /\ call.connector \in Numbers
        BY <2>1, IngestionAssumption DEF IngestionAssumption
    <2>3. <<s, call.id>> \in Keys
        BY <1>0, <2>2 DEF Keys
    <2>4. session[<<s, call.id>>] = None
        BY <2>1, <2>3 DEF ChargeInv, StartsMatchSessions, Recorded
    <2> QED
        BY <2>1, <2>2, <2>3, <2>4 DEF Begins
<1>4. CASE HandleStop(c, call)
    <2>1. /\ call.action = "StopTransaction"
          /\ session' = [k \in Keys |-> IF k \in Named(call)
                                        THEN Completed(session[k])
                                        ELSE session[k]]
        BY <1>4 DEF HandleStop, Handles
    <2>2. session \in [Keys -> Session \cup {None}]
        BY DEF ChargeInv, TypeInv, TypeOK
    <2>3. CASE Named(call) = {}
        BY <2>1, <2>2, <2>3
    <2>4. CASE Named(call) # {}
        <3>1. PICK k \in Named(call) : TRUE
            BY <2>4
        <3>2. k \in Keys /\ session[k] # None
            BY DEF Named
        <3>3. \A j \in Keys : j \in Named(call) <=> j = k
            BY <3>1, <3>2 DEF Named, ChargeInv, StartsMatchSessions
        <3>4. session' = [session EXCEPT ![k] = Completed(session[k])]
            BY <2>1, <2>2, <3>2, <3>3
        <3> QED
            BY <2>1, <3>2, <3>4 DEF Stopped
    <2> QED
        BY <2>3, <2>4
<1> QED
    BY <1>1, <1>2, <1>3, <1>4 DEF Accepts

(* A connector row is never deleted.                                         *)
LEMMA ConnectorsStay ==
    ASSUME TypeInv, [Next]_vars, NEW p \in Stations \X Numbers,
           connector[p] # None
    PROVE  connector'[p] # None
<1>1. None \notin ConnectorStates
    BY NoneAssumption DEF NoneAssumption
<1>2. CASE UNCHANGED connector
    BY <1>2
<1>3. ASSUME NEW c \in Connections, NEW call \in Calls, Accepts(c, call)
      PROVE  connector'[p] # None
    <2> DEFINE s == StationOf[c]
               n == call.connector
               next == ReportedState(call.status, ConnectorState(s, n))
    <2>1. CASE HandleStatus(c, call)
        <3>1. connector' = [connector EXCEPT ![<<s, n>>] = next]
            BY <2>1 DEF HandleStatus
        <3>2. n \in Numbers /\ s \in Stations
            BY <2>1, IngestionAssumption
            DEF IngestionAssumption, HandleStatus, Handles
        <3>3. ConnectorState(s, n) \in ConnectorStates
            BY <3>2 DEF ConnectorState, ConnectorStates, TypeInv, TypeOK
        <3>4. next \in ConnectorStates
            BY <3>3, ReportedType
        <3> QED
            BY <1>1, <3>1, <3>2, <3>4 DEF TypeInv, TypeOK
    <2>2. CASE HandleStart(c, call)
        <3>1. connector' = [connector EXCEPT ![<<s, n>>] = "charging"]
            BY <2>2 DEF HandleStart
        <3> QED
            BY <1>1, <3>1 DEF TypeInv, TypeOK, ConnectorStates
    <2>3. CASE HandleStop(c, call)
        BY <1>1, <2>3 DEF HandleStop, ConnectorStates
    <2>4. CASE UNCHANGED connector
        BY <2>4
    <2> QED
        BY <1>3, <2>1, <2>2, <2>3, <2>4
        DEF Accepts, HandleHeartbeat, HandleAuthorize, HandleMeter
<1>4. ASSUME NEW c \in Connections, SocketStep(c)
      PROVE  UNCHANGED connector
    BY <1>4 DEF SocketStep, Connect, Disconnect, Close, Reload, Reply,
       LoseReply, Duplicate, Reject, db
<1>5. ASSUME NEW w \in Workers, SweepStep(w)
      PROVE  UNCHANGED connector
    BY <1>5 DEF SweepStep, SweepSelect, SweepCommit, WorkerCrash, db
<1>6. ASSUME NEW s \in Stations, NEW n \in Numbers,
             NEW state \in {"available", "unavailable"}, ConnectorSet(s, n, state)
      PROVE  connector'[p] # None
    BY <1>1, <1>6 DEF ConnectorSet, ConnectorStates, TypeInv, TypeOK
<1>7. CASE OtherStep
    BY <1>2, <1>6, <1>7
    DEF OtherStep, BackendRestart, StationCommit, Silence, StationLoad, db, vars
<1> QED
    BY <1>2, <1>3, <1>4, <1>5, <1>7, Steps

(* A frame other than a start is recorded, and the same sessions exist.      *)
LEMMA NoStartRecorded ==
    ASSUME ChargeInv, NEW c \in Connections, NEW call \in Calls, Commit(c, call),
           call.action # "StartTransaction",
           \A k \in Keys : session'[k] = None <=> session[k] = None
    PROVE  StartsMatchSessions' /\ ToldIsDurable' /\ AnswersExist'
<1>1. \A k \in Keys :
         (\E m \in messages'[k[1]] : m.id = k[2] /\ m.action = "StartTransaction")
         <=> (\E m \in messages[k[1]] : m.id = k[2]
                                       /\ m.action = "StartTransaction")
    <2> SUFFICES ASSUME NEW k \in Keys
                 PROVE  \A m : m.action = "StartTransaction" =>
                           (m \in messages'[k[1]] <=> m \in messages[k[1]])
        OBVIOUS
    <2>1. k[1] \in Stations
        BY DEF Keys
    <2> QED
        BY <2>1 DEF Commit, ChargeInv, TypeInv, TypeOK
<1>2. StartsMatchSessions'
    BY <1>1 DEF ChargeInv, StartsMatchSessions
<1>3. told' = told /\ told \subseteq Keys
    BY DEF Commit, ChargeInv, TypeInv, TypeOK
<1>4. ToldIsDurable'
    BY <1>3 DEF ChargeInv, ToldIsDurable
<1>5. ASSUME NEW b \in Connections, pc'[b] = "committed",
             pending'[b].action = "StartTransaction"
      PROVE  session'[<<StationOf[b], pending'[b].id>>] # None
    <2>1. /\ pc[b] = "committed" /\ pending'[b] = pending[b]
          /\ pending[b] \in Calls
        BY <1>5 DEF Commit, ChargeInv, TypeInv, TypeOK, Sockets
    <2>2. <<StationOf[b], pending[b].id>> \in Keys
        BY <1>5, <2>1, IngestionAssumption DEF IngestionAssumption, Keys
    <2> QED
        BY <1>5, <2>1, <2>2 DEF ChargeInv, AnswersExist
<1>6. AnswersExist'
    BY <1>5 DEF AnswersExist
<1> QED
    BY <1>2, <1>4, <1>6

LEMMA StartRecorded ==
    ASSUME ChargeInv, NEW c \in Connections, NEW call \in Calls, Commit(c, call),
           Begins(c, call)
    PROVE  StartsMatchSessions' /\ ToldIsDurable' /\ AnswersExist'
<1> DEFINE s == StationOf[c]
           key == <<s, call.id>>
<1>1. /\ s \in Stations /\ call.id \in Starts /\ call.id # None
      /\ key \in Keys /\ call.action = "StartTransaction"
    BY IngestionAssumption, NoneAssumption
    DEF IngestionAssumption, NoneAssumption, Begins
<1>2. NewSession(call.connector) \in Session
    BY DEF Begins, NewSession, Session, SessionStates, TransactionStates
<1>3. \A k \in Keys : session'[k] # None <=> (session[k] # None \/ k = key)
    BY <1>1, <1>2, NoneAssumption
    DEF NoneAssumption, Begins, ChargeInv, TypeInv, TypeOK
<1>4. messages' = [messages EXCEPT ![s] = @ \cup {call}]
    BY <1>1 DEF Commit
<1>5. ASSUME NEW k \in Keys
      PROVE  session'[k] # None <=>
                \E m \in messages'[k[1]] : m.id = k[2]
                                        /\ m.action = "StartTransaction"
    <2>1. k = <<k[1], k[2]>> /\ k[1] \in Stations
        BY DEF Keys
    <2>2. session[k] # None <=>
             \E m \in messages[k[1]] : m.id = k[2]
                                     /\ m.action = "StartTransaction"
        BY DEF ChargeInv, StartsMatchSessions
    <2>3. messages'[k[1]] = IF k[1] = s THEN messages[k[1]] \cup {call}
                            ELSE messages[k[1]]
        BY <1>4, <2>1 DEF ChargeInv, TypeInv, TypeOK
    <2>4. CASE k = key
        BY <1>1, <1>3, <2>1, <2>3, <2>4
    <2>5. CASE k # key
        <3>1. k[1] = s => call.id # k[2]
            BY <2>1, <2>5
        <3> QED
            BY <1>3, <2>2, <2>3, <2>5, <3>1
    <2> QED
        BY <2>4, <2>5
<1>6. ASSUME NEW j \in Keys, NEW k \in Keys,
             session'[j] # None, session'[k] # None, j # k
      PROVE  TxnId[j] # TxnId[k]
    BY <1>1, <1>3, <1>6 DEF Begins, TxnIdFree, ChargeInv, StartsMatchSessions
<1>7. StartsMatchSessions'
    BY <1>5, <1>6 DEF StartsMatchSessions
<1>8. ToldIsDurable'
    BY <1>3 DEF Commit, ToldIsDurable, ChargeInv, TypeInv, TypeOK
<1>9. ASSUME NEW b \in Connections, pc'[b] = "committed",
             pending'[b].action = "StartTransaction"
      PROVE  session'[<<StationOf[b], pending'[b].id>>] # None
    <2>1. CASE b = c
        <3>1. pending'[b] = call
            BY <2>1 DEF Commit, ChargeInv, TypeInv, TypeOK
        <3> QED
            BY <1>1, <1>3, <2>1, <3>1
    <2>2. CASE b # c
        <3>1. /\ pc[b] = "committed" /\ pending'[b] = pending[b]
              /\ pending[b] \in Calls
            BY <1>9, <2>2 DEF Commit, ChargeInv, TypeInv, TypeOK, Sockets
        <3>2. <<StationOf[b], pending[b].id>> \in Keys
            BY <1>9, <3>1, IngestionAssumption DEF IngestionAssumption, Keys
        <3> QED
            BY <1>3, <1>9, <3>1, <3>2 DEF ChargeInv, AnswersExist
    <2> QED
        BY <2>1, <2>2
<1> QED
    BY <1>7, <1>8, <1>9 DEF AnswersExist

LEMMA AcceptsCharge ==
    ASSUME ChargeInv, NEW c \in Connections, NEW call \in Calls,
           Accepts(c, call), [Next]_vars
    PROVE  ChargeInv'
<1>1. TypeInv'
    BY AcceptsTypes DEF ChargeInv
<1>2. Commit(c, call)
    BY DEF Accepts, HandleHeartbeat, HandleAuthorize, HandleStatus,
           HandleStart, HandleMeter, HandleStop, Handles
<1>3. session \in [Keys -> Session \cup {None}] /\ None \notin Session
    BY NoneAssumption DEF NoneAssumption, ChargeInv, TypeInv, TypeOK
<1>4. \A k \in Keys : session[k] # None =>
         /\ session[k] \in Session
         /\ k[1] \in Stations
         /\ connector'[<<k[1], session[k].connector>>] # None
    BY <1>3, ConnectorsStay DEF ChargeInv, Phases, Keys, Session
<1>5. CASE call.action # "StartTransaction" /\ UNCHANGED session
    <2>1. StartsMatchSessions' /\ ToldIsDurable' /\ AnswersExist'
        BY <1>2, <1>5, NoStartRecorded
    <2> QED
        BY <1>1, <1>4, <1>5, <2>1 DEF ChargeInv, SessionsAgree, Phases
<1>6. CASE Begins(c, call)
    <2> DEFINE key == <<StationOf[c], call.id>>
               n == call.connector
    <2>1. StartsMatchSessions' /\ ToldIsDurable' /\ AnswersExist'
        BY <1>2, <1>6, StartRecorded
    <2>2. /\ key \in Keys /\ n \in Numbers /\ StationOf[c] \in Stations
          /\ call.action = "StartTransaction"
          /\ session' = [session EXCEPT ![key] = NewSession(n)]
        BY <1>6, IngestionAssumption DEF IngestionAssumption, Begins
    <2>3. HandleStart(c, call)
        BY <2>2 DEF Accepts, HandleHeartbeat, HandleAuthorize, HandleStatus,
           HandleMeter, HandleStop, Handles
    <2>4. connector'[<<StationOf[c], n>>] # None
        BY <2>2, <2>3, NoneAssumption
        DEF NoneAssumption, HandleStart, ChargeInv, TypeInv, TypeOK,
            ConnectorStates
    <2>5. session'[key] = NewSession(n) /\ key[1] = StationOf[c]
          /\ \A k \in Keys \ {key} : session'[k] = session[k]
        BY <1>3, <2>2
    <2>6. SessionsAgree'
        BY <2>5 DEF NewSession, ChargeInv, SessionsAgree
    <2>7. Phases'
        <3> SUFFICES ASSUME NEW k \in Keys, session'[k] # None
                     PROVE  /\ session'[k].state \in
                                  {"active", "interrupted", "completed"}
                            /\ session'[k].transaction \in {"open", "closed"}
                            /\ connector'[<<k[1], session'[k].connector>>] # None
            BY DEF Phases
        <3>1. CASE k = key
            BY <2>4, <2>5, <3>1 DEF NewSession
        <3>2. CASE k # key
            BY <1>4, <2>5, <3>2 DEF ChargeInv, Phases
        <3> QED
            BY <3>1, <3>2
    <2> QED
        BY <1>1, <2>1, <2>6, <2>7 DEF ChargeInv
<1>7. ASSUME NEW k \in Keys, Interrupted(call, k) \/ Stopped(call, k)
      PROVE  ChargeInv'
    <2>1. /\ call.action # "StartTransaction"
          /\ session[k] # None /\ session[k] \in Session
          /\ \A j \in Keys \ {k} : session'[j] = session[j]
        BY <1>3, <1>7 DEF Interrupted, Stopped
    <2>2. \/ /\ session'[k] = [session[k] EXCEPT !.state = "interrupted"]
             /\ session[k].state = "active"
          \/ session'[k] = Completed(session[k])
        BY <1>3, <1>7 DEF Interrupted, Stopped
    <2>3. /\ session'[k] \in Session /\ session'[k] # None
          /\ session'[k].connector = session[k].connector
        <3>1. LET ended == [session[k] EXCEPT !.state = "interrupted"]
              IN  ended \in Session /\ ended.connector = session[k].connector
            BY <2>1 DEF Session, SessionStates
        <3>2. /\ Completed(session[k]) \in Session
              /\ Completed(session[k]).connector = session[k].connector
            BY <2>1, CompletedType DEF Completed, Session
        <3> QED
            BY <1>3, <2>2, <3>1, <3>2
    <2>4. StartsMatchSessions' /\ ToldIsDurable' /\ AnswersExist'
        BY <1>2, <2>1, <2>3, NoStartRecorded
    <2>5. /\ session'[k].transaction = session'[k].transactionState
          /\ session'[k].state = "completed" <=>
                session'[k].transaction = "closed"
          /\ session'[k].state \in {"active", "interrupted", "completed"}
          /\ session'[k].transaction \in {"open", "closed"}
        <3>1. /\ session[k] \in Session
              /\ session[k].transaction = session[k].transactionState
              /\ session[k].state = "completed" <=>
                    session[k].transaction = "closed"
              /\ session[k].transaction \in {"open", "closed"}
            BY <2>1 DEF ChargeInv, SessionsAgree, Phases
        <3>2. CASE session'[k] = Completed(session[k])
            BY <3>1, <3>2 DEF Completed, Session
        <3>3. CASE /\ session'[k] = [session[k] EXCEPT !.state = "interrupted"]
                   /\ session[k].state = "active"
            BY <3>1, <3>3 DEF Session
        <3> QED
            BY <2>2, <3>2, <3>3
    <2>6. SessionsAgree'
        BY <2>1, <2>5 DEF ChargeInv, SessionsAgree
    <2>7. Phases'
        BY <1>4, <2>1, <2>3, <2>5 DEF ChargeInv, Phases
    <2> QED
        BY <1>1, <2>4, <2>6, <2>7 DEF ChargeInv
<1> QED
    BY <1>5, <1>6, <1>7, SessionSteps

(* The steps other than Accepts: no session and no message changes, and the  *)
(* frames that wait for their answer stay. What a charger is told exists.    *)
Elsewhere ==
    /\ UNCHANGED <<session, messages>>
    /\ \A b \in Connections : pc'[b] = "committed" =>
          pc[b] = "committed" /\ pending'[b] = pending[b]
    /\ \/ told' = told
       \/ \E k \in Keys : session[k] # None /\ told' = told \cup {k}

LEMMA SocketSteps ==
    ASSUME ChargeInv, NEW c \in Connections, SocketStep(c)
    PROVE  Elsewhere
<1> DEFINE s == StationOf[c]
<1>1. s \in Stations
    BY IngestionAssumption DEF IngestionAssumption
<1>2. CASE Connect(c) \/ Disconnect(c) \/ Reload(c) \/ LoseReply(c)
           \/ \E call \in Calls : Reject(c, call)
    BY <1>2 DEF Connect, Disconnect, Close, Reload, LoseReply, Reject, db,
       Elsewhere, ChargeInv, TypeInv, TypeOK
<1>3. CASE Reply(c)
    <2>1. /\ pending[c] \in Calls /\ pc[c] = "committed"
          /\ told' = Told(s, pending[c])
        BY <1>3 DEF Reply, ChargeInv, TypeInv, Sockets
    <2>2. pending[c].action = "StartTransaction" =>
             /\ <<s, pending[c].id>> \in Keys
             /\ session[<<s, pending[c].id>>] # None
        BY <1>1, <2>1, IngestionAssumption
        DEF IngestionAssumption, ChargeInv, AnswersExist, Keys
    <2> QED
        BY <1>3, <2>1, <2>2
        DEF Reply, Told, db, Elsewhere, ChargeInv, TypeInv, TypeOK
<1>4. ASSUME NEW call \in Calls, Duplicate(c, call)
      PROVE  Elsewhere
    <2> DEFINE m == Existing(s, call)
    <2>1. m \in messages[s] /\ m \in Calls
        BY <1>1, <1>4, ExistingType DEF Duplicate, ChargeInv
    <2>2. m.action = "StartTransaction" =>
             <<s, m.id>> \in Keys /\ session[<<s, m.id>>] # None
        <3> SUFFICES ASSUME m.action = "StartTransaction"
                     PROVE  <<s, m.id>> \in Keys /\ session[<<s, m.id>>] # None
            OBVIOUS
        <3>1. <<s, m.id>> \in Keys
            BY <1>1, <2>1, IngestionAssumption DEF IngestionAssumption, Keys
        <3> QED
            BY <2>1, <3>1 DEF ChargeInv, StartsMatchSessions
    <2>3. told' = Told(s, m)
        BY <1>4 DEF Duplicate
    <2> QED
        BY <1>4, <2>2, <2>3
        DEF Duplicate, Told, db, Elsewhere, ChargeInv, TypeInv, TypeOK
<1> QED
    BY <1>2, <1>3, <1>4 DEF SocketStep

LEMMA ElsewhereSteps ==
    ASSUME ChargeInv, [Next]_vars,
           ~\E c \in Connections, call \in Calls : Accepts(c, call)
    PROVE  Elsewhere
<1>1. ASSUME NEW c \in Connections, SocketStep(c)
      PROVE  Elsewhere
    BY <1>1, SocketSteps DEF Elsewhere
<1>2. ASSUME NEW w \in Workers, SweepStep(w)
      PROVE  Elsewhere
    BY <1>2 DEF SweepStep, SweepSelect, SweepCommit, WorkerCrash, db, socket,
       Elsewhere
<1>3. CASE OtherStep
    BY <1>3 DEF OtherStep, BackendRestart, StationCommit, Silence, StationLoad,
       ConnectorSet, db, socket, vars, Elsewhere
<1> QED
    BY <1>1, <1>2, <1>3, Steps

LEMMA ElsewhereCharge ==
    ASSUME ChargeInv, [Next]_vars, Elsewhere
    PROVE  ChargeInv'
<1>1. TypeInv'
    BY TypeStep DEF ChargeInv
<1>2. session' = session /\ messages' = messages
    BY DEF Elsewhere
<1>3. StartsMatchSessions' /\ SessionsAgree'
    BY <1>2 DEF ChargeInv, StartsMatchSessions, SessionsAgree
<1>4. ToldIsDurable'
    BY <1>2 DEF Elsewhere, ChargeInv, ToldIsDurable
<1>5. AnswersExist'
    BY <1>2 DEF Elsewhere, ChargeInv, AnswersExist
<1>6. Phases'
    <2> SUFFICES ASSUME NEW k \in Keys, session[k] # None
                 PROVE  connector'[<<k[1], session[k].connector>>] # None
        BY <1>2 DEF ChargeInv, Phases
    <2>1. <<k[1], session[k].connector>> \in Stations \X Numbers
        BY DEF ChargeInv, TypeInv, TypeOK, Keys, Session
    <2>2. connector[<<k[1], session[k].connector>>] # None
        BY DEF ChargeInv, Phases
    <2> QED
        BY <2>1, <2>2, ConnectorsStay DEF ChargeInv
<1> QED
    BY <1>1, <1>3, <1>4, <1>5, <1>6 DEF ChargeInv

LEMMA ChargeStep == ChargeInv /\ [Next]_vars => ChargeInv'
<1> SUFFICES ASSUME ChargeInv, [Next]_vars
             PROVE  ChargeInv'
    OBVIOUS
<1>1. CASE \E c \in Connections, call \in Calls : Accepts(c, call)
    BY <1>1, AcceptsCharge
<1>2. CASE ~\E c \in Connections, call \in Calls : Accepts(c, call)
    BY <1>2, ElsewhereSteps, ElsewhereCharge
<1> QED
    BY <1>1, <1>2

LEMMA ChargeFirst == Init => ChargeInv
<1> SUFFICES ASSUME Init
             PROVE  ChargeInv
    OBVIOUS
<1>1. TypeInv
    BY TypeInit
<1>2. \A k \in Keys : session[k] = None /\ messages[k[1]] = {}
    BY DEF Init, Keys
<1> QED
    BY <1>1, <1>2 DEF Init, ChargeInv, StartsMatchSessions, SessionsAgree,
       ToldIsDurable, Phases, AnswersExist

LEMMA ChargeInvAlways == Spec => []ChargeInv
BY ChargeFirst, ChargeStep, PTL DEF Spec

(* A start takes effect exactly when its message is recorded, and no two     *)
(* sessions have one transaction id, whatever the checksums do               *)
(* (ingestion.py:250-264, 384-418, 560).                                     *)
THEOREM StartsAlwaysMatch == Spec => []StartsMatchSessions
<1>1. ChargeInv => StartsMatchSessions
    BY DEF ChargeInv
<1> QED
    BY <1>1, ChargeInvAlways, PTL

(* What a charger was told exists, through lost replies and restarts         *)
(* (ingestion.py:250-264, 560-568; ocpp.py:33-40).                           *)
THEOREM ToldAlwaysDurable == Spec => []ToldIsDurable
<1>1. ChargeInv => ToldIsDurable
    BY DEF ChargeInv
<1> QED
    BY <1>1, ChargeInvAlways, PTL

(* Session and transaction rows never part (ingestion.py:510-542).           *)
THEOREM SessionsAlwaysAgree == Spec => []SessionsAgree
<1>1. ChargeInv => SessionsAgree
    BY DEF ChargeInv
<1> QED
    BY <1>1, ChargeInvAlways, PTL

(* What a step does to a session that exists.                                *)
LEMMA SessionsStay ==
    ASSUME ChargeInv, [Next]_vars, NEW k \in Keys, session[k] # None
    PROVE  /\ session'[k] # None
           /\ session'[k].connector = session[k].connector
           /\ session[k].state = "completed" => session'[k].state = "completed"
<1>1. session \in [Keys -> Session \cup {None}] /\ None \notin Session
    BY NoneAssumption DEF NoneAssumption, ChargeInv, TypeInv, TypeOK
<1>2. CASE session'[k] = session[k]
    BY <1>2
<1>3. ASSUME NEW c \in Connections, NEW call \in Calls, Accepts(c, call),
             session'[k] # session[k]
      PROVE  \/ session'[k] = [session[k] EXCEPT !.state = "interrupted"]
                /\ session[k].state = "active"
             \/ session'[k] = Completed(session[k])
    <2>1. \/ Begins(c, call)
          \/ \E j \in Keys : Interrupted(call, j) \/ Stopped(call, j)
        BY <1>3, SessionSteps
    <2>2. ~Begins(c, call)
        BY <1>1, <1>3 DEF Begins
    <2>3. PICK j \in Keys : Interrupted(call, j) \/ Stopped(call, j)
        BY <2>1, <2>2
    <2>4. j = k
        BY <1>1, <1>3, <2>3 DEF Interrupted, Stopped
    <2> QED
        BY <1>1, <2>3, <2>4 DEF Interrupted, Stopped
<1>4. ASSUME NEW c \in Connections, NEW call \in Calls, Accepts(c, call),
             session'[k] # session[k]
      PROVE  /\ session'[k] # None
             /\ session'[k].connector = session[k].connector
             /\ session[k].state = "completed" =>
                   session'[k].state = "completed"
    <2>1. session[k] \in Session
        BY <1>1
    <2>2. LET ended == [session[k] EXCEPT !.state = "interrupted"]
          IN  ended \in Session /\ ended.connector = session[k].connector
        BY <2>1 DEF Session, SessionStates
    <2>3. /\ Completed(session[k]) \in Session
          /\ Completed(session[k]).connector = session[k].connector
          /\ Completed(session[k]).state = "completed"
        BY <2>1, CompletedType DEF Completed, Session
    <2> QED
        BY <1>1, <1>3, <1>4, <2>2, <2>3
<1>5. CASE \E c \in Connections, call \in Calls : Accepts(c, call)
    BY <1>2, <1>4, <1>5
<1>6. CASE ~\E c \in Connections, call \in Calls : Accepts(c, call)
    BY <1>2, <1>6, ElsewhereSteps DEF Elsewhere
<1> QED
    BY <1>5, <1>6

(* No session row is deleted or moved to another connector, and one that is  *)
(* completed stays so, whatever frames arrive later (ingestion.py:313-382,   *)
(* 384-418, 510-544).                                                        *)
THEOREM CompletedStays ==
    Spec => [][\A k \in Keys : session[k] # None =>
                  /\ session'[k] # None
                  /\ session'[k].connector = session[k].connector
                  /\ session[k].state = "completed" =>
                        session'[k].state = "completed"]_vars
<1>1. ChargeInv /\ [Next]_vars =>
         \A k \in Keys : session[k] # None =>
            /\ session'[k] # None
            /\ session'[k].connector = session[k].connector
            /\ session[k].state = "completed" => session'[k].state = "completed"
    BY SessionsStay
<1> QED
    BY <1>1, ChargeInvAlways, PTL DEF Spec

(* Only frames with an id of their own are recorded.                         *)
RecordedHaveIds ==
    \A s \in Stations : \A m \in messages[s] : m.id # None

LEMMA RecordedHaveIdsAlways == Spec => []RecordedHaveIds
<1>1. Init => RecordedHaveIds
    BY DEF Init, RecordedHaveIds
<1>2. ChargeInv /\ RecordedHaveIds /\ [Next]_vars => RecordedHaveIds'
    <2> SUFFICES ASSUME ChargeInv, RecordedHaveIds, [Next]_vars
                 PROVE  RecordedHaveIds'
        OBVIOUS
    <2>1. ASSUME NEW c \in Connections, NEW call \in Calls, Accepts(c, call)
          PROVE  RecordedHaveIds'
        <3>1. Commit(c, call)
            BY <2>1 DEF Accepts, HandleHeartbeat, HandleAuthorize, HandleStatus,
               HandleStart, HandleMeter, HandleStop
        <3> QED
            BY <3>1 DEF Commit, RecordedHaveIds, ChargeInv, TypeInv, TypeOK
    <2>2. CASE ~\E c \in Connections, call \in Calls : Accepts(c, call)
        BY <2>2, ElsewhereSteps DEF Elsewhere, RecordedHaveIds
    <2> QED
        BY <2>1, <2>2
<1> QED
    BY <1>1, <1>2, ChargeInvAlways, PTL DEF Spec

-----------------------------------------------------------------------------
(* Ingestion implements Charge: every step moves one charge, tells of one,   *)
(* or is a stutter.                                                          *)

LEMMA ChargeInit == Init => Charges!Init
BY DEF Init, Charges!Init, ChargeOf

LEMMA BeginsCharge ==
    ASSUME ChargeInv, NEW c \in Connections, NEW call \in Calls,
           Begins(c, call), told' = told
    PROVE  Charges!Next
<1> DEFINE key == <<StationOf[c], call.id>>
           n == call.connector
<1>1. /\ key \in Keys /\ n \in Numbers /\ session[key] = None
      /\ session' = [session EXCEPT ![key] = NewSession(n)]
    BY DEF Begins
<1>2. NewSession(n) \in Session /\ NewSession(n) # None
    BY <1>1, NoneAssumption
    DEF NoneAssumption, NewSession, Session, SessionStates, TransactionStates
<1>3. /\ session'[key] = NewSession(n)
      /\ \A k \in Keys : k # key => session'[k] = session[k]
    BY <1>1 DEF ChargeInv, TypeInv, TypeOK
<1>4. ChargeOf(key)' = [connector |-> n, phase |-> "charging"]
    BY <1>2, <1>3 DEF ChargeOf, NewSession
<1>5. ChargeOf(key).phase = "absent"
    BY <1>1 DEF ChargeOf
<1>6. \A k \in Keys : k # key => ChargeOf(k)' = ChargeOf(k)
    BY <1>3 DEF ChargeOf
<1>7. Charges!Begin(key, n)
    BY <1>1, <1>4, <1>5, <1>6 DEF Charges!Begin
<1> QED
    BY <1>1, <1>7 DEF Charges!Next

LEMMA EndsCharge ==
    ASSUME ChargeInv, NEW call, NEW k \in Keys,
           Interrupted(call, k) \/ Stopped(call, k), told' = told
    PROVE  Charges!Next
<1>1. session \in [Keys -> Session \cup {None}] /\ None \notin Session
    BY NoneAssumption DEF NoneAssumption, ChargeInv, TypeInv, TypeOK
<1>2. session[k] # None /\ session[k] \in Session
    BY <1>1 DEF Interrupted, Stopped
<1>3. \A j \in Keys : j # k => session'[j] = session[j]
    BY <1>1 DEF Interrupted, Stopped
<1>4. \A j \in Keys : j # k => ChargeOf(j)' = ChargeOf(j)
    BY <1>3 DEF ChargeOf
<1>5. CASE Interrupted(call, k)
    <2> DEFINE ended == [session[k] EXCEPT !.state = "interrupted"]
    <2>1. session'[k] = ended /\ session[k].state = "active"
        BY <1>1, <1>5 DEF Interrupted
    <2>2. ended \in Session /\ ended.state = "interrupted"
          /\ ended.connector = session[k].connector
        BY <1>2 DEF Session, SessionStates
    <2>3. ChargeOf(k) = [connector |-> session[k].connector, phase |-> "charging"]
        BY <1>2, <2>1 DEF ChargeOf
    <2>4. /\ session'[k] # None /\ session'[k].state = "interrupted"
          /\ session'[k].connector = session[k].connector
        BY <1>1, <2>1, <2>2
    <2>5. ChargeOf(k)' = [connector |-> session[k].connector,
                          phase |-> "interrupted"]
        BY <2>4 DEF ChargeOf
    <2>6. ChargeOf(k)' = [ChargeOf(k) EXCEPT !.phase = "interrupted"]
        BY <2>3, <2>5
    <2>7. ChargeOf(k).phase = "charging"
        BY <2>3
    <2>8. Charges!Interrupt(k)
        BY <1>4, <2>6, <2>7 DEF Charges!Interrupt
    <2> QED
        BY <2>8 DEF Charges!Next
<1>6. CASE Stopped(call, k)
    <2>1. session'[k] = Completed(session[k])
        BY <1>1, <1>6 DEF Stopped
    <2>2. /\ Completed(session[k]) \in Session
          /\ Completed(session[k]).state = "completed"
          /\ Completed(session[k]).connector = session[k].connector
        BY <1>2, CompletedType DEF Completed, Session
    <2>3. /\ ChargeOf(k).connector = session[k].connector
          /\ ChargeOf(k).phase # "absent"
          /\ ChargeOf(k) = [connector |-> session[k].connector,
                            phase |-> ChargeOf(k).phase]
        BY <1>2 DEF ChargeOf
    <2>4. ChargeOf(k)' = [connector |-> session[k].connector,
                          phase |-> "completed"]
        BY <1>1, <2>1, <2>2 DEF ChargeOf
    <2>5. ChargeOf(k)' = [ChargeOf(k) EXCEPT !.phase = "completed"]
        BY <2>3, <2>4
    <2>6. Charges!Complete(k)
        BY <1>4, <2>3, <2>5 DEF Charges!Complete
    <2> QED
        BY <2>6 DEF Charges!Next
<1> QED
    BY <1>5, <1>6

LEMMA RefinesCharge ==
    ChargeInv /\ [Next]_vars => [Charges!Next]_(Charges!vars)
<1> SUFFICES ASSUME ChargeInv, [Next]_vars
             PROVE  Charges!Next \/ UNCHANGED Charges!vars
    OBVIOUS
<1>1. ASSUME session' = session
      PROVE  \A k \in Keys : ChargeOf(k)' = ChargeOf(k)
    BY <1>1 DEF ChargeOf
<1>2. ASSUME NEW c \in Connections, NEW call \in Calls, Accepts(c, call)
      PROVE  Charges!Next \/ UNCHANGED Charges!vars
    <2>1. told' = told
        BY <1>2 DEF Accepts, HandleHeartbeat, HandleAuthorize, HandleStatus,
           HandleStart, HandleMeter, HandleStop, Commit
    <2>2. CASE UNCHANGED session
        BY <1>1, <2>1, <2>2 DEF Charges!vars
    <2> QED
        BY <1>2, <2>1, <2>2, SessionSteps, BeginsCharge, EndsCharge
<1>3. CASE Elsewhere
    <2>1. \A k \in Keys : ChargeOf(k)' = ChargeOf(k)
        BY <1>1, <1>3 DEF Elsewhere
    <2>2. CASE told' = told
        BY <2>1, <2>2 DEF Charges!vars
    <2>3. ASSUME NEW k \in Keys, session[k] # None, told' = told \cup {k}
          PROVE  Charges!Next
        <3>1. ChargeOf(k).phase # "absent"
            BY <2>3 DEF ChargeOf
        <3>2. Charges!Tell(k)
            BY <2>1, <2>3, <3>1 DEF Charges!Tell
        <3> QED
            BY <3>2 DEF Charges!Next
    <2> QED
        BY <1>3, <2>2, <2>3 DEF Elsewhere
<1> QED
    BY <1>2, <1>3, ElsewhereSteps

(* Ingestion keeps what it promises chargers: each charge begins once and    *)
(* goes its own way, and no frame of any station moves two                   *)
(* (ingestion.py:250-264, 364-382, 384-418, 510-544, 560-568).               *)
THEOREM ImplementsCharge == Spec => KeepsCharge
BY ChargeInit, RefinesCharge, ChargeInvAlways, PTL
DEF Spec, KeepsCharge, Charges!Spec

-----------------------------------------------------------------------------
(* The tables never refuse an honest report.                                 *)

LEMMA ConnectorReports ==
    ASSUME NEW state \in ConnectorStates
    PROVE  /\ Allowed(CONNECTOR_TRANSITIONS, state, "available")
           /\ Allowed(CONNECTOR_TRANSITIONS, state, "faulted")
<1>1. CASE state = "available"
    BY <1>1 DEF Allowed, CONNECTOR_TRANSITIONS, ConnectorStates
<1>2. CASE state = "occupied"
    BY <1>2 DEF Allowed, CONNECTOR_TRANSITIONS, ConnectorStates
<1>3. CASE state = "charging"
    BY <1>3 DEF Allowed, CONNECTOR_TRANSITIONS, ConnectorStates
<1>4. CASE state = "suspended_ev"
    BY <1>4 DEF Allowed, CONNECTOR_TRANSITIONS, ConnectorStates
<1>5. CASE state = "suspended_evse"
    BY <1>5 DEF Allowed, CONNECTOR_TRANSITIONS, ConnectorStates
<1>6. CASE state = "finishing"
    BY <1>6 DEF Allowed, CONNECTOR_TRANSITIONS, ConnectorStates
<1>7. CASE state = "reserved"
    BY <1>7 DEF Allowed, CONNECTOR_TRANSITIONS, ConnectorStates
<1>8. CASE state = "unavailable"
    BY <1>8 DEF Allowed, CONNECTOR_TRANSITIONS, ConnectorStates
<1>9. CASE state = "faulted"
    BY <1>9 DEF Allowed, CONNECTOR_TRANSITIONS, ConnectorStates
<1> QED
    BY <1>1, <1>2, <1>3, <1>4, <1>5, <1>6, <1>7, <1>8, <1>9 DEF ConnectorStates

LEMMA StationReports ==
    ASSUME NEW state \in StationStates
    PROVE  /\ Allowed(STATION_TRANSITIONS, state, "online")
           /\ Allowed(STATION_TRANSITIONS, state, "faulted")
<1>1. CASE state = "unknown"
    BY <1>1 DEF Allowed, STATION_TRANSITIONS
<1>2. CASE state = "online"
    BY <1>2 DEF Allowed, STATION_TRANSITIONS
<1>3. CASE state = "offline"
    BY <1>3 DEF Allowed, STATION_TRANSITIONS
<1>4. CASE state = "faulted"
    BY <1>4 DEF Allowed, STATION_TRANSITIONS
<1> QED
    BY <1>1, <1>2, <1>3, <1>4 DEF StationStates

LEMMA StopNeverRefused ==
    ASSUME ChargeInv, NEW call
    PROVE  StopAcceptable(call)
<1> SUFFICES ASSUME NEW k \in Named(call)
             PROVE  LET freed == <<k[1], session[k].connector>>
                    IN  /\ Allowed(TRANSACTION_TRANSITIONS,
                                   session[k].transaction, "closed")
                        /\ Allowed(SESSION_TRANSITIONS,
                                   session[k].state, "completed")
                        /\ Allowed(CONNECTOR_TRANSITIONS,
                                   connector[freed], "available")
    BY DEF StopAcceptable
<1> DEFINE freed == <<k[1], session[k].connector>>
<1>1. /\ k \in Keys /\ session[k] # None /\ session[k] \in Session
    BY DEF Named, ChargeInv, TypeInv, TypeOK
<1>2. freed \in Stations \X Numbers /\ connector[freed] # None
    BY <1>1 DEF Keys, Session, ChargeInv, Phases
<1>3. connector[freed] \in ConnectorStates
    BY <1>2 DEF ChargeInv, TypeInv, TypeOK
<1>4. Allowed(TRANSACTION_TRANSITIONS, session[k].transaction, "closed")
    <2>1. CASE session[k].transaction = "open"
        BY <2>1 DEF Allowed, TRANSACTION_TRANSITIONS
    <2>2. CASE session[k].transaction = "closed"
        BY <2>2 DEF Allowed
    <2> QED
        BY <1>1, <2>1, <2>2 DEF ChargeInv, Phases
<1>5. Allowed(SESSION_TRANSITIONS, session[k].state, "completed")
    <2>1. CASE session[k].state = "active"
        BY <2>1 DEF Allowed, SESSION_TRANSITIONS
    <2>2. CASE session[k].state = "interrupted"
        BY <2>2 DEF Allowed, SESSION_TRANSITIONS
    <2>3. CASE session[k].state = "completed"
        BY <2>3 DEF Allowed
    <2> QED
        BY <1>1, <2>1, <2>2, <2>3 DEF ChargeInv, Phases
<1> QED
    BY <1>3, <1>4, <1>5, ConnectorReports

(* A stop, a fault and a connector that is free again are never refused, in  *)
(* whatever state frames, sweeps and admins have left the rows               *)
(* (ingestion.py:45-80, 313-382, 510-544).                                   *)
THEOREM ReportsAlwaysAccepted == Spec => []ReportsNeverRefused
<1>1. ChargeInv => ReportsNeverRefused
    <2> SUFFICES ASSUME ChargeInv, NEW c \in Connections, copy[c] # None,
                        NEW call \in Calls, call.action = "StatusNotification",
                        call.status \in {"Faulted", "Available"}
                 PROVE  StatusAcceptable(c, call)
        BY StopNeverRefused DEF ReportsNeverRefused
    <2> DEFINE current == ConnectorState(StationOf[c], call.connector)
    <2>1. StationOf[c] \in Stations /\ call.connector \in Numbers
        BY IngestionAssumption DEF IngestionAssumption
    <2>2. current \in ConnectorStates
        BY <2>1 DEF ConnectorState, ConnectorStates, ChargeInv, TypeInv, TypeOK
    <2>3. copy[c].state \in StationStates
        BY DEF ChargeInv, TypeInv, TypeOK, StationRow
    <2>4. CASE call.status = "Faulted"
        <3>1. StationStateFor("Faulted") = "faulted"
            BY DEF StationStateFor
        <3>2. ReportedState("Faulted", current) = "faulted"
            BY DEF ReportedState, status_map
        <3> QED
            BY <2>2, <2>3, <2>4, <3>1, <3>2, ConnectorReports, StationReports
            DEF StatusAcceptable
    <2>5. CASE call.status = "Available"
        <3>1. StationStateFor("Available") = "online"
            BY DEF StationStateFor
        <3>2. ReportedState("Available", current) = "available"
            BY DEF ReportedState, status_map
        <3> QED
            BY <2>2, <2>3, <2>5, <3>1, <3>2, ConnectorReports, StationReports
            DEF StatusAcceptable
    <2> QED
        BY <2>4, <2>5
<1> QED
    BY <1>1, ChargeInvAlways, PTL

-----------------------------------------------------------------------------
(* Meter samples.                                                            *)

LEMMA MeterSteps ==
    ASSUME [Next]_vars
    PROVE  \/ UNCHANGED meter
           \/ \E c \in Connections, call \in Calls : HandleMeter(c, call)
<1>1. ASSUME NEW c \in Connections, NEW call \in Calls, Accepts(c, call),
             ~HandleMeter(c, call)
      PROVE  UNCHANGED meter
    BY <1>1 DEF Accepts, HandleHeartbeat, HandleAuthorize, HandleStatus,
       HandleStart, HandleStop
<1>2. ASSUME NEW c \in Connections, SocketStep(c)
      PROVE  UNCHANGED meter
    BY <1>2 DEF SocketStep, Connect, Disconnect, Close, Reload, Reply,
       LoseReply, Duplicate, Reject, db
<1>3. ASSUME NEW w \in Workers, SweepStep(w)
      PROVE  UNCHANGED meter
    BY <1>3 DEF SweepStep, SweepSelect, SweepCommit, WorkerCrash, db
<1>4. CASE OtherStep
    BY <1>4 DEF OtherStep, BackendRestart, StationCommit, Silence, StationLoad,
       ConnectorSet, db, vars
<1> QED
    BY <1>1, <1>2, <1>3, <1>4, Steps

(* If no frame holds a sample twice, a sample is stored once, however often  *)
(* and in whatever frames it is sent (ingestion.py:474-508).                 *)
THEOREM SamplesAlwaysOnce ==
    ASSUME \A call \in Calls : call.action = "MeterValues" =>
              \A i, j \in DOMAIN call.samples :
                 call.samples[i] = call.samples[j] => i = j
    PROVE  Spec => []SamplesStoredOnce
<1>1. Init => SamplesStoredOnce
    BY DEF Init, SamplesStoredOnce
<1>2. TypeOK /\ SamplesStoredOnce /\ [Next]_vars => SamplesStoredOnce'
    <2> SUFFICES ASSUME TypeOK, SamplesStoredOnce,
                        NEW k \in Keys, NEW x \in Samples,
                        NEW c \in Connections, NEW call \in Calls,
                        HandleMeter(c, call)
                 PROVE  meter'[k][x] <= 1
        BY MeterSteps DEF SamplesStoredOnce
    <2> DEFINE list == call.samples
               at   == {i \in DOMAIN list : list[i] = x}
    <2>1. call.action = "MeterValues" /\ list \in Seq(Samples)
        BY IngestionAssumption DEF IngestionAssumption, HandleMeter, Handles
    <2>2. Cardinality(at) <= 1
        <3>1. CASE at = {}
            BY <3>1, FS_EmptySet
        <3>2. CASE at # {}
            <4>1. PICK i \in at : TRUE
                BY <3>2
            <4>2. at = {i}
                BY <2>1, <4>1
            <4>3. Cardinality({i}) = 1
                BY FS_Singleton
            <4> HIDE DEF at
            <4> QED
                BY <4>2, <4>3
        <3> QED
            BY <3>1, <3>2
    <2>3. meter'[k][x] \in {meter[k][x], Occurrences(x, list)}
        BY DEF HandleMeter, Inserted
    <2> QED
        BY <2>2, <2>3 DEF Occurrences, SamplesStoredOnce
<1> QED
    BY <1>1, <1>2, TypeCorrect, PTL DEF Spec

-----------------------------------------------------------------------------
(* Audit events, with one worker, one connection for a station and no        *)
(* admin. The copy a connection writes from is the row, or the sweep has     *)
(* marked the station offline since; while a sweep is under way, it is the   *)
(* row.                                                                      *)

Live(row) == row.online => row.state \in {"online", "faulted"}

Same(held, row) == held.state = row.state /\ held.online = row.online

Overtaken(held, row) ==
    /\ row.state = "offline" /\ ~row.online
    /\ held.online \/ held.state = "offline"

CopyInv ==
    \A c \in Connections : copy[c] # None =>
        /\ Live(copy[c])
        /\ \/ Same(copy[c], station[StationOf[c]])
           \/ Overtaken(copy[c], station[StationOf[c]])

SweepInv(w0) ==
    \A s \in Stations : sweep[w0][s] # None =>
        /\ sweep[w0][s].online /\ sweep[w0][s].state # "offline"
        /\ station[s].online \/ station[s].state = "offline"
        /\ \A c \in Connections :
              StationOf[c] = s /\ copy[c] # None => Same(copy[c], station[s])

AuditInv(w0) ==
    /\ TypeInv
    /\ admin = None
    /\ ChangesRecorded
    /\ \A s \in Stations : Live(station[s])
    /\ CopyInv
    /\ SweepInv(w0)

Targets == {<<"online", TRUE>>, <<"faulted", TRUE>>, <<"offline", FALSE>>}

(* What a report makes of a row.                                             *)
LEMMA ReportedRow ==
    ASSUME NEW row \in StationRow, NEW held \in StationRow, Live(held), Live(row),
           Same(held, row) \/ Overtaken(held, row),
           NEW state, NEW online, <<state, online>> \in Targets
    PROVE  LET new == Saved(row, held, state, online, "recent")
           IN  /\ Live(new)
               /\ new.state = IF held.state = state THEN row.state ELSE state
               /\ Same(held, row) => new.online \/ new.state = "offline"
<1> DEFINE new == Saved(row, held, state, online, "recent")
<1>1. /\ new.state = IF held.state = state THEN row.state ELSE state
      /\ new.online = IF held.online = online THEN row.online ELSE online
    BY DEF Saved, NetChange
<1>2. CASE Same(held, row)
    <2>1. new.state = state /\ new.online = online
        BY <1>1, <1>2 DEF Same
    <2> QED
        BY <1>1, <2>1 DEF Live, Targets
<1>3. CASE Overtaken(held, row)
    <2>1. CASE online
        BY <1>1, <1>3, <2>1 DEF Live, Targets, Overtaken, StationRow, Same
    <2>2. CASE ~online
        BY <1>1, <1>3, <2>2 DEF Live, Targets, Overtaken, StationRow, Same
    <2> QED
        BY <2>1, <2>2 DEF Targets
<1> QED
    BY <1>2, <1>3

LEMMA WriteKeepsAudit ==
    ASSUME NEW w0, AuditInv(w0), NEW c \in Connections, Ready(c),
           \A b \in Connections : StationOf[b] = StationOf[c] => b = c,
           NEW state, NEW online, <<state, online>> \in Targets,
           WriteStation(c, state, online),
           copy' = [copy EXCEPT ![c] = None],
           UNCHANGED <<sweep, admin>>, TypeInv'
    PROVE  AuditInv(w0)'
<1> DEFINE s == StationOf[c]
           new == Saved(station[s], copy[c], state, online, "recent")
<1>1. /\ s \in Stations /\ copy[c] \in StationRow /\ copy[c] # None
      /\ station[s] \in StationRow
    BY ReadyHasCopy, IngestionAssumption, NoneAssumption
    DEF IngestionAssumption, NoneAssumption, AuditInv, TypeInv, TypeOK
<1>2. /\ station' = [station EXCEPT ![s] = new]
      /\ lastEvent' = IF copy[c].state = state THEN lastEvent
                  ELSE [lastEvent EXCEPT ![s] = state]
    BY DEF WriteStation, Audited
<1>3. /\ Live(new)
      /\ new.state = IF copy[c].state = state THEN station[s].state ELSE state
      /\ Same(copy[c], station[s]) => new.online \/ new.state = "offline"
    BY <1>1, ReportedRow DEF AuditInv, CopyInv
<1>4. /\ station'[s] = new
      /\ \A t \in Stations \ {s} : station'[t] = station[t]
    BY <1>1, <1>2 DEF AuditInv, TypeInv, TypeOK
<1>5. ChangesRecorded'
    BY <1>1, <1>2, <1>3, <1>4
    DEF ChangesRecorded, AuditInv, TypeInv, TypeOK
<1>6. /\ copy'[c] = None
      /\ \A b \in Connections \ {c} :
            copy'[b] = copy[b] /\ StationOf[b] \in Stations \ {s}
    BY IngestionAssumption DEF IngestionAssumption, AuditInv, TypeInv, TypeOK
<1>7. CopyInv'
    BY <1>4, <1>6 DEF AuditInv, CopyInv
<1>8. SweepInv(w0)'
    <2> SUFFICES ASSUME NEW t \in Stations, sweep[w0][t] # None
                 PROVE  /\ sweep[w0][t].online /\ sweep[w0][t].state # "offline"
                        /\ station'[t].online \/ station'[t].state = "offline"
                        /\ \A b \in Connections :
                              StationOf[b] = t /\ copy'[b] # None =>
                                  Same(copy'[b], station'[t])
        BY DEF SweepInv
    <2>1. CASE t = s
        BY <1>1, <1>3, <1>4, <1>6, <2>1 DEF AuditInv, SweepInv
    <2>2. CASE t # s
        BY <1>4, <1>6, <2>2 DEF AuditInv, SweepInv
    <2> QED
        BY <2>1, <2>2
<1>9. \A t \in Stations : Live(station'[t])
    BY <1>3, <1>4 DEF AuditInv
<1> QED
    BY <1>5, <1>7, <1>8, <1>9 DEF AuditInv

(* A step that writes no state or flag of a station, and at most loads or    *)
(* drops copies.                                                             *)
Reads ==
    /\ \A s \in Stations : Same(station'[s], station[s])
    /\ \A c \in Connections :
          copy'[c] \in {copy[c], None, station[StationOf[c]]}
    /\ UNCHANGED <<lastEvent, sweep>> /\ admin' = None

LEMMA ReadsKeepAudit ==
    ASSUME NEW w0, AuditInv(w0), Reads, TypeInv'
    PROVE  AuditInv(w0)'
<1>1. \A c \in Connections : StationOf[c] \in Stations
    BY IngestionAssumption DEF IngestionAssumption
<1>2. ChangesRecorded' /\ \A s \in Stations : Live(station'[s])
    BY DEF Reads, Same, Live, AuditInv, ChangesRecorded
<1>3. CopyInv'
    BY <1>1 DEF Reads, Same, Overtaken, Live, AuditInv, CopyInv
<1>4. SweepInv(w0)'
    BY DEF Reads, Same, AuditInv, SweepInv
<1> QED
    BY <1>2, <1>3, <1>4 DEF AuditInv, Reads

LEMMA AcceptsKeepsAudit ==
    ASSUME NEW w0, AuditInv(w0), NEW c \in Connections, NEW call \in Calls,
           \A b \in Connections : StationOf[b] = StationOf[c] => b = c,
           Accepts(c, call), TypeInv'
    PROVE  AuditInv(w0)'
<1> DEFINE s == StationOf[c]
<1>1. Ready(c) /\ Commit(c, call)
    BY DEF Accepts, HandleHeartbeat, HandleAuthorize, HandleStatus,
           HandleStart, HandleMeter, HandleStop, Handles
<1>2. /\ s \in Stations /\ copy[c] \in StationRow /\ copy[c] # None
      /\ station[s] \in StationRow
    BY <1>1, ReadyHasCopy, IngestionAssumption, NoneAssumption
    DEF IngestionAssumption, NoneAssumption, AuditInv, TypeInv, TypeOK
<1>3. copy' = [copy EXCEPT ![c] = None] /\ UNCHANGED <<sweep, admin>>
    BY <1>1 DEF Commit
<1>4. \A b \in Connections : copy'[b] \in {copy[b], None}
    BY <1>3 DEF AuditInv, TypeInv, TypeOK
<1>5. CASE HandleHeartbeat(c, call)
    <2>1. <<"online", TRUE>> \in Targets
        BY DEF Targets
    <2>2. WriteStation(c, "online", TRUE)
        BY <1>5 DEF HandleHeartbeat
    <2> QED
        BY <1>1, <1>3, <2>1, <2>2, WriteKeepsAudit
<1>6. CASE HandleStatus(c, call)
    <2>1. <<StationStateFor(call.status), call.status # "Unavailable">> \in Targets
        BY DEF Targets, StationStateFor
    <2>2. WriteStation(c, StationStateFor(call.status),
                          call.status # "Unavailable")
        BY <1>6 DEF HandleStatus
    <2> QED
        BY <1>1, <1>3, <2>1, <2>2, WriteKeepsAudit
<1>7. CASE HandleAuthorize(c, call)
    <2>1. /\ station' = [station EXCEPT ![s].seen = "recent"]
          /\ lastEvent' = lastEvent
        BY <1>7 DEF HandleAuthorize
    <2>2. \A t \in Stations : Same(station'[t], station[t])
        BY <1>2, <2>1 DEF Same, StationRow, AuditInv, TypeInv, TypeOK
    <2> QED
        BY <1>3, <1>4, <2>1, <2>2, ReadsKeepAudit DEF Reads, AuditInv
<1>8. CASE HandleStart(c, call)
    <2> DEFINE row == Saved(station[s], copy[c], "online", TRUE,
                            station[s].seen)
    <2>1. /\ station' = [station EXCEPT ![s] = row] /\ lastEvent' = lastEvent
          /\ copy[c].online /\ copy[c].state \notin {"offline", "faulted"}
        BY <1>8 DEF HandleStart, StartAcceptable
    <2>2. copy[c].state = "online" /\ copy[c].online = TRUE
        BY <1>2, <2>1 DEF AuditInv, CopyInv, Live, StationRow
    <2>3. Same(row, station[s])
        BY <2>2 DEF Same, Saved, NetChange
    <2>4. \A t \in Stations : Same(station'[t], station[t])
        BY <1>2, <2>1, <2>3 DEF Same, AuditInv, TypeInv, TypeOK
    <2> QED
        BY <1>3, <1>4, <2>1, <2>4, ReadsKeepAudit DEF Reads, AuditInv
<1>9. CASE HandleMeter(c, call) \/ HandleStop(c, call)
    BY <1>3, <1>4, <1>9, ReadsKeepAudit
    DEF HandleMeter, HandleStop, Reads, Same, AuditInv
<1> QED
    BY <1>5, <1>6, <1>7, <1>8, <1>9 DEF Accepts

LEMMA SweepKeepsAudit ==
    ASSUME NEW w0 \in Workers, AuditInv(w0), SweepStep(w0), TypeInv'
    PROVE  AuditInv(w0)'
<1>1. \A s \in Stations : /\ station[s] \in StationRow /\ station[s] # None
                          /\ Live(station[s])
    BY NoneAssumption DEF NoneAssumption, AuditInv, TypeInv, TypeOK
<1>2. CASE SweepSelect(w0)
    <2>1. /\ \A s \in Stations : sweep'[w0][s] = IF Silent(station[s])
                                               THEN station[s] ELSE None
          /\ UNCHANGED <<station, lastEvent, copy, admin>>
        BY <1>2 DEF SweepSelect, db, socket, AuditInv, TypeInv, TypeOK
    <2>2. ASSUME NEW s \in Stations, sweep'[w0][s] # None
          PROVE  /\ sweep'[w0][s] = station[s] /\ station[s].online
                 /\ station[s].state # "offline"
        BY <1>1, <2>1, <2>2 DEF Silent, Live
    <2>3. \A s \in Stations : \A c \in Connections :
             station[s].online /\ StationOf[c] = s /\ copy[c] # None
                => Same(copy[c], station[s])
        BY DEF AuditInv, CopyInv, Overtaken
    <2>4. SweepInv(w0)'
        BY <2>1, <2>2, <2>3 DEF SweepInv
    <2> QED
        BY <2>1, <2>4 DEF AuditInv, CopyInv, ChangesRecorded
<1>3. CASE SweepCommit(w0)
    <2>1. /\ sweep'[w0] = NoSweep /\ UNCHANGED <<copy, admin>>
          /\ \A s \in Stations : sweep[w0][s] = None =>
                station'[s] = station[s] /\ lastEvent'[s] = lastEvent[s]
        BY <1>3 DEF SweepCommit, socket, AuditInv, TypeInv, TypeOK
    <2>2. ASSUME NEW s \in Stations, sweep[w0][s] # None
          PROVE  /\ station'[s].state = "offline" /\ ~station'[s].online
                 /\ lastEvent'[s] = "offline"
        <3>1. /\ station'[s] = Saved(station[s], sweep[w0][s], "offline", FALSE,
                                     station[s].seen)
              /\ lastEvent'[s] = "offline"
            BY <1>3, <2>2 DEF SweepCommit
        <3>2. sweep[w0][s].online /\ sweep[w0][s].state # "offline"
            BY <2>2 DEF AuditInv, SweepInv
        <3> QED
            BY <3>1, <3>2 DEF Saved, NetChange
    <2>3. ChangesRecorded' /\ \A s \in Stations : Live(station'[s])
        BY <1>1, <2>1, <2>2 DEF AuditInv, ChangesRecorded, Live
    <2>4. ASSUME NEW c \in Connections, copy[c] # None
          PROVE  /\ Live(copy[c])
                 /\ \/ Same(copy[c], station'[StationOf[c]])
                    \/ Overtaken(copy[c], station'[StationOf[c]])
        <3> DEFINE s == StationOf[c]
        <3>1. s \in Stations
            BY IngestionAssumption DEF IngestionAssumption
        <3>2. CASE sweep[w0][s] = None
            BY <2>1, <2>4, <3>1, <3>2 DEF AuditInv, CopyInv
        <3>3. CASE sweep[w0][s] # None
            <4>1. /\ Live(copy[c]) /\ Same(copy[c], station[s])
                  /\ station[s].online \/ station[s].state = "offline"
                BY <2>4, <3>1, <3>3 DEF AuditInv, CopyInv, SweepInv
            <4>2. copy[c].online \/ copy[c].state = "offline"
                BY <4>1 DEF Same
            <4> QED
                BY <2>2, <3>1, <3>3, <4>1, <4>2 DEF Overtaken
        <3> QED
            BY <3>2, <3>3
    <2>5. CopyInv' /\ SweepInv(w0)'
        BY <2>1, <2>4 DEF CopyInv, SweepInv, NoSweep
    <2> QED
        BY <2>1, <2>3, <2>5 DEF AuditInv
<1>4. CASE WorkerCrash(w0)
    <2>1. sweep'[w0] = NoSweep /\ UNCHANGED <<station, lastEvent, copy, admin>>
        BY <1>4 DEF WorkerCrash, db, socket, AuditInv, TypeInv, TypeOK
    <2>2. SweepInv(w0)'
        BY <2>1 DEF SweepInv, NoSweep
    <2> QED
        BY <2>1, <2>2 DEF AuditInv, CopyInv, ChangesRecorded
<1> QED
    BY <1>2, <1>3, <1>4 DEF SweepStep

(* With one worker, one connection for a station and no admin, a station     *)
(* changes its state only with an audit event: the event committed last ends *)
(* in the state the row holds, although both the connection and the sweep    *)
(* write from copies (ingestion.py:207-233, 296-328, stations.py:22-38).     *)
THEOREM ChangesAlwaysRecorded ==
    ASSUME NEW w0, Workers = {w0},
           AdminStations = {},
           \A b, c \in Connections : StationOf[b] = StationOf[c] => b = c,
           \A s \in Stations : Live(InitStation[s])
    PROVE  Spec => []ChangesRecorded
<1>1. Init => AuditInv(w0)
    <2> SUFFICES ASSUME Init
                 PROVE  AuditInv(w0)
        OBVIOUS
    <2>1. TypeInv
        BY TypeInit
    <2> QED
        BY <2>1 DEF Init, AuditInv, ChangesRecorded, CopyInv, SweepInv, NoSweep
<1>2. AuditInv(w0) /\ [Next]_vars => AuditInv(w0)'
    <2> SUFFICES ASSUME AuditInv(w0), [Next]_vars
                 PROVE  AuditInv(w0)'
        OBVIOUS
    <2>1. TypeInv'
        BY TypeStep DEF AuditInv
    <2>2. ASSUME NEW c \in Connections, NEW call \in Calls, Accepts(c, call)
          PROVE  AuditInv(w0)'
        BY <2>1, <2>2, AcceptsKeepsAudit
    <2>3. ASSUME NEW c \in Connections, SocketStep(c)
          PROVE  AuditInv(w0)'
        <3>1. Reads
            BY <2>3 DEF SocketStep, Connect, Disconnect, Close, Reload, Reply,
               LoseReply, Duplicate, Reject, db, Reads, Same, AuditInv, TypeInv,
               TypeOK
        <3> QED
            BY <2>1, <3>1, ReadsKeepAudit
    <2>4. ASSUME NEW w \in Workers, SweepStep(w)
          PROVE  AuditInv(w0)'
        BY <2>1, <2>4, SweepKeepsAudit
    <2>5. CASE OtherStep
        <3>1. ASSUME NEW s \in Stations, Silence(s)
              PROVE  Reads
            <4>1. station' = [station EXCEPT ![s].seen = "old"]
                BY <3>1 DEF Silence
            <4>2. \A t \in Stations : Same(station'[t], station[t])
                BY <4>1 DEF Same, StationRow, AuditInv, TypeInv, TypeOK
            <4> QED
                BY <3>1, <4>2 DEF Silence, socket, Reads, AuditInv
        <3>2. ASSUME NEW s \in Stations, NEW online \in BOOLEAN,
                     StationLoad(s, online)
              PROVE  FALSE
            BY <3>2 DEF StationLoad
        <3>3. ASSUME StationCommit
              PROVE  FALSE
            BY <3>3 DEF StationCommit, AuditInv
        <3>4. ASSUME BackendRestart \/ UNCHANGED vars
              PROVE  Reads
            BY <3>4 DEF BackendRestart, db, socket, vars, Reads, Same, AuditInv
        <3>5. ASSUME NEW s \in Stations, NEW n \in Numbers,
                     NEW state \in {"available", "unavailable"},
                     ConnectorSet(s, n, state)
              PROVE  Reads
            BY <3>5 DEF ConnectorSet, socket, Reads, Same, AuditInv
        <3>6. Reads
            BY <2>5, <3>1, <3>2, <3>3, <3>4, <3>5 DEF OtherStep
        <3> QED
            BY <2>1, <3>6, ReadsKeepAudit
    <2> QED
        BY <2>2, <2>3, <2>4, <2>5, Steps
<1>3. AuditInv(w0) => ChangesRecorded
    BY DEF AuditInv
<1> QED
    BY <1>1, <1>2, <1>3, PTL DEF Spec

-----------------------------------------------------------------------------
(* Audit events with any connections, workers and an admin, where sweeps     *)
(* and admin requests commit on a row in the state they loaded. Connections  *)
(* may write from copies of any age.                                         *)

PromptWrite ==
    /\ \A w \in Workers, s \in Stations :
          SweepCommit(w) /\ sweep[w][s] # None
              => sweep[w][s].state = station[s].state
    /\ StationCommit => admin.copy.state = station[admin.station].state

PromptWrites == [][PromptWrite]_vars

(* A station nobody has reported about yet. No write returns to this state,  *)
(* so a copy in it is older than any other, and whoever writes from one      *)
(* changes the state, with an audit event.                                   *)
Blank(row) == row.state = "unknown"

BlankInv ==
    /\ \A s \in Stations : Blank(station[s]) => ~station[s].online
    /\ \A c \in Connections : copy[c] # None =>
          /\ Blank(copy[c]) => ~copy[c].online
          /\ Blank(station[StationOf[c]]) => Blank(copy[c])
    /\ \A w \in Workers, s \in Stations :
          sweep[w][s] # None => ~Blank(station[s])
    /\ admin # None => (Blank(station[admin.station]) => Blank(admin.copy))

PromptInv == TypeInv /\ ChangesRecorded /\ BlankInv

(* What a write from a copy makes of a row.                                  *)
LEMMA WrittenRow ==
    ASSUME NEW row, NEW held, Blank(row) => Blank(held),
           NEW state, state # "unknown", NEW online, NEW seen
    PROVE  LET new == Saved(row, held, state, online, seen)
           IN  /\ new.state = IF held.state = state THEN row.state ELSE state
               /\ ~Blank(new)
BY DEF Saved, NetChange, Blank

(* Rows are written or keep state and flag; copies are kept, dropped or      *)
(* loaded.                                                                   *)
LEMMA BlankFrame ==
    ASSUME TypeInv, BlankInv, TypeInv',
           \A s \in Stations :
              Same(station'[s], station[s]) \/ ~Blank(station'[s]),
           \A c \in Connections :
              copy'[c] \in {None, copy[c], station[StationOf[c]]},
           \A w \in Workers, s \in Stations :
              sweep'[w][s] \in {None, sweep[w][s]} \/ Silent(station[s]),
           \/ admin' \in {None, admin}
           \/ admin'.copy = station[admin'.station]
    PROVE  BlankInv'
<1>1. \A s \in Stations : Blank(station'[s]) =>
         Blank(station[s]) /\ ~station[s].online /\ ~station'[s].online
    BY DEF Same, Blank, BlankInv
<1>2. ASSUME NEW c \in Connections, copy'[c] # None
      PROVE  /\ Blank(copy'[c]) => ~copy'[c].online
             /\ Blank(station'[StationOf[c]]) => Blank(copy'[c])
    <2>1. StationOf[c] \in Stations
        BY IngestionAssumption DEF IngestionAssumption
    <2>2. CASE copy'[c] = copy[c]
        BY <1>1, <1>2, <2>1, <2>2 DEF BlankInv
    <2>3. CASE copy'[c] = station[StationOf[c]]
        BY <1>1, <1>2, <2>1, <2>3 DEF BlankInv
    <2> QED
        BY <1>2, <2>2, <2>3
<1>3. ASSUME NEW w \in Workers, NEW s \in Stations, sweep'[w][s] # None
      PROVE  ~Blank(station'[s])
    <2>1. CASE sweep'[w][s] = sweep[w][s]
        BY <1>1, <1>3, <2>1 DEF BlankInv
    <2>2. CASE Silent(station[s])
        BY <1>1, <2>2 DEF Silent
    <2> QED
        BY <1>3, <2>1, <2>2
<1>4. ASSUME admin' # None, Blank(station'[admin'.station])
      PROVE  Blank(admin'.copy)
    <2>1. admin'.station \in Stations
        BY <1>4 DEF TypeInv, TypeOK, AdminRequest
    <2>2. Blank(station[admin'.station])
        BY <1>1, <1>4, <2>1
    <2> QED
        BY <1>4, <2>2 DEF BlankInv
<1> QED
    BY <1>1, <1>2, <1>3, <1>4 DEF BlankInv

(* Steps that write no state, and audit nothing.                             *)
LEMMA BlankReads ==
    ASSUME PromptInv, TypeInv', UNCHANGED lastEvent,
           \A s \in Stations : Same(station'[s], station[s]),
           \A c \in Connections :
              copy'[c] \in {None, copy[c], station[StationOf[c]]},
           \A w \in Workers, s \in Stations :
              sweep'[w][s] \in {None, sweep[w][s]} \/ Silent(station[s]),
           \/ admin' \in {None, admin}
           \/ admin'.copy = station[admin'.station]
    PROVE  PromptInv'
<1>1. BlankInv'
    BY BlankFrame DEF PromptInv
<1>2. ChangesRecorded'
    BY DEF PromptInv, ChangesRecorded, Same
<1> QED
    BY <1>1, <1>2 DEF PromptInv

(* A handler's report: state and audit event go together, however old the    *)
(* copy.                                                                     *)
LEMMA ReportKeepsPrompt ==
    ASSUME PromptInv, TypeInv', NEW c \in Connections, NEW call, Ready(c),
           Commit(c, call), NEW state, state # "unknown", NEW online,
           WriteStation(c, state, online)
    PROVE  PromptInv'
<1> DEFINE s == StationOf[c]
           new == Saved(station[s], copy[c], state, online, "recent")
<1>1. s \in Stations /\ copy[c] # None
    BY ReadyHasCopy, IngestionAssumption, NoneAssumption
    DEF PromptInv, IngestionAssumption, NoneAssumption
<1>2. Blank(station[s]) => Blank(copy[c])
    BY <1>1 DEF PromptInv, BlankInv
<1>3. /\ new.state = IF copy[c].state = state THEN station[s].state ELSE state
      /\ ~Blank(new)
    BY <1>2, WrittenRow
<1>4. /\ station' = [station EXCEPT ![s] = new]
      /\ lastEvent' = Audited(s, copy[c], state)
    BY DEF WriteStation
<1>5. /\ station'[s] = new
      /\ \A t \in Stations \ {s} : station'[t] = station[t]
    BY <1>1, <1>4 DEF PromptInv, TypeInv, TypeOK
<1>6. BlankInv'
    <2>1. \A t \in Stations : Same(station'[t], station[t]) \/ ~Blank(station'[t])
        BY <1>3, <1>5 DEF Same
    <2>2. \A d \in Connections : copy'[d] \in {None, copy[d]}
        BY DEF Commit, PromptInv, TypeInv, TypeOK
    <2>3. sweep' = sweep /\ admin' = admin
        BY DEF Commit
    <2> QED
        BY <2>1, <2>2, <2>3, BlankFrame DEF PromptInv
<1>7. ChangesRecorded'
    <2>1. lastEvent'[s] = new.state
        BY <1>1, <1>3, <1>4
        DEF Audited, PromptInv, ChangesRecorded, TypeInv, TypeOK
    <2>2. \A t \in Stations \ {s} : lastEvent'[t] = lastEvent[t]
        BY <1>4 DEF Audited, PromptInv, TypeInv, TypeOK
    <2> QED
        BY <1>5, <2>1, <2>2 DEF PromptInv, ChangesRecorded
<1> QED
    BY <1>6, <1>7 DEF PromptInv

LEMMA AcceptsKeepsPrompt ==
    ASSUME PromptInv, TypeInv', NEW c \in Connections, NEW call \in Calls,
           Accepts(c, call)
    PROVE  PromptInv'
<1> DEFINE s == StationOf[c]
<1>1. Ready(c) /\ Commit(c, call)
    BY DEF Accepts, HandleHeartbeat, HandleAuthorize, HandleStatus,
           HandleStart, HandleMeter, HandleStop, Handles
<1>2. /\ s \in Stations /\ copy[c] \in StationRow /\ copy[c] # None
      /\ station[s] \in StationRow
    BY <1>1, ReadyHasCopy, IngestionAssumption, NoneAssumption
    DEF IngestionAssumption, NoneAssumption, PromptInv, TypeInv, TypeOK
<1>3. /\ \A d \in Connections : copy'[d] \in {None, copy[d]}
      /\ sweep' = sweep /\ admin' = admin
    BY <1>1 DEF Commit, PromptInv, TypeInv, TypeOK
<1>4. CASE HandleHeartbeat(c, call)
    BY <1>1, <1>4, ReportKeepsPrompt DEF HandleHeartbeat
<1>5. CASE HandleStatus(c, call)
    <2>1. StationStateFor(call.status) # "unknown"
        BY StationStateForType
    <2> QED
        BY <1>1, <1>5, <2>1, ReportKeepsPrompt DEF HandleStatus
<1>6. ASSUME UNCHANGED lastEvent,
             \A t \in Stations : Same(station'[t], station[t])
      PROVE  PromptInv'
    BY <1>3, <1>6, BlankReads
<1>7. CASE HandleAuthorize(c, call)
    <2>1. \A t \in Stations : Same(station'[t], station[t])
        <3>1. station' = [station EXCEPT ![s].seen = "recent"]
            BY <1>7 DEF HandleAuthorize
        <3> QED
            BY <1>2, <3>1 DEF Same, StationRow, PromptInv, TypeInv, TypeOK
    <2>2. UNCHANGED lastEvent
        BY <1>7 DEF HandleAuthorize
    <2> QED
        BY <1>6, <2>1, <2>2
<1>8. CASE HandleStart(c, call)
    <2> DEFINE new == Saved(station[s], copy[c], "online", TRUE, station[s].seen)
    <2>1. /\ copy[c].online /\ copy[c].state \notin {"offline", "faulted"}
          /\ station' = [station EXCEPT ![s] = new]
          /\ UNCHANGED lastEvent
        BY <1>8 DEF HandleStart, StartAcceptable
    <2>2. copy[c].state = "online"
        <3>1. ~Blank(copy[c])
            BY <1>2, <2>1 DEF PromptInv, BlankInv
        <3> QED
            BY <1>2, <2>1, <3>1 DEF Blank, StationRow, StationStates
    <2>3. new.state = station[s].state /\ new.online = station[s].online
        BY <1>2, <2>1, <2>2 DEF Saved, NetChange, StationRow
    <2>4. \A t \in Stations : Same(station'[t], station[t])
        BY <1>2, <2>1, <2>3 DEF Same, PromptInv, TypeInv, TypeOK
    <2> QED
        BY <1>6, <2>1, <2>4
<1>9. CASE HandleMeter(c, call) \/ HandleStop(c, call)
    <2>1. UNCHANGED <<station, lastEvent>>
        BY <1>9 DEF HandleMeter, HandleStop
    <2> QED
        BY <1>6, <2>1 DEF Same
<1> QED
    BY <1>4, <1>5, <1>7, <1>8, <1>9 DEF Accepts

LEMMA SweepKeepsPrompt ==
    ASSUME PromptInv, TypeInv', PromptWrite, NEW w \in Workers, SweepStep(w)
    PROVE  PromptInv'
<1>1. \A v \in Workers, s \in Stations :
         \/ sweep'[v][s] \in {None, sweep[v][s]}
         \/ Silent(station[s])
    <2>1. CASE SweepSelect(w)
        BY <2>1 DEF SweepSelect, PromptInv, TypeInv, TypeOK
    <2>2. CASE SweepCommit(w) \/ WorkerCrash(w)
        <3>1. sweep' = [sweep EXCEPT ![w] = NoSweep]
            BY <2>2 DEF SweepCommit, WorkerCrash
        <3> QED
            BY <3>1 DEF NoSweep, PromptInv, TypeInv, TypeOK
    <2> QED
        BY <2>1, <2>2 DEF SweepStep
<1>2. UNCHANGED <<copy, admin>>
    BY DEF SweepStep, SweepSelect, SweepCommit, WorkerCrash, socket
<1>3. CASE SweepSelect(w) \/ WorkerCrash(w)
    <2>1. UNCHANGED <<station, lastEvent>>
        BY <1>3 DEF SweepSelect, WorkerCrash, db
    <2> QED
        BY <1>1, <1>2, <2>1, BlankReads DEF Same
<1>4. CASE SweepCommit(w)
    <2> DEFINE new(s) == Saved(station[s], sweep[w][s], "offline", FALSE,
                               station[s].seen)
    <2>1. \A s \in Stations :
             /\ station'[s] = IF sweep[w][s] # None THEN new(s) ELSE station[s]
             /\ lastEvent'[s] = IF sweep[w][s] # None THEN "offline"
                                ELSE lastEvent[s]
        BY <1>4 DEF SweepCommit
    <2>2. ASSUME NEW s \in Stations, sweep[w][s] # None
          PROVE  new(s).state = "offline"
        <3>1. sweep[w][s].state = station[s].state
            BY <1>4, <2>2 DEF PromptWrite
        <3> QED
            BY <3>1 DEF Saved, NetChange
    <2>3. BlankInv'
        <3>1. \A s \in Stations :
                 Same(station'[s], station[s]) \/ ~Blank(station'[s])
            BY <2>1, <2>2 DEF Same, Blank
        <3> QED
            BY <1>1, <1>2, <3>1, BlankFrame DEF PromptInv
    <2>4. ChangesRecorded'
        BY <2>1, <2>2 DEF PromptInv, ChangesRecorded
    <2> QED
        BY <2>3, <2>4 DEF PromptInv
<1> QED
    BY <1>3, <1>4 DEF SweepStep

LEMMA OtherKeepsPrompt ==
    ASSUME PromptInv, TypeInv', PromptWrite, OtherStep
    PROVE  PromptInv'
<1>1. CASE StationCommit
    <2> DEFINE s     == admin.station
               state == IF admin.online THEN "online" ELSE "offline"
               seen  == IF admin.online THEN "recent"
                        ELSE NetChange(station[s].seen, admin.copy.seen, None)
               new   == Saved(station[s], admin.copy, state, admin.online, seen)
    <2>1. /\ station' = [station EXCEPT ![s] = new]
          /\ lastEvent' = [lastEvent EXCEPT ![s] = state]
          /\ admin' = None
          /\ UNCHANGED <<copy, sweep>>
        BY <1>1 DEF StationCommit, socket
    <2>2. s \in Stations
        BY <1>1 DEF StationCommit, AdminRequest, PromptInv, TypeInv, TypeOK
    <2>3. new.state = state
        <3>1. admin.copy.state = station[s].state
            BY <1>1 DEF PromptWrite
        <3> QED
            BY <3>1 DEF Saved, NetChange
    <2>4. /\ station'[s] = new /\ lastEvent'[s] = state
          /\ \A t \in Stations \ {s} :
                station'[t] = station[t] /\ lastEvent'[t] = lastEvent[t]
        BY <2>1, <2>2 DEF PromptInv, TypeInv, TypeOK
    <2>5. BlankInv'
        <3>1. \A t \in Stations :
                 Same(station'[t], station[t]) \/ ~Blank(station'[t])
            BY <2>3, <2>4 DEF Same, Blank
        <3> QED
            BY <2>1, <3>1, BlankFrame DEF PromptInv
    <2>6. ChangesRecorded'
        BY <2>3, <2>4 DEF PromptInv, ChangesRecorded
    <2> QED
        BY <2>5, <2>6 DEF PromptInv
<1>2. ASSUME NEW s \in Stations, NEW online \in BOOLEAN, StationLoad(s, online)
      PROVE  PromptInv'
    <2>1. /\ admin'.copy = station[admin'.station]
          /\ UNCHANGED <<station, lastEvent, copy, sweep>>
        BY <1>2 DEF StationLoad, db, socket
    <2> QED
        BY <2>1, BlankReads DEF Same
<1>3. ASSUME NEW s \in Stations, Silence(s)
      PROVE  PromptInv'
    <2>1. /\ station' = [station EXCEPT ![s].seen = "old"]
          /\ UNCHANGED <<lastEvent, copy, sweep, admin>>
        BY <1>3 DEF Silence, socket
    <2>2. \A t \in Stations : Same(station'[t], station[t])
        BY <2>1 DEF Same, StationRow, PromptInv, TypeInv, TypeOK
    <2> QED
        BY <2>1, <2>2, BlankReads
<1>4. CASE BackendRestart
    <2>1. /\ UNCHANGED <<station, lastEvent, sweep>> /\ admin' = None
          /\ \A c \in Connections : copy'[c] = None
        BY <1>4 DEF BackendRestart, db
    <2> QED
        BY <2>1, BlankReads DEF Same
<1>5. CASE \/ UNCHANGED vars
           \/ \E s \in Stations, n \in Numbers,
                 state \in {"available", "unavailable"} : ConnectorSet(s, n, state)
    <2>1. UNCHANGED <<station, lastEvent, copy, sweep, admin>>
        BY <1>5 DEF ConnectorSet, vars, db, socket
    <2> QED
        BY <2>1, BlankReads DEF Same
<1> QED
    BY <1>1, <1>2, <1>3, <1>4, <1>5 DEF OtherStep

LEMMA PromptStep == PromptInv /\ [PromptWrite]_vars /\ [Next]_vars => PromptInv'
<1> SUFFICES ASSUME PromptInv, [PromptWrite]_vars, [Next]_vars
             PROVE  PromptInv'
    OBVIOUS
<1>1. TypeInv'
    BY TypeStep DEF PromptInv
<1>2. CASE UNCHANGED vars
    BY <1>1, <1>2, BlankReads DEF vars, db, socket, Same
<1>3. SUFFICES ASSUME PromptWrite
               PROVE  PromptInv'
    BY <1>2
<1>4. ASSUME NEW c \in Connections, NEW call \in Calls, Accepts(c, call)
      PROVE  PromptInv'
    BY <1>1, <1>4, AcceptsKeepsPrompt
<1>5. ASSUME NEW c \in Connections, SocketStep(c)
      PROVE  PromptInv'
    <2>1. UNCHANGED <<station, lastEvent, sweep, admin>>
        BY <1>5 DEF SocketStep, Connect, Disconnect, Reload, Reply, LoseReply,
                    Close, Duplicate, Reject, db
    <2>2. \A d \in Connections : copy'[d] \in {None, copy[d], station[StationOf[d]]}
        BY <1>5 DEF SocketStep, Connect, Disconnect, Reload, Reply, LoseReply,
                    Close, Duplicate, Reject, PromptInv, TypeInv, TypeOK
    <2> QED
        BY <1>1, <2>1, <2>2, BlankReads DEF Same
<1>6. ASSUME NEW w \in Workers, SweepStep(w)
      PROVE  PromptInv'
    BY <1>1, <1>3, <1>6, SweepKeepsPrompt
<1>7. CASE OtherStep
    BY <1>1, <1>3, <1>7, OtherKeepsPrompt
<1> QED
    BY <1>4, <1>5, <1>6, <1>7, Steps

(* With any number of connections for a station, any workers and an admin,   *)
(* the event committed last ends in the state of the row, provided a sweep   *)
(* and an admin's request commit on a row in the state they loaded: the      *)
(* copies that connections keep, however old, lose no event and add none     *)
(* (ingestion.py:207-233, 296-382, stations.py:22-38, admin.py:327-365).     *)
THEOREM PromptChangesRecorded ==
    ASSUME \A s \in Stations : InitStation[s].online => ~Blank(InitStation[s])
    PROVE  Spec /\ PromptWrites => []ChangesRecorded
<1>1. Init => PromptInv
    <2> SUFFICES ASSUME Init
                 PROVE  PromptInv
        OBVIOUS
    <2>1. TypeInv
        BY TypeInit
    <2> QED
        BY <2>1 DEF Init, PromptInv, ChangesRecorded, BlankInv, NoSweep
<1>2. PromptInv => ChangesRecorded
    BY DEF PromptInv
<1> QED
    BY <1>1, <1>2, PromptStep, PTL DEF Spec, PromptWrites

-----------------------------------------------------------------------------
(* Connectors. A stop, a status report and an admin's control make a         *)
(* connector available without a look at the sessions on it. Where none of   *)
(* them frees a connector another session is charging, each has one session  *)
(* at a time.                                                                *)

OrderlyStep ==
    /\ \A c \in Connections, call \in Calls :
          /\ HandleStop(c, call) =>
                \A k \in Named(call) :
                    ActiveOn(k[1], session[k].connector) \subseteq {k}
          /\ HandleStatus(c, call) /\ call.status = "Available" =>
                ActiveOn(StationOf[c], call.connector) = {}
    /\ \A s \in Stations, n \in Numbers :
          ConnectorSet(s, n, "available") => ActiveOn(s, n) = {}

Orderly == [][OrderlyStep]_vars

Charging(k) == session[k] # None /\ session[k].state = "active"

Place(k) == <<k[1], session[k].connector>>

OneChargeEach ==
    \A s \in Stations, n \in Numbers : \A j, k \in ActiveOn(s, n) : j = k

(* The check a start makes finds every session there is.                     *)
TakenInv ==
    /\ ChargeInv
    /\ \A k \in Keys : Charging(k) => connector[Place(k)] # "available"
    /\ \A j, k \in Keys :
          Charging(j) /\ Charging(k) /\ Place(j) = Place(k) => j = k

LEMMA ActiveOnPlace ==
    ASSUME ChargeInv, NEW s, NEW n
    PROVE  ActiveOn(s, n) = {k \in Keys : Charging(k) /\ Place(k) = <<s, n>>}
<1>1. \A k \in Keys : session[k] # None => session[k].state # "starting"
    BY DEF ChargeInv, Phases
<1> QED
    BY <1>1 DEF ActiveOn, Charging, Place

LEMMA PlaceType ==
    ASSUME TypeInv, NEW k \in Keys, session[k] # None
    PROVE  Place(k) \in Stations \X Numbers
BY DEF TypeInv, TypeOK, Place, Keys, Session

(* Steps that begin no session.                                              *)
LEMMA TakenFrame ==
    ASSUME TakenInv, ChargeInv',
           \A k \in Keys : Charging(k)' => Charging(k) /\ Place(k)' = Place(k),
           \A k \in Keys : Charging(k)' => connector'[Place(k)] # "available"
    PROVE  TakenInv'
BY DEF TakenInv

LEMMA AcceptsTaken ==
    ASSUME TakenInv, ChargeInv', OrderlyStep, NEW c \in Connections,
           NEW call \in Calls, Accepts(c, call)
    PROVE  TakenInv'
<1> DEFINE s == StationOf[c]
           n == call.connector
<1>1. s \in Stations /\ TypeInv /\ ChargeInv
    BY IngestionAssumption DEF IngestionAssumption, TakenInv, ChargeInv
<1>2. CASE UNCHANGED <<session, connector>>
    BY <1>2, TakenFrame DEF TakenInv, Charging, Place
<1>3. CASE HandleStatus(c, call)
    <2> DEFINE next == ReportedState(call.status, ConnectorState(s, n))
    <2>1. n \in Numbers /\ connector' = [connector EXCEPT ![<<s, n>>] = next]
        BY <1>3, IngestionAssumption
        DEF IngestionAssumption, HandleStatus, Handles
    <2>2. InterruptOne(s, n) \/ UNCHANGED session
        BY <1>3 DEF HandleStatus
    <2>3. \A k \in Keys : Charging(k)' => Charging(k) /\ Place(k)' = Place(k)
        <3>1. CASE UNCHANGED session
            BY <3>1 DEF Charging, Place
        <3>2. CASE ~UNCHANGED session
            <4>1. PICK j \in ActiveOn(s, n) :
                     session' = [session EXCEPT ![j].state = "interrupted"]
                BY <2>2, <3>2 DEF InterruptOne
            <4>2. j \in Keys /\ session[j] \in Session
                BY <1>1 DEF ActiveOn, TypeInv, TypeOK
            <4>3. session'[j] = [session[j] EXCEPT !.state = "interrupted"]
                BY <1>1, <4>1, <4>2 DEF TypeInv, TypeOK
            <4>4. \A k \in Keys \ {j} : session'[k] = session[k]
                BY <1>1, <4>1 DEF TypeInv, TypeOK
            <4>5. session'[j].state = "interrupted"
                BY <4>2, <4>3 DEF Session
            <4> QED
                BY <4>4, <4>5 DEF Charging, Place
        <3> QED
            BY <3>1, <3>2
    <2>4. ASSUME NEW k \in Keys, Charging(k)
          PROVE  connector'[Place(k)] # "available"
        <3>1. Place(k) \in Stations \X Numbers /\ connector[Place(k)] # "available"
            BY <1>1, <2>4, PlaceType DEF TakenInv, Charging
        <3>2. CASE Place(k) # <<s, n>>
            BY <1>1, <2>1, <3>1, <3>2 DEF TypeInv, TypeOK
        <3>3. CASE Place(k) = <<s, n>>
            <4>1. call.status # "Available"
                BY <1>1, <1>3, <2>4, <3>3, ActiveOnPlace DEF OrderlyStep
            <4>2. ConnectorState(s, n) # "available"
                <5>1. connector[<<s, n>>] # None
                    BY <1>1, <2>4, <3>3 DEF ChargeInv, Phases, Charging, Place
                <5> QED
                    BY <3>1, <3>3, <5>1 DEF ConnectorState
            <4>3. next # "available"
                BY <4>1, <4>2 DEF ReportedState, status_map
            <4>4. connector'[<<s, n>>] = next
                BY <1>1, <2>1 DEF TypeInv, TypeOK
            <4> QED
                BY <3>3, <4>3, <4>4
        <3> QED
            BY <3>2, <3>3
    <2> QED
        BY <2>3, <2>4, TakenFrame
<1>4. CASE HandleStop(c, call)
    <2>1. /\ session' = [k \in Keys |-> IF k \in Named(call)
                                        THEN Completed(session[k])
                                        ELSE session[k]]
          /\ connector' = [p \in Stations \X Numbers |->
                              IF \E k \in Named(call) : p = Place(k)
                              THEN "available" ELSE connector[p]]
        BY <1>4 DEF HandleStop, Place
    <2>2. ASSUME NEW k \in Named(call)
          PROVE  ~Charging(k)'
        <3>1. k \in Keys /\ session[k] \in Session
            BY <1>1 DEF Named, TypeInv, TypeOK
        <3>2. session'[k].state = "completed"
            BY <2>1, <3>1 DEF Completed, Session
        <3> QED
            BY <3>2 DEF Charging
    <2>3. \A k \in Keys : Charging(k)' =>
             k \notin Named(call) /\ Charging(k) /\ Place(k)' = Place(k)
        BY <2>1, <2>2 DEF Charging, Place
    <2>4. ASSUME NEW k \in Keys, Charging(k)'
          PROVE  connector'[Place(k)] # "available"
        <3>1. k \notin Named(call) /\ Charging(k)
            BY <2>3, <2>4
        <3>2. Place(k) \in Stations \X Numbers /\ connector[Place(k)] # "available"
            BY <1>1, <3>1, PlaceType DEF TakenInv, Charging
        <3>3. ASSUME NEW j \in Named(call), Place(k) = Place(j)
              PROVE  FALSE
            <4>1. k \in ActiveOn(j[1], session[j].connector)
                BY <1>1, <3>1, <3>3, ActiveOnPlace DEF Place
            <4>2. k = j
                BY <1>4, <4>1 DEF OrderlyStep
            <4> QED
                BY <3>1, <4>2
        <3> QED
            BY <2>1, <3>2, <3>3
    <2> QED
        BY <2>3, <2>4, TakenFrame
<1>5. CASE HandleStart(c, call)
    <2> DEFINE key == <<s, call.id>>
    <2>1. /\ n \in Numbers /\ call.id \in Starts
          /\ ConnectorState(s, n) = "available"
          /\ session' = [session EXCEPT ![key] = NewSession(n)]
          /\ connector' = [connector EXCEPT ![<<s, n>>] = "charging"]
        BY <1>5, IngestionAssumption
        DEF IngestionAssumption, HandleStart, Handles, StartAcceptable
    <2>2. /\ key \in Keys /\ Place(key)' = <<s, n>>
          /\ \A k \in Keys \ {key} : session'[k] = session[k]
        BY <1>1, <2>1 DEF Keys, Place, NewSession, TypeInv, TypeOK
    <2>3. \A k \in Keys \ {key} : Charging(k)' => Charging(k) /\ Place(k)' = Place(k)
        BY <2>2 DEF Charging, Place
    <2>4. ASSUME NEW k \in Keys, Charging(k)
          PROVE  Place(k) # <<s, n>>
        <3>1. connector[Place(k)] # "available" /\ connector[Place(k)] # None
            BY <1>1, <2>4 DEF TakenInv, ChargeInv, Phases, Charging, Place
        <3> QED
            BY <2>1, <3>1 DEF ConnectorState
    <2>5. \A k \in Keys : Charging(k)' => connector'[Place(k)'] # "available"
        <3>1. connector'[<<s, n>>] = "charging"
            BY <1>1, <2>1 DEF TypeInv, TypeOK
        <3>2. ASSUME NEW k \in Keys \ {key}, Charging(k)'
              PROVE  connector'[Place(k)'] = connector[Place(k)]
            <4>1. Charging(k) /\ Place(k)' = Place(k)
                BY <2>3, <3>2
            <4>2. Place(k) \in Stations \X Numbers /\ Place(k) # <<s, n>>
                BY <1>1, <2>4, <4>1, PlaceType DEF Charging
            <4> QED
                BY <1>1, <2>1, <4>1, <4>2 DEF TypeInv, TypeOK
        <3> QED
            BY <2>2, <2>3, <3>1, <3>2 DEF TakenInv
    <2>6. \A j, k \in Keys :
             Charging(j)' /\ Charging(k)' /\ Place(j)' = Place(k)' => j = k
        BY <2>2, <2>3, <2>4 DEF TakenInv
    <2> QED
        BY <2>5, <2>6 DEF TakenInv
<1>6. HandleHeartbeat(c, call) \/ HandleAuthorize(c, call) \/ HandleMeter(c, call)
          => UNCHANGED <<session, connector>>
    BY DEF HandleHeartbeat, HandleAuthorize, HandleMeter
<1> QED
    BY <1>2, <1>3, <1>4, <1>5, <1>6 DEF Accepts

LEMMA TakenStep == TakenInv /\ [OrderlyStep]_vars /\ [Next]_vars => TakenInv'
<1> SUFFICES ASSUME TakenInv, [OrderlyStep]_vars, [Next]_vars
             PROVE  TakenInv'
    OBVIOUS
<1>1. ChargeInv /\ ChargeInv' /\ TypeInv
    BY ChargeStep DEF TakenInv, ChargeInv
<1>2. CASE UNCHANGED <<session, connector>>
    BY <1>1, <1>2, TakenFrame DEF TakenInv, Charging, Place
<1>3. ASSUME NEW c \in Connections, NEW call \in Calls, Accepts(c, call),
             ~UNCHANGED <<session, connector>>
      PROVE  TakenInv'
    <2>1. OrderlyStep
        BY <1>3 DEF vars, db
    <2> QED
        BY <1>1, <1>3, <2>1, AcceptsTaken
<1>4. ASSUME NEW s \in Stations, NEW n \in Numbers,
             NEW state \in {"available", "unavailable"},
             ConnectorSet(s, n, state), ~UNCHANGED <<session, connector>>
      PROVE  TakenInv'
    <2>1. /\ UNCHANGED session
          /\ connector' = [connector EXCEPT ![<<s, n>>] = state]
          /\ OrderlyStep
        BY <1>4 DEF ConnectorSet, vars, db
    <2>2. ASSUME NEW k \in Keys, Charging(k)
          PROVE  connector'[Place(k)] # "available"
        <3>1. Place(k) \in Stations \X Numbers /\ connector[Place(k)] # "available"
            BY <1>1, <2>2, PlaceType DEF TakenInv, Charging
        <3>2. state = "available" => Place(k) # <<s, n>>
            BY <1>1, <1>4, <2>1, <2>2, ActiveOnPlace DEF OrderlyStep
        <3> QED
            BY <1>1, <2>1, <3>1, <3>2 DEF TypeInv, TypeOK
    <2> QED
        BY <1>1, <2>1, <2>2, TakenFrame DEF Charging, Place
<1>5. SUFFICES ASSUME ~UNCHANGED <<session, connector>>
               PROVE  TakenInv'
    BY <1>2
<1>6. ASSUME NEW c \in Connections, SocketStep(c)
      PROVE  FALSE
    BY <1>5, <1>6 DEF SocketStep, Connect, Disconnect, Reload, Reply, LoseReply,
                      Close, Duplicate, Reject, db
<1>7. ASSUME NEW w \in Workers, SweepStep(w)
      PROVE  FALSE
    BY <1>5, <1>7 DEF SweepStep, SweepSelect, SweepCommit, WorkerCrash, db
<1>8. CASE OtherStep
    BY <1>4, <1>5, <1>8 DEF OtherStep, BackendRestart, StationCommit, Silence,
                            StationLoad, vars, db
<1> QED
    BY <1>3, <1>5, <1>6, <1>7, <1>8, Steps

(* Each connector charges one session at a time, for any stations, frames,   *)
(* connections and workers, if no stop, report of availability or admin      *)
(* frees a connector while another session is active on it: the check at the *)
(* start is enough, and these three, which look at no session, are all that  *)
(* can defeat it. A stop repeated for a completed session and the late stop  *)
(* of an interrupted one do (ingestion.py:330-382, 384-418, 510-557,         *)
(* admin.py:368-437).                                                        *)
THEOREM OrderlyFramesKeepConnectors == Spec /\ Orderly => []OneChargeEach
<1>1. Init => TakenInv
    <2> SUFFICES ASSUME Init
                 PROVE  TakenInv
        OBVIOUS
    <2>1. ChargeInv
        BY ChargeFirst
    <2> QED
        BY <2>1 DEF Init, TakenInv, Charging
<1>2. TakenInv => OneChargeEach
    BY ActiveOnPlace DEF TakenInv, OneChargeEach
<1> QED
    BY <1>1, <1>2, TakenStep, PTL DEF Spec, Orderly

=============================================================================
