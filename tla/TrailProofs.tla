----------------------------- MODULE TrailProofs -----------------------------
(* Theorems about the order of audit events, for any stations, connections,  *)
(* frames and workers.                                                       *)
EXTENDS IngestionProofs, Trail

-----------------------------------------------------------------------------
(* The trail adds nothing to what the ingestion does: the theorems of        *)
(* IngestionProofs hold of it (ingestion.py:207-233, stations.py:22-38).     *)
LEMMA TrailSteps == [TrailNext]_trailVars => [Next]_vars
BY DEF TrailNext, trailVars, Next

THEOREM TrailImplementsIngestion == TrailSpec => Spec
<1>1. TrailInit => Init
    BY DEF TrailInit
<1> QED
    BY <1>1, TrailSteps, PTL DEF TrailSpec, Spec

-----------------------------------------------------------------------------
(* A closed connection is in no transaction, nor is one that has committed.  *)
Apart == \A c \in Connections :
            pc[c] \in {"closed", "committed"} => copy[c] = None

OpenInv == TypeInv /\ Apart

(* What a step is to the order of events: a transaction begins, some end     *)
(* without an event, one commits events, or there is nothing to tell.        *)
BeginStep(t) == t \notin Open /\ Opens(t) /\ Open' = Open \cup {t}

EndStep(T) == Ends(T) /\ Open' = Open \ T

EventStep(t, about, state) ==
    /\ t \in Open /\ CommitsEvents(t, about, state) /\ Open' = Open \ {t}
    /\ about \subseteq Stations /\ state \in StationStates
    /\ t \in Connections => about \subseteq {StationOf[t]}
    /\ t \in Workers => state = "offline"
    /\ lastEvent' = [s \in Stations |-> IF s \in about THEN state
                                        ELSE lastEvent[s]]

(* Every event is added by a transaction that began after that of the first  *)
(* event listed of the same station.                                         *)
InOrder ==
    /\ \A c \in Connections, call \in Calls :
          /\ HandleHeartbeat(c, call) =>
                \A s \in Reported(c, "online") : ListedFirst(c, s)
          /\ HandleStatus(c, call) =>
                \A s \in Reported(c, StationStateFor(call.status)) :
                    ListedFirst(c, s)
    /\ \A w \in Workers : SweepCommit(w) =>
          \A s \in Stations : sweep[w][s] # None => ListedFirst(w, s)

OrderStep ==
    \/ UNCHANGED <<order, lastEvent>> /\ Open' = Open
    \/ \E t \in Transactions : BeginStep(t) /\ UNCHANGED lastEvent
    \/ \E T \in SUBSET Transactions : EndStep(T) /\ UNCHANGED lastEvent
    \/ \E t \in Transactions, about \in SUBSET Stations,
          state \in StationStates :
          /\ EventStep(t, about, state)
          /\ InOrder => \A s \in about : ListedFirst(t, s)

(* Which connections are in a transaction, from what became of the copies.   *)
LEMMA SocketOpen ==
    ASSUME TypeInv, NEW c \in Connections, NEW new,
           copy' = [copy EXCEPT ![c] = new], UNCHANGED sweep
    PROVE  Open' = IF new = None THEN Open \ {c} ELSE Open \cup {c}
<1>1. \A d \in Connections : copy'[d] = IF d = c THEN new ELSE copy[d]
    BY DEF TypeInv, TypeOK
<1> QED
    BY <1>1, TrailAssumption DEF Open, TrailAssumption

LEMMA WorkerOpen ==
    ASSUME TypeInv, NEW w \in Workers, NEW new,
           sweep' = [sweep EXCEPT ![w] = new], UNCHANGED copy
    PROVE  Open' = IF new = NoSweep THEN Open \ {w} ELSE Open \cup {w}
<1>1. \A v \in Workers : sweep'[v] = IF v = w THEN new ELSE sweep[v]
    BY DEF TypeInv, TypeOK
<1>2. NoSweep' = NoSweep
    BY DEF NoSweep
<1> QED
    BY <1>1, <1>2, TrailAssumption DEF Open, TrailAssumption

LEMMA ReadyOpen ==
    ASSUME TypeInv, NEW c \in Connections, Ready(c)
    PROVE  c \in Open
BY ReadyHasCopy, NoneAssumption DEF Open, NoneAssumption

(* A report of a state is committed with its event.                          *)
LEMMA ReportOrder ==
    ASSUME TypeInv, NEW c \in Connections, NEW call \in Calls, Ready(c),
           Commit(c, call), NEW state \in StationStates, NEW online,
           WriteStation(c, state, online),
           CommitsEvents(c, Reported(c, state), state)
    PROVE  EventStep(c, Reported(c, state), state)
<1>1. StationOf[c] \in Stations
    BY IngestionAssumption DEF IngestionAssumption
<1>2. c \in Open
    BY ReadyOpen
<1>3. copy' = [copy EXCEPT ![c] = None] /\ UNCHANGED sweep
    BY DEF Commit
<1>4. Open' = Open \ {c}
    BY <1>3, SocketOpen
<1>5. lastEvent' = [s \in Stations |-> IF s \in Reported(c, state) THEN state
                                       ELSE lastEvent[s]]
    BY <1>1 DEF WriteStation, Audited, Reported, TypeInv, TypeOK
<1>6. Reported(c, state) \subseteq {StationOf[c]}
    BY DEF Reported
<1>7. c \notin Workers
    BY TrailAssumption DEF TrailAssumption
<1> QED
    BY <1>1, <1>2, <1>4, <1>5, <1>6, <1>7 DEF EventStep

(* Frames.                                                                   *)
LEMMA FrameOrder ==
    ASSUME TypeInv, NEW c \in Connections, NEW call \in Calls,
           \/ Duplicate(c, call) /\ UNCHANGED order
           \/ Reject(c, call) /\ Ends({c})
           \/ /\ HandleHeartbeat(c, call)
              /\ CommitsEvents(c, Reported(c, "online"), "online")
           \/ /\ HandleStatus(c, call)
              /\ CommitsEvents(c, Reported(c, StationStateFor(call.status)),
                               StationStateFor(call.status))
           \/ HandleAuthorize(c, call) /\ Ends({c})
           \/ HandleStart(c, call) /\ Ends({c})
           \/ HandleMeter(c, call) /\ Ends({c})
           \/ HandleStop(c, call) /\ Ends({c})
    PROVE  OrderStep
<1>1. StationOf[c] \in Stations /\ c \in Transactions
    BY IngestionAssumption DEF IngestionAssumption, Transactions
<1>2. ASSUME NEW state \in StationStates, NEW online, Ready(c),
             Commit(c, call), WriteStation(c, state, online),
             CommitsEvents(c, Reported(c, state), state),
             InOrder => \A s \in Reported(c, state) : ListedFirst(c, s)
      PROVE  OrderStep
    <2>1. EventStep(c, Reported(c, state), state)
        BY <1>2, ReportOrder
    <2>2. Reported(c, state) \in SUBSET Stations
        BY <1>1 DEF Reported
    <2> QED
        BY <1>1, <1>2, <2>1, <2>2 DEF OrderStep
<1>3. CASE Duplicate(c, call) /\ UNCHANGED order
    <2>1. UNCHANGED <<lastEvent, copy, sweep>>
        BY <1>3 DEF Duplicate, db
    <2>2. Open' = Open
        BY <2>1 DEF Open, NoSweep
    <2> QED
        BY <1>3, <2>1, <2>2 DEF OrderStep
<1>4. CASE HandleHeartbeat(c, call)
           /\ CommitsEvents(c, Reported(c, "online"), "online")
    <2>1. InOrder => \A s \in Reported(c, "online") : ListedFirst(c, s)
        BY <1>4 DEF InOrder
    <2>2. "online" \in StationStates
        BY DEF StationStates
    <2> QED
        BY <1>2, <1>4, <2>1, <2>2 DEF HandleHeartbeat, Handles
<1>5. CASE HandleStatus(c, call)
           /\ CommitsEvents(c, Reported(c, StationStateFor(call.status)),
                            StationStateFor(call.status))
    <2>1. InOrder => \A s \in Reported(c, StationStateFor(call.status)) :
                         ListedFirst(c, s)
        BY <1>5 DEF InOrder
    <2>2. StationStateFor(call.status) \in StationStates
        BY StationStateForType DEF StationStates
    <2> QED
        BY <1>2, <1>5, <2>1, <2>2 DEF HandleStatus, Handles
<1>6. CASE /\ \/ Reject(c, call) \/ HandleAuthorize(c, call)
              \/ HandleStart(c, call) \/ HandleMeter(c, call)
              \/ HandleStop(c, call)
           /\ Ends({c})
    <2>1. /\ UNCHANGED <<lastEvent, sweep>>
          /\ copy' = [copy EXCEPT ![c] = None]
        BY <1>6 DEF Reject, HandleAuthorize, HandleStart, HandleMeter,
           HandleStop, Commit, db
    <2>2. Open' = Open \ {c}
        BY <2>1, SocketOpen
    <2>3. {c} \in SUBSET Transactions
        BY <1>1
    <2> QED
        BY <1>6, <2>1, <2>2, <2>3 DEF OrderStep, EndStep
<1> QED
    BY <1>3, <1>4, <1>5, <1>6

(* The ways of a connection between frames.                                  *)
LEMMA SocketOrder ==
    ASSUME OpenInv, NEW c \in Connections,
           \/ (Connect(c) \/ Reload(c) \/ Reply(c)) /\ Opens(c)
           \/ LoseReply(c) /\ UNCHANGED order
           \/ Disconnect(c) /\ Ends({c})
    PROVE  OrderStep
<1>1. /\ TypeInv /\ c \in Transactions /\ StationOf[c] \in Stations
      /\ c \notin Workers
    BY IngestionAssumption, TrailAssumption
    DEF IngestionAssumption, TrailAssumption, Transactions, OpenInv
<1>2. CASE (Connect(c) \/ Reload(c) \/ Reply(c)) /\ Opens(c)
    <2>1. /\ UNCHANGED <<lastEvent, sweep>> /\ copy[c] = None
          /\ copy' = [copy EXCEPT ![c] = station[StationOf[c]]]
        BY <1>2 DEF Connect, Reload, Reply, db, OpenInv, Apart
    <2>2. station[StationOf[c]] # None
        BY <1>1, NoneAssumption DEF NoneAssumption, TypeInv, TypeOK
    <2>3. Open' = Open \cup {c}
        BY <1>1, <2>1, <2>2, SocketOpen
    <2>4. c \notin Open
        BY <1>1, <2>1 DEF Open
    <2> QED
        BY <1>1, <1>2, <2>1, <2>3, <2>4 DEF OrderStep, BeginStep
<1>3. CASE LoseReply(c) /\ UNCHANGED order
    <2>1. /\ UNCHANGED <<lastEvent, sweep>> /\ copy[c] = None
          /\ copy' = [copy EXCEPT ![c] = None]
        BY <1>3 DEF LoseReply, Close, db, OpenInv, Apart
    <2>2. Open' = Open
        BY <1>1, <2>1, SocketOpen DEF Open
    <2> QED
        BY <1>3, <2>1, <2>2 DEF OrderStep
<1>4. CASE Disconnect(c) /\ Ends({c})
    <2>1. /\ UNCHANGED <<lastEvent, sweep>>
          /\ copy' = [copy EXCEPT ![c] = None]
        BY <1>4 DEF Disconnect, Close, db
    <2>2. Open' = Open \ {c}
        BY <1>1, <2>1, SocketOpen
    <2>3. {c} \in SUBSET Transactions
        BY <1>1
    <2> QED
        BY <1>4, <2>1, <2>2, <2>3 DEF OrderStep, EndStep
<1> QED
    BY <1>2, <1>3, <1>4

(* The sweeps.                                                               *)
LEMMA SweepOrder ==
    ASSUME TypeInv, NEW w \in Workers,
           \/ SweepSelect(w) /\ Opens(w)
           \/ /\ SweepCommit(w)
              /\ CommitsEvents(w, {s \in Stations : sweep[w][s] # None},
                               "offline")
           \/ WorkerCrash(w) /\ Ends({w})
    PROVE  OrderStep
<1>1. w \in Transactions /\ w \notin Connections
    BY TrailAssumption DEF TrailAssumption, Transactions
<1>2. CASE SweepSelect(w) /\ Opens(w)
    <2> DEFINE new == [s \in Stations |-> IF Silent(station[s])
                                         THEN station[s] ELSE None]
    <2>1. /\ UNCHANGED <<lastEvent, copy>> /\ sweep[w] = NoSweep
          /\ sweep' = [sweep EXCEPT ![w] = new]
        BY <1>2 DEF SweepSelect, db, socket
    <2>2. PICK s \in Stations : Silent(station[s])
        BY <1>2 DEF SweepSelect
    <2>3. new[s] # None
        BY <2>2, NoneAssumption DEF NoneAssumption, TypeInv, TypeOK
    <2>4. new # NoSweep
        BY <2>3 DEF NoSweep
    <2>5. Open' = Open \cup {w}
        BY <2>1, <2>4, WorkerOpen
    <2>6. w \notin Open
        BY <1>1, <2>1 DEF Open
    <2> QED
        BY <1>1, <1>2, <2>1, <2>5, <2>6 DEF OrderStep, BeginStep
<1>3. CASE /\ SweepCommit(w)
           /\ CommitsEvents(w, {s \in Stations : sweep[w][s] # None},
                            "offline")
    <2> DEFINE about == {s \in Stations : sweep[w][s] # None}
    <2>1. /\ sweep[w] # NoSweep /\ UNCHANGED copy
          /\ sweep' = [sweep EXCEPT ![w] = NoSweep]
          /\ lastEvent' = [s \in Stations |->
                             IF s \in about THEN "offline" ELSE lastEvent[s]]
        BY <1>3 DEF SweepCommit, socket
    <2>2. Open' = Open \ {w} /\ w \in Open
        BY <2>1, WorkerOpen DEF Open
    <2>3. EventStep(w, about, "offline")
        BY <1>1, <1>3, <2>1, <2>2 DEF EventStep, StationStates
    <2>4. InOrder => \A s \in about : ListedFirst(w, s)
        BY <1>3 DEF InOrder
    <2>5. "offline" \in StationStates /\ about \in SUBSET Stations
        BY DEF StationStates
    <2> QED
        BY <1>1, <2>3, <2>4, <2>5 DEF OrderStep
<1>4. CASE WorkerCrash(w) /\ Ends({w})
    <2>1. /\ UNCHANGED <<lastEvent, copy>>
          /\ sweep' = [sweep EXCEPT ![w] = NoSweep]
        BY <1>4 DEF WorkerCrash, db, socket
    <2>2. Open' = Open \ {w}
        BY <2>1, WorkerOpen
    <2>3. {w} \in SUBSET Transactions
        BY <1>1
    <2> QED
        BY <1>4, <2>1, <2>2, <2>3 DEF OrderStep, EndStep
<1> QED
    BY <1>2, <1>3, <1>4

LEMMA TrailStepsOrder ==
    ASSUME OpenInv, [TrailNext]_trailVars
    PROVE  OrderStep
<1>1. TypeInv
    BY DEF OpenInv
<1>2. ASSUME BackendRestart, Ends(Connections)
      PROVE  OrderStep
    <2>1. /\ UNCHANGED <<lastEvent, sweep>>
          /\ copy' = [c \in Connections |-> None]
        BY <1>2 DEF BackendRestart, db
    <2>2. Open' = Open \ Connections
        BY <2>1, TrailAssumption DEF Open, NoSweep, TrailAssumption
    <2>3. Connections \in SUBSET Transactions
        BY DEF Transactions
    <2> QED
        BY <1>2, <2>1, <2>2, <2>3 DEF OrderStep, EndStep
<1>3. ASSUME NEW s \in Stations, Silence(s), UNCHANGED order
      PROVE  OrderStep
    BY <1>3 DEF Silence, socket, Open, NoSweep, OrderStep
<1>4. CASE UNCHANGED trailVars
    BY <1>4 DEF trailVars, vars, db, socket, Open, NoSweep, OrderStep
<1>5. CASE TrailNext
    BY <1>1, <1>2, <1>3, <1>5, FrameOrder, SocketOrder, SweepOrder
    DEF TrailNext
<1> QED
    BY <1>4, <1>5

-----------------------------------------------------------------------------
(* Types.                                                                    *)

LEMMA ApartStep ==
    ASSUME OpenInv, [Next]_vars
    PROVE  Apart'
<1>1. TypeInv
    BY DEF OpenInv
<1>2. ASSUME NEW c \in Connections, NEW call \in Calls, Accepts(c, call)
      PROVE  Apart'
    <2>1. /\ copy' = [copy EXCEPT ![c] = None]
          /\ pc' = [pc EXCEPT ![c] = "committed"]
        BY <1>2 DEF Accepts, HandleHeartbeat, HandleAuthorize, HandleStatus,
           HandleStart, HandleMeter, HandleStop, Commit
    <2> QED
        BY <1>1, <2>1 DEF OpenInv, Apart, TypeInv, TypeOK
<1>3. ASSUME NEW c \in Connections, SocketStep(c)
      PROVE  Apart'
    <2>1. \/ copy' = [copy EXCEPT ![c] = None]
          \/ /\ \E place \in {"idle", "loaded"} :
                    pc' = [pc EXCEPT ![c] = place]
             /\ \A d \in Connections \ {c} : copy'[d] = copy[d]
        BY <1>1, <1>3
        DEF SocketStep, Connect, Disconnect, Close, Reload, Reply, LoseReply,
            Duplicate, Reject, TypeInv, TypeOK
    <2>2. \A d \in Connections \ {c} : pc'[d] = pc[d]
        BY <1>1, <1>3
        DEF SocketStep, Connect, Disconnect, Close, Reload, Reply, LoseReply,
            Duplicate, Reject, TypeInv, TypeOK
    <2> QED
        BY <1>1, <2>1, <2>2 DEF OpenInv, Apart, TypeInv, TypeOK
<1>4. ASSUME NEW w \in Workers, SweepStep(w)
      PROVE  Apart'
    BY <1>4 DEF SweepStep, SweepSelect, SweepCommit, WorkerCrash, socket,
       OpenInv, Apart
<1>5. CASE OtherStep
    BY <1>5 DEF OtherStep, BackendRestart, StationCommit, Silence,
       StationLoad, ConnectorSet, socket, vars, OpenInv, Apart
<1> QED
    BY <1>2, <1>3, <1>4, <1>5, Steps

TrailInv == OpenInv /\ TrailTypeOK /\ Open \subseteq Transactions

LEMMA TrailFirst == TrailInit => TrailInv
<1> SUFFICES ASSUME TrailInit
             PROVE  TrailInv
    OBVIOUS
<1>1. TypeInv
    BY TypeInit DEF TrailInit
<1>2. Apart
    BY DEF TrailInit, Init, Apart
<1>3. TrailTypeOK
    BY <1>1 DEF TrailInit, TrailTypeOK, TypeInv, TypeOK
<1> QED
    BY <1>1, <1>2, <1>3 DEF TrailInv, OpenInv, Open, Transactions

LEMMA TrailKept == TrailInv /\ [TrailNext]_trailVars => TrailInv'
<1> SUFFICES ASSUME TrailInv, [TrailNext]_trailVars
             PROVE  TrailInv'
    OBVIOUS
<1>1. OpenInv'
    BY TrailSteps, TypeStep, ApartStep DEF TrailInv, OpenInv
<1>2. Open' \subseteq Transactions
    BY DEF Open, Transactions
<1>3. OrderStep
    BY TrailStepsOrder DEF TrailInv
<1>4. ASSUME UNCHANGED order, Open' = Open
      PROVE  TrailTypeOK'
    BY <1>4 DEF order, TrailInv, TrailTypeOK
<1>5. ASSUME NEW t \in Transactions, BeginStep(t)
      PROVE  TrailTypeOK'
    BY <1>5 DEF BeginStep, Opens, TrailInv, TrailTypeOK
<1>6. ASSUME NEW T \in SUBSET Transactions, EndStep(T)
      PROVE  TrailTypeOK'
    BY <1>6 DEF EndStep, Ends, Without, TrailInv, TrailTypeOK
<1>7. ASSUME NEW t \in Transactions, NEW about \in SUBSET Stations,
             NEW state \in StationStates, EventStep(t, about, state)
      PROVE  TrailTypeOK'
    BY <1>7 DEF EventStep, CommitsEvents, Without, TrailInv, TrailTypeOK
<1>8. TrailTypeOK'
    BY <1>3, <1>4, <1>5, <1>6, <1>7 DEF OrderStep, TrailInv
<1> QED
    BY <1>1, <1>2, <1>8 DEF TrailInv, Transactions

LEMMA TrailInvAlways == TrailSpec => []TrailInv
BY TrailFirst, TrailKept, PTL DEF TrailSpec

(* The order of events relates open transactions only, and none to itself,   *)
(* however they begin and end (ingestion.py:557-568, ocpp.py:16-44,          *)
(* worker.py:27-30).                                                         *)
THEOREM TrailTypeCorrect == TrailSpec => []TrailTypeOK
<1>1. TrailInv => TrailTypeOK
    BY DEF TrailInv
<1> QED
    BY <1>1, TrailInvAlways, PTL

-----------------------------------------------------------------------------
(* One connection for a station. Its transactions follow each other, so only *)
(* the sweep's event can be listed before a report that is still to come.    *)

OneEach ==
    \A b, c \in Connections : StationOf[b] = StationOf[c] => b = c

Hidden ==
    \A c \in Connections :
        c \in Open /\ c \notin since[StationOf[c]]
            => trail[StationOf[c]] = "offline"

OfflineOnly ==
    \A s \in Stations : trail[s] # lastEvent[s] =>
        "offline" \in {trail[s], lastEvent[s]}

HiddenInv == TrailInv /\ Hidden /\ OfflineOnly

LEMMA HiddenKept ==
    ASSUME OneEach, HiddenInv, [TrailNext]_trailVars
    PROVE  HiddenInv'
<1>1. TrailInv /\ TrailInv'
    BY TrailKept DEF HiddenInv
<1>2. OrderStep
    BY TrailStepsOrder DEF HiddenInv, TrailInv
<1>3. \A c \in Connections : StationOf[c] \in Stations
    BY IngestionAssumption DEF IngestionAssumption
<1>4. ASSUME UNCHANGED <<order, lastEvent>>, Open' = Open
      PROVE  Hidden' /\ OfflineOnly'
    BY <1>4 DEF order, HiddenInv, Hidden, OfflineOnly
<1>5. ASSUME NEW t \in Transactions, BeginStep(t), UNCHANGED lastEvent
      PROVE  Hidden' /\ OfflineOnly'
    BY <1>3, <1>5 DEF BeginStep, Opens, HiddenInv, Hidden, OfflineOnly
<1>6. ASSUME NEW T \in SUBSET Transactions, EndStep(T), UNCHANGED lastEvent
      PROVE  Hidden' /\ OfflineOnly'
    BY <1>3, <1>6 DEF EndStep, Ends, HiddenInv, Hidden, OfflineOnly
<1>7. ASSUME NEW t \in Transactions, NEW about \in SUBSET Stations,
             NEW state \in StationStates, EventStep(t, about, state)
      PROVE  Hidden' /\ OfflineOnly'
    <2>1. \A s \in Stations :
             /\ trail'[s] = IF s \in about /\ t \in since[s] THEN state
                            ELSE trail[s]
             /\ lastEvent'[s] = IF s \in about THEN state ELSE lastEvent[s]
             /\ ~(s \in about /\ t \in since[s])
                    => since'[s] = since[s] \ {t}
        BY <1>7 DEF EventStep, CommitsEvents, ListedFirst
    <2>2. Open' = Open \ {t} /\ t \in Open
        BY <1>7 DEF EventStep
    <2>3. CASE t \in Workers
        <3>1. state = "offline" /\ t \notin Connections
            BY <1>7, <2>3, TrailAssumption DEF EventStep, TrailAssumption
        <3> QED
            BY <1>3, <2>1, <2>2, <3>1 DEF HiddenInv, Hidden, OfflineOnly
    <2>4. CASE t \in Connections
        <3>1. about \subseteq {StationOf[t]}
            BY <1>7, <2>4 DEF EventStep
        <3>2. OfflineOnly'
            BY <1>3, <2>1, <2>2, <2>4, <3>1 DEF HiddenInv, Hidden, OfflineOnly
        <3>3. \A c \in Connections \ {t} : StationOf[c] \notin about
            BY <2>4, <3>1 DEF OneEach
        <3>4. Hidden'
            BY <1>3, <2>1, <2>2, <3>3 DEF HiddenInv, Hidden
        <3> QED
            BY <3>2, <3>4
    <2> QED
        BY <2>3, <2>4 DEF Transactions
<1> QED
    BY <1>1, <1>2, <1>4, <1>5, <1>6, <1>7 DEF OrderStep, HiddenInv

LEMMA OfflineOnlyAlways ==
    ASSUME OneEach
    PROVE  TrailSpec => []OfflineOnly
<1>1. TrailInit => HiddenInv
    BY TrailFirst
    DEF TrailInit, Init, HiddenInv, Hidden, OfflineOnly, Open, NoSweep
<1>2. HiddenInv => OfflineOnly
    BY DEF HiddenInv
<1> QED
    BY <1>1, <1>2, HiddenKept, PTL DEF TrailSpec

(* With one worker and one connection for a station the list of events and   *)
(* the row disagree only about the station being offline: no report of a     *)
(* charger hides another (resources.py:224, entities.py:28-31,               *)
(* ingestion.py:207-233, stations.py:22-38).                                 *)
THEOREM ReportsAlwaysKeepOrder ==
    ASSUME NEW w0, Workers = {w0}, AdminStations = {}, OneEach,
           \A s \in Stations : Live(InitStation[s])
    PROVE  TrailSpec => []ReportsKeepOrder
<1>1. Spec => []ChangesRecorded
    BY ChangesAlwaysRecorded DEF OneEach
<1>2. ChangesRecorded /\ OfflineOnly => ReportsKeepOrder
    BY DEF ChangesRecorded, OfflineOnly, ReportsKeepOrder
<1> QED
    BY <1>1, <1>2, OfflineOnlyAlways, TrailImplementsIngestion, PTL

(* So it is with any number of workers that commit their sweeps on stations  *)
(* in the state they found them in (stations.py:11-39).                      *)
THEOREM PromptReportsKeepOrder ==
    ASSUME OneEach,
           \A s \in Stations : InitStation[s].online => ~Blank(InitStation[s])
    PROVE  TrailSpec /\ PromptWrites => []ReportsKeepOrder
<1>1. Spec /\ PromptWrites => []ChangesRecorded
    BY PromptChangesRecorded
<1>2. ChangesRecorded /\ OfflineOnly => ReportsKeepOrder
    BY DEF ChangesRecorded, OfflineOnly, ReportsKeepOrder
<1> QED
    BY <1>1, <1>2, OfflineOnlyAlways, TrailImplementsIngestion, PTL

-----------------------------------------------------------------------------
(* Events that are added in the order of their transactions.                 *)

CommitsInOrder == [][InOrder]_trailVars

Agree == trail = lastEvent

LEMMA InOrderKept ==
    TrailInv /\ Agree /\ [TrailNext]_trailVars /\ [InOrder]_trailVars
        => Agree'
<1> SUFFICES ASSUME TrailInv, Agree, [TrailNext]_trailVars,
                    [InOrder]_trailVars
             PROVE  Agree'
    OBVIOUS
<1>1. CASE UNCHANGED trailVars
    BY <1>1 DEF trailVars, vars, db, order, Agree
<1>2. CASE InOrder
    <2>1. OrderStep
        BY TrailStepsOrder DEF TrailInv
    <2>2. ASSUME NEW t \in Transactions, NEW about \in SUBSET Stations,
                 NEW state \in StationStates, EventStep(t, about, state),
                 \A s \in about : ListedFirst(t, s)
          PROVE  Agree'
        BY <2>2 DEF EventStep, CommitsEvents, Agree
    <2> QED
        BY <1>2, <2>1, <2>2
        DEF OrderStep, order, BeginStep, Opens, EndStep, Ends, Agree
<1> QED
    BY <1>1, <1>2

(* Where events are added in the order of their transactions, the history of *)
(* a station ends in the state its row holds, for any connections and for    *)
(* workers whose sweeps find stations as they commit them: that now() is the *)
(* start of a transaction is all that parts the two (entities.py:28-31,      *)
(* resources.py:224).                                                        *)
THEOREM OrderedHistoryEndsInRow ==
    ASSUME \A s \in Stations : InitStation[s].online => ~Blank(InitStation[s])
    PROVE  TrailSpec /\ PromptWrites /\ CommitsInOrder => []HistoryEndsInRow
<1>1. TrailInit => Agree
    BY DEF TrailInit, Agree
<1>2. Spec /\ PromptWrites => []ChangesRecorded
    BY PromptChangesRecorded
<1>3. ChangesRecorded /\ Agree => HistoryEndsInRow
    BY DEF ChangesRecorded, HistoryEndsInRow, Agree
<1> QED
    BY <1>1, <1>2, <1>3, InOrderKept, TrailInvAlways,
       TrailImplementsIngestion, PTL DEF TrailSpec, CommitsInOrder

=============================================================================
