-------------------------------- MODULE Trail --------------------------------
(* The audit events of stations in the order in which GET /events lists them *)
(* and the console shows them as the history of a station: newest first by   *)
(* created_at. The database fills that column with now(), which is the start *)
(* of the transaction that adds the event, not its commit. A transaction     *)
(* begins with the first statement after the last commit or rollback, so     *)
(* that of a connection is open from its authentication, or from the reply   *)
(* before, until the frame is handled, and that of a sweep from its query.   *)
(* Times are kept only as far as the order tells them apart. Admins, who     *)
(* write events too, are left out.                                           *)
EXTENDS Ingestion

ASSUME TrailAssumption == Connections \cap Workers = {}

VARIABLES
    trail,   (* the state the first event listed of a station ends in        *)
    since,   (* the open transactions that began after the one of that event *)
    younger  (* for each open transaction, those that began after it         *)

order == <<trail, since, younger>>
trailVars == <<vars, order>>

Transactions == Connections \cup Workers

(* A connection is in a transaction as long as its session holds the station,*)
(* a worker from the query of its sweep to the commit.                       *)
Open == {c \in Connections : copy[c] # None}
        \cup {w \in Workers : sweep[w] # NoSweep}

TrailTypeOK ==
    /\ trail \in [Stations -> StationStates]
    /\ since \in [Stations -> SUBSET Open]
    /\ younger \in [Transactions -> SUBSET Open]
    /\ \A t \in Transactions : t \notin younger[t]

TrailInit ==
    /\ Init
    /\ trail = lastEvent
    /\ since = [s \in Stations |-> {}]
    /\ younger = [t \in Transactions |-> {}]

-----------------------------------------------------------------------------
(* Transactions.                                                             *)

Opens(t) ==
    /\ since' = [s \in Stations |-> since[s] \cup {t}]
    /\ younger' = [u \in Transactions |->
                     IF u \in Open THEN younger[u] \cup {t} ELSE {}]
    /\ UNCHANGED trail

KeptOpen(T) == younger                                         (* variant *)

Without(T) ==
    [u \in Transactions |-> IF u \in T THEN {} ELSE younger[u] \ T]

(* Transactions end that add no event about a station.                       *)
Ends(T) ==
    /\ since' = [s \in Stations |-> since[s] \ T]
    /\ younger' = Without(T)
    /\ UNCHANGED trail

ListedLast(t, s) == t \notin since[s]                          (* variant *)

(* An event about station s that transaction t adds is the first of the list.*)
ListedFirst(t, s) == t \in since[s]

(* Transaction t commits with an event about each of the stations, which     *)
(* ends in the state.                                                        *)
CommitsEvents(t, about, state) ==
    LET first == {s \in about : ListedFirst(t, s)}
    IN  /\ trail' = [s \in Stations |-> IF s \in first THEN state
                                        ELSE trail[s]]
        /\ since' = [s \in Stations |-> (IF s \in first THEN younger[t]
                                         ELSE since[s]) \ {t}]
        /\ younger' = Without({t})

(* What a connection's report of a state adds an event about.                *)
Reported(c, state) == {s \in {StationOf[c]} : copy[c].state # state}

-----------------------------------------------------------------------------
TrailNext ==
    \/ \E c \in Connections : Connect(c) /\ Opens(c)
    \/ \E c \in Connections : Reload(c) /\ Opens(c)
    \/ \E c \in Connections : Reply(c) /\ Opens(c)
    \/ \E c \in Connections : LoseReply(c) /\ UNCHANGED order
    \/ \E c \in Connections : Disconnect(c) /\ Ends({c})
    \/ BackendRestart /\ Ends(Connections)
    \/ \E c \in Connections, call \in Calls :
          Duplicate(c, call) /\ UNCHANGED order
    \/ \E c \in Connections, call \in Calls : Reject(c, call) /\ Ends({c})
    \/ \E c \in Connections, call \in Calls :
          /\ HandleHeartbeat(c, call)
          /\ CommitsEvents(c, Reported(c, "online"), "online")
    \/ \E c \in Connections, call \in Calls :
          /\ HandleStatus(c, call)
          /\ LET state == StationStateFor(call.status)
             IN  CommitsEvents(c, Reported(c, state), state)
    \/ \E c \in Connections, call \in Calls :
          HandleAuthorize(c, call) /\ Ends({c})
    \/ \E c \in Connections, call \in Calls :
          HandleStart(c, call) /\ Ends({c})
    \/ \E c \in Connections, call \in Calls :
          HandleMeter(c, call) /\ Ends({c})
    \/ \E c \in Connections, call \in Calls :
          HandleStop(c, call) /\ Ends({c})
    \/ \E w \in Workers : SweepSelect(w) /\ Opens(w)
    \/ \E w \in Workers :
          /\ SweepCommit(w)
          /\ CommitsEvents(w, {s \in Stations : sweep[w][s] # None}, "offline")
    \/ \E w \in Workers : WorkerCrash(w) /\ Ends({w})
    \/ \E s \in Stations : Silence(s) /\ UNCHANGED order

TrailSpec == TrailInit /\ [][TrailNext]_trailVars

-----------------------------------------------------------------------------
(* The trail may be wrong only about a station being offline: where the      *)
(* first event listed and the row disagree, one of them says offline. The    *)
(* sweep's event may hide a later report or be hidden by an earlier one, but *)
(* no report of a charger hides another (entities.py:28-31, resources.py:224,*)
(* ingestion.py:207-233, stations.py:22-38).                                 *)
ReportsKeepOrder ==
    \A s \in Stations : trail[s] # station[s].state =>
        "offline" \in {trail[s], station[s].state}

(* The history of a station ends in the state its row holds (features.md:66, *)
(* page.tsx:1464).                                                           *)
HistoryEndsInRow ==
    \A s \in Stations : trail[s] = station[s].state

=============================================================================
