----------------------------- MODULE StateTables -----------------------------
(* The states of stations, connectors, sessions and transactions, and the    *)
(* transitions app/services/ingestion.py allows between them.                *)

StationStates == {"unknown", "online", "offline", "faulted"}

ConnectorStates ==
    {"available", "occupied", "charging", "suspended_ev", "suspended_evse",
     "finishing", "reserved", "unavailable", "faulted"}

SessionStates ==
    {"requested", "starting", "active", "stopping", "completed", "failed",
     "interrupted"}

TransactionStates == {"open", "closing", "closed", "reconciled", "failed"}

STATION_TRANSITIONS ==
    [unknown |-> {"online", "offline", "faulted"},
     online  |-> {"offline", "faulted"},
     offline |-> {"online", "faulted"},
     faulted |-> {"online", "offline"}]

CONNECTOR_TRANSITIONS ==
    [available      |-> ConnectorStates \ {"available"},
     occupied       |-> ConnectorStates \ {"occupied", "reserved"},
     charging       |-> ConnectorStates \ {"occupied", "charging", "reserved"},
     suspended_ev   |-> {"available", "charging", "finishing", "unavailable",
                         "faulted"},
     suspended_evse |-> {"available", "charging", "finishing", "unavailable",
                         "faulted"},
     finishing      |-> {"available", "unavailable", "faulted"},
     reserved       |-> {"available", "occupied", "unavailable", "faulted"},
     unavailable    |-> {"available", "faulted"},
     faulted        |-> {"available", "unavailable"}]

(* A defect the properties of Ingestion are tried against (variant).         *)
InterruptedForGood ==
    [requested   |-> {"starting", "active", "failed", "interrupted"},
     starting    |-> {"active", "failed", "interrupted"},
     active      |-> {"stopping", "completed", "failed", "interrupted"},
     stopping    |-> {"completed", "failed", "interrupted"},
     completed   |-> {},
     failed      |-> {},
     interrupted |-> {}]

SESSION_TRANSITIONS ==
    [requested   |-> {"starting", "active", "failed", "interrupted"},
     starting    |-> {"active", "failed", "interrupted"},
     active      |-> {"stopping", "completed", "failed", "interrupted"},
     stopping    |-> {"completed", "failed", "interrupted"},
     completed   |-> {},
     failed      |-> {},
     interrupted |-> {"failed", "completed"}]

TRANSACTION_TRANSITIONS ==
    [open       |-> {"closing", "closed", "failed"},
     closing    |-> {"closed", "failed"},
     closed     |-> {"reconciled", "failed"},
     reconciled |-> {},
     failed     |-> {}]

(* What _validate_transition lets through.                                   *)
Allowed(table, previous, current) ==
    previous = current \/ current \in table[previous]

(* The connector state an OCPP 1.6 status stands for; any other status       *)
(* leaves the connector as it is.                                            *)
status_map ==
    [Available   |-> "available",     Occupied      |-> "occupied",
     Charging    |-> "charging",      SuspendedEV   |-> "suspended_ev",
     SuspendedEVSE |-> "suspended_evse", Finishing  |-> "finishing",
     Reserved    |-> "reserved",      Unavailable   |-> "unavailable",
     Faulted     |-> "faulted"]

ReportedState(status, current) ==
    IF status \in DOMAIN status_map THEN status_map[status] ELSE current

(* The station state and online flag a StatusNotification of any of its      *)
(* connectors sets.                                                          *)
StationStateFor(status) ==
    CASE status = "Unavailable" -> "offline"
      [] status = "Faulted"     -> "faulted"
      [] OTHER                  -> "online"

=============================================================================
