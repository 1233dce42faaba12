---------------------------- MODULE MCSimulator ----------------------------
(* Instances of Simulator for TLC: the scenarios the requests ask for.       *)
EXTENDS Simulator

AllScenarios ==
    {"happy-path-charging-session", "duplicate-meter-value",
     "station-offline-online", "connector-fault", "interrupted-session",
     "partner-webhook"}

HappyPath == {"happy-path-charging-session"}

=============================================================================
