----------------------------- MODULE MCIngestion -----------------------------
(* Instances of Ingestion for TLC: the frames chargers send, and the rows    *)
(* stations start with.                                                      *)
EXTENDS Ingestion

CONSTANTS s1, s2, c1, c2

OneStation == [c \in Connections |-> s1]

EachItsStation == [c \in Connections |-> IF c = c1 THEN s1 ELSE s2]

Unknown == [state |-> "unknown", online |-> FALSE, seen |-> None]

Seen == [state |-> "online", online |-> TRUE, seen |-> "recent"]

AllUnknown == [s \in Stations |-> Unknown]

AllOnline == [s \in Stations |-> Seen]

NoConnectors == [k \in Stations \X Numbers |-> None]

(* Transaction ids that do not depend on the station: the checksums of equal *)
(* message ids of two stations collide.                                      *)
Colliding == [k \in Keys |-> 10 * k[2]]

FirstConnector == {<<s1, 1>>}

(* Connectors of either station started twice and stopped by whoever names   *)
(* the transaction, faulted and freed.                                       *)
SessionCalls ==
    {Start(1, 1), Start(2, 1), Stop(3, 10),
     Status(4, 1, "Faulted"), Status(5, 1, "Available")}

(* The station's presence: frames that come again and again, one of them     *)
(* about a transaction nobody started.                                       *)
PresenceCalls ==
    {Heartbeat(None), Authorize(None), Status(None, 1, "Faulted"),
     Status(None, 1, "Unavailable"), Status(None, 1, "Available"),
     Status(None, 1, "Preparing"), Start(1, 1), Meter(None, 99, <<"a">>),
     Malformed}

StartCalls == {Start(1, 1), Heartbeat(None)}

=============================================================================
