------------------------------- MODULE MCTrail -------------------------------
(* Instances of Trail for TLC, with the rows of MCIngestion.                 *)
EXTENDS MCIngestion, Trail

(* Reports of presence, and a session metered: samples sent again in frames  *)
(* of their own, while its transaction is open or over.                      *)
TrailCalls ==
    PresenceCalls \cup
    {Meter(None, 10, <<"a", "b">>), Meter(None, 10, <<"b", "c">>),
     Stop(2, 10)}

ReportCalls == {Heartbeat(None), Status(None, 1, "Faulted")}

=============================================================================
