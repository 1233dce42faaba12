------------------------------- MODULE Charge -------------------------------
(* What the backend promises chargers about the transactions they start,     *)
(* with no frames, copies, checksums or tables: a start takes effect at most *)
(* once, its charge is interrupted or completed by itself and never begins   *)
(* again, and a transaction id is given out only for a charge that exists.   *)

CONSTANTS
    Requests,    (* the starts chargers ask for                              *)
    Connectors,  (* the connectors they ask for them on                      *)
    None         (* the connector of a charge that has not begun             *)

VARIABLES
    charge,      (* the connector and the phase of each charge               *)
    told         (* the starts a charger was given a transaction id for      *)

vars == <<charge, told>>

Init ==
    /\ charge = [k \in Requests |-> [connector |-> None, phase |-> "absent"]]
    /\ told = {}

Begin(k, n) ==
    /\ charge[k].phase = "absent"
    /\ charge' = [charge EXCEPT ![k] = [connector |-> n, phase |-> "charging"]]
    /\ UNCHANGED told

Interrupt(k) ==
    /\ charge[k].phase = "charging"
    /\ charge' = [charge EXCEPT ![k].phase = "interrupted"]
    /\ UNCHANGED told

(* What was interrupted may still be completed.                              *)
Complete(k) ==
    /\ charge[k].phase # "absent"
    /\ charge' = [charge EXCEPT ![k].phase = "completed"]
    /\ UNCHANGED told

Tell(k) ==
    /\ charge[k].phase # "absent"
    /\ told' = told \cup {k}
    /\ UNCHANGED charge

Next == \E k \in Requests :
    \/ \E n \in Connectors : Begin(k, n)
    \/ Interrupt(k)
    \/ Complete(k)
    \/ Tell(k)

Spec == Init /\ [][Next]_vars

=============================================================================
