------------------------------ MODULE Delivery ------------------------------
(* What the outbox promises the rest of the system, with no rows, locks,     *)
(* batches or workers: an accepted event stays open until it is delivered    *)
(* or given up, its effect is in place once it is delivered, and a settled   *)
(* event is opened again only by an admin who asked for it.                  *)

CONSTANTS
    Events,   (* the events                                                  *)
    Tracked   (* the events whose delivery has an effect to put in place     *)

VARIABLES
    phase,    (* absent, open, delivered or given up, for each event         *)
    effect,   (* the events whose effect is in place                         *)
    asked     (* the event an admin has asked to deliver again, as a set     *)

vars == <<phase, effect, asked>>

Init ==
    /\ phase = [e \in Events |-> "absent"]
    /\ effect = {}
    /\ asked = {}

Accept(e) ==
    /\ phase[e] = "absent"
    /\ phase' = [phase EXCEPT ![e] = "open"]
    /\ UNCHANGED <<effect, asked>>

Deliver(e) ==
    /\ phase[e] = "open"
    /\ phase' = [phase EXCEPT ![e] = "delivered"]
    /\ effect' = effect \cup ({e} \cap Tracked)
    /\ UNCHANGED asked

(* An attempt that fails may leave the effect behind.                        *)
Fail(e) ==
    /\ phase[e] = "open"
    /\ phase' \in {phase, [phase EXCEPT ![e] = "given_up"]}
    /\ effect' \in {effect, effect \cup ({e} \cap Tracked)}
    /\ UNCHANGED asked

Ask(e) ==
    /\ asked = {}
    /\ phase[e] # "absent"
    /\ asked' = {e}
    /\ UNCHANGED <<phase, effect>>

(* What was asked when the event was open may find it settled by then, and   *)
(* leave it so.                                                              *)
Reopen(e) ==
    /\ e \in asked
    /\ asked' = {}
    /\ phase' \in {phase, [phase EXCEPT ![e] = "open"]}
    /\ UNCHANGED effect

Next == \E e \in Events :
           Accept(e) \/ Deliver(e) \/ Fail(e) \/ Ask(e) \/ Reopen(e)

Spec == Init /\ [][Next]_vars

=============================================================================
