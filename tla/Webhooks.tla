------------------------------ MODULE Webhooks ------------------------------
(* Partner webhooks (app/api/routes/partner.py, app/services/webhooks.py) on *)
(* top of the outbox. A delivery whose signature holds is looked up by its   *)
(* event id, and stored with an outbox row in one commit. The partner may    *)
(* deliver again what it got no answer to, to any backend. Between the       *)
(* lookup and the commit a handler does not await, so two deliveries of one  *)
(* event interleave only between backends. A delivery without a valid        *)
(* signature is refused before it reads or writes anything.                  *)
EXTENDS Outbox

CONSTANTS
    Deliveries,     (* X-Event-Id of the partner's events                    *)
    Backends        (* backend processes                                     *)

VARIABLES
    partnerEvents,  (* the event ids that have a row in partner_events       *)
    origin,         (* the partner event an outbox row was enqueued for      *)
    inserting,      (* the event each backend has looked up and not found    *)
    answered        (* the events a partner knows to be received             *)

partner == <<partnerEvents, origin, inserting, answered>>

WebhooksTypeOK ==
    /\ TypeOK
    /\ partnerEvents \subseteq Deliveries
    /\ origin \in [Events -> Deliveries \cup {None}]
    /\ inserting \in [Backends -> Deliveries \cup {None}]
    /\ answered \subseteq Deliveries

ASSUME DeliveriesAssumption == None \notin Deliveries

-----------------------------------------------------------------------------
WebhooksInit ==
    /\ Init
    /\ partnerEvents = {}
    /\ origin = [e \in Events |-> None]
    /\ inserting = [b \in Backends |-> None]
    /\ answered = {}

ExistingOrBegun(id) == \/ id \in partnerEvents
                       \/ \E b \in Backends : inserting[b] = id
                                                               (* variant *)

(* The row the lookup finds.                                                 *)
Existing(id) == id \in partnerEvents

Unconstrained(id) == FALSE                                     (* variant *)

(* The unique constraint on partner_events.event_id.                         *)
Violates(id) == id \in partnerEvents

Lookup(b, id) ==
    /\ inserting[b] = None
    /\ ~Existing(id)
    /\ inserting' = [inserting EXCEPT ![b] = id]
    /\ UNCHANGED <<vars, partnerEvents, origin, answered>>

(* 409: the partner need not deliver the event again. An answer that is lost *)
(* leaves everything as it was.                                              *)
AnswerDuplicate(b, id) ==
    /\ inserting[b] = None
    /\ Existing(id)
    /\ answered' = answered \cup {id}
    /\ UNCHANGED <<vars, partnerEvents, origin, inserting>>

(* The commit, with an answer that may be lost. The worker will mark the     *)
(* partner event as processed.                                               *)
StoreWebhook(b, e) ==
    /\ inserting[b] # None
    /\ e \in Tracked
    /\ ~Violates(inserting[b])
    /\ Enqueue(e)
    /\ partnerEvents' = partnerEvents \cup {inserting[b]}
    /\ origin' = [origin EXCEPT ![e] = inserting[b]]
    /\ answered' \in {answered, answered \cup {inserting[b]}}
    /\ inserting' = [inserting EXCEPT ![b] = None]

(* The insert violates the constraint, which the route answers with 500, or  *)
(* the process dies.                                                         *)
StoreFails(b) ==
    /\ inserting[b] # None
    /\ inserting' = [inserting EXCEPT ![b] = None]
    /\ UNCHANGED <<vars, partnerEvents, origin, answered>>

(* Everything else: events of other origins, workers, admins and time.       *)
OutboxStep == Next /\ UNCHANGED partner

WebhooksNext ==
    \/ \E b \in Backends, id \in Deliveries : Lookup(b, id)
    \/ \E b \in Backends, id \in Deliveries : AnswerDuplicate(b, id)
    \/ \E b \in Backends, e \in Events : StoreWebhook(b, e)
    \/ \E b \in Backends : StoreFails(b)
    \/ OutboxStep

WebhooksSpec == WebhooksInit /\ [][WebhooksNext]_<<vars, partner>>

-----------------------------------------------------------------------------
(* Properties, for any number of backends and workers.                       *)

RowsOf(id) == {e \in created : origin[e] = id}

(* An event is accepted once: however often and wherever it is delivered, it *)
(* has one outbox row from the commit that stores it, and none before        *)
(* (webhooks.py:39-62).                                                      *)
AcceptedOnce ==
    \A id \in Deliveries :
        IF id \in partnerEvents THEN \E e \in Events : RowsOf(id) = {e}
                                ELSE RowsOf(id) = {}

(* A partner that was told an event is received, or a duplicate, can forget  *)
(* it: an outbox row stands for it (webhooks.py:39-41, partner.py:27-34).    *)
AnsweredIsStored ==
    \A id \in answered : \E e \in created : origin[e] = id

=============================================================================
