--------------------------- MODULE WebhooksProofs ---------------------------
(* Theorems about Webhooks, for any number of partner events, backends and   *)
(* workers and any limits, and for the console's reading on top of it.       *)
EXTENDS Listing, TimelyProofs

(* The strengthening: an event the partner knows of has its row, and only    *)
(* enqueued rows have an origin.                                             *)
WebhooksInv ==
    /\ WebhooksTypeOK
    /\ AcceptedOnce
    /\ answered \subseteq partnerEvents
    /\ \A e \in Events \ created : origin[e] = None

-----------------------------------------------------------------------------
(* The rest of the outbox enqueues a row, or leaves them as they are.        *)
LEMMA EnqueuedRows ==
    ASSUME [Next]_vars
    PROVE  created' = created \/ \E e \in Events : created' = created \cup {e}
BY DEF Next, vars, Enqueue, Recover, Claim, Load, StoreProcessed, StoreFailed,
   Crash, RetryLoad, AckLoad, RetryCommit, AckCommit, BackoffElapses, LockAges

(* Every step of the composition is one of the outbox, or leaves it alone.   *)
LEMMA OutboxStepLemma ==
    [WebhooksNext]_<<vars, partner>> => [Next]_vars
<1> SUFFICES ASSUME [WebhooksNext]_<<vars, partner>>
             PROVE  [Next]_vars
    OBVIOUS
<1>1. ASSUME NEW b \in Backends, NEW e \in Events, StoreWebhook(b, e)
      PROVE  Next
    BY <1>1 DEF StoreWebhook, Next
<1> QED
    BY <1>1 DEF WebhooksNext, Lookup, AnswerDuplicate, StoreFails, OutboxStep

LEMMA WebhooksInitInv ==
    WebhooksInit => WebhooksInv
<1> SUFFICES ASSUME WebhooksInit
             PROVE  WebhooksInv
    OBVIOUS
<1>1. TypeOK
    <2>1. NewRow \in Row
        BY OutboxAssumption DEF OutboxAssumption, NewRow, Row
    <2> QED
        BY <2>1 DEF WebhooksInit, Init, TypeOK
<1> QED
    BY <1>1, DeliveriesAssumption
    DEF DeliveriesAssumption, WebhooksInit, Init, WebhooksInv, WebhooksTypeOK,
        AcceptedOnce, RowsOf

LEMMA WebhooksStep ==
    WebhooksInv /\ [WebhooksNext]_<<vars, partner>> => WebhooksInv'
<1> SUFFICES ASSUME WebhooksInv, [WebhooksNext]_<<vars, partner>>
             PROVE  WebhooksInv'
    OBVIOUS
<1>1. TypeOK'
    BY OutboxStepLemma, TypeStep DEF WebhooksInv, WebhooksTypeOK
<1>2. ASSUME UNCHANGED <<created, partnerEvents, origin>>,
             inserting' \in [Backends -> Deliveries \cup {None}],
             answered' \subseteq partnerEvents
      PROVE  WebhooksInv'
    BY <1>1, <1>2 DEF WebhooksInv, WebhooksTypeOK, AcceptedOnce, RowsOf
<1>3. ASSUME NEW b \in Backends, NEW id \in Deliveries,
             Lookup(b, id) \/ AnswerDuplicate(b, id)
      PROVE  WebhooksInv'
    BY <1>2, <1>3
    DEF Lookup, AnswerDuplicate, Existing, vars, WebhooksInv, WebhooksTypeOK
<1>4. ASSUME NEW b \in Backends, StoreFails(b)
      PROVE  WebhooksInv'
    BY <1>2, <1>4 DEF StoreFails, vars, WebhooksInv, WebhooksTypeOK
<1>5. ASSUME NEW b \in Backends, NEW e \in Events, StoreWebhook(b, e)
      PROVE  WebhooksInv'
    <2> DEFINE d == inserting[b]
    <2>1. /\ d \in Deliveries /\ d # None /\ d \notin partnerEvents
          /\ e \notin created /\ created' = created \cup {e}
          /\ partnerEvents' = partnerEvents \cup {d}
          /\ origin' = [origin EXCEPT ![e] = d]
        BY <1>5 DEF StoreWebhook, Violates, Enqueue, WebhooksInv, WebhooksTypeOK
    <2>2. WebhooksTypeOK'
        BY <1>1, <1>5, <2>1 DEF StoreWebhook, WebhooksInv, WebhooksTypeOK
    <2>3. created \subseteq Events /\ origin \in [Events -> Deliveries \cup {None}]
        BY DEF WebhooksInv, WebhooksTypeOK, TypeOK
    <2>4. ASSUME NEW id \in Deliveries
          PROVE  RowsOf(id)' = IF id = d THEN RowsOf(id) \cup {e} ELSE RowsOf(id)
        BY <2>1, <2>3 DEF RowsOf
    <2>5. AcceptedOnce'
        <3> SUFFICES ASSUME NEW id \in Deliveries
                     PROVE  IF id \in partnerEvents'
                            THEN \E f \in Events : RowsOf(id)' = {f}
                            ELSE RowsOf(id)' = {}
            BY DEF AcceptedOnce
        <3>1. IF id \in partnerEvents THEN \E f \in Events : RowsOf(id) = {f}
                                      ELSE RowsOf(id) = {}
            BY DEF WebhooksInv, AcceptedOnce
        <3> QED
            BY <2>1, <2>4, <3>1
    <2>6. answered' \subseteq partnerEvents'
        BY <1>5, <2>1 DEF StoreWebhook, WebhooksInv
    <2>7. \A f \in Events \ created' : origin'[f] = None
        BY <2>1, <2>3 DEF WebhooksInv
    <2> QED
        BY <2>2, <2>5, <2>6, <2>7 DEF WebhooksInv
<1>6. CASE OutboxStep \/ UNCHANGED <<vars, partner>>
    <2>1. UNCHANGED partner /\ [Next]_vars
        BY <1>6 DEF OutboxStep
    <2>2. created' = created \/ \E e \in Events : created' = created \cup {e}
        BY <2>1, EnqueuedRows
    <2>3. ASSUME NEW id \in Deliveries
          PROVE  RowsOf(id)' = RowsOf(id)
        <3>1. id # None
            BY DeliveriesAssumption DEF DeliveriesAssumption
        <3>2. \A e \in Events \ created : origin[e] # id
            BY <3>1 DEF WebhooksInv
        <3>3. origin' = origin
            BY <2>1 DEF partner
        <3> QED
            BY <2>2, <3>2, <3>3 DEF RowsOf
    <2> QED
        BY <1>1, <2>1, <2>2, <2>3
        DEF partner, WebhooksInv, WebhooksTypeOK, AcceptedOnce
<1> QED
    BY <1>3, <1>4, <1>5, <1>6 DEF WebhooksNext

THEOREM WebhooksInvAlways ==
    WebhooksSpec => []WebhooksInv
BY WebhooksInitInv, WebhooksStep, PTL DEF WebhooksSpec

-----------------------------------------------------------------------------
(* Accepting webhooks is enqueueing events: what is proved of the outbox     *)
(* holds with partners and several backends.                                 *)
THEOREM WebhooksImplementOutbox ==
    WebhooksSpec => Spec
<1>1. WebhooksInit => Init
    BY DEF WebhooksInit
<1> QED
    BY <1>1, OutboxStepLemma, PTL DEF WebhooksSpec, Spec

(* Each event has one outbox row from the commit that stores it, however     *)
(* many backends it is delivered to (webhooks.py:39-62).                     *)
THEOREM AlwaysAcceptedOnce ==
    WebhooksSpec => []AcceptedOnce
<1>1. WebhooksInv => AcceptedOnce
    BY DEF WebhooksInv
<1> QED
    BY <1>1, WebhooksInvAlways, PTL

(* What a partner was told is received stays stored (webhooks.py:39-41,      *)
(* partner.py:27-34).                                                        *)
THEOREM AnsweredAlwaysStored ==
    WebhooksSpec => []AnsweredIsStored
<1>1. WebhooksInv => AnsweredIsStored
    <2> SUFFICES ASSUME WebhooksInv, NEW id \in answered
                 PROVE  \E e \in created : origin[e] = id
        BY DEF AnsweredIsStored
    <2>1. id \in partnerEvents /\ id \in Deliveries
        BY DEF WebhooksInv, WebhooksTypeOK
    <2>2. PICK e \in Events : RowsOf(id) = {e}
        BY <2>1 DEF WebhooksInv, AcceptedOnce
    <2> QED
        BY <2>2 DEF RowsOf
<1> QED
    BY <1>1, WebhooksInvAlways, PTL

(* Webhooks enqueue only events whose processing marks the partner event.    *)
OriginTracked == \A e \in Events \ Tracked : origin[e] = None

LEMMA OriginKept ==
    WebhooksInv /\ OriginTracked /\ [WebhooksNext]_<<vars, partner>>
        => OriginTracked'
<1> SUFFICES ASSUME WebhooksInv, OriginTracked,
                    [WebhooksNext]_<<vars, partner>>
             PROVE  OriginTracked'
    OBVIOUS
<1>1. ASSUME NEW b \in Backends, NEW e \in Events, StoreWebhook(b, e)
      PROVE  OriginTracked'
    <2>1. e \in Tracked /\ origin' = [origin EXCEPT ![e] = inserting[b]]
        BY <1>1 DEF StoreWebhook
    <2> QED
        BY <2>1 DEF OriginTracked, WebhooksInv, WebhooksTypeOK
<1>2. CASE origin' = origin
    BY <1>2 DEF OriginTracked
<1> QED
    BY <1>1, <1>2
    DEF WebhooksNext, Lookup, AnswerDuplicate, StoreFails, OutboxStep, partner

(* What an answer is worth: the event a partner was told is received has one *)
(* outbox row, and once that row is processed the partner event is marked as *)
(* processed too, however many workers, backends and deliveries there are    *)
(* (partner.py:27-34, webhooks.py:39-62, services/outbox.py:30-46).          *)
THEOREM AnsweredTakesEffect ==
    WebhooksSpec =>
        [](\A id \in answered : \E e \in created \cap Tracked :
              /\ RowsOf(id) = {e}
              /\ rows[e].status = "processed" => e \in subject)
<1>1. WebhooksInit => OriginTracked
    BY DEF WebhooksInit, OriginTracked
<1>2. WebhooksInv /\ OriginTracked /\ ProcessedMeansMarked =>
         \A id \in answered : \E e \in created \cap Tracked :
            /\ RowsOf(id) = {e}
            /\ rows[e].status = "processed" => e \in subject
    <2> SUFFICES ASSUME WebhooksInv, OriginTracked, ProcessedMeansMarked,
                        NEW id \in answered
                 PROVE  \E e \in created \cap Tracked :
                           /\ RowsOf(id) = {e}
                           /\ rows[e].status = "processed" => e \in subject
        OBVIOUS
    <2>1. id \in partnerEvents /\ id \in Deliveries
        BY DEF WebhooksInv, WebhooksTypeOK
    <2>2. PICK e \in Events : RowsOf(id) = {e}
        BY <2>1 DEF WebhooksInv, AcceptedOnce
    <2>3. e \in created /\ origin[e] = id
        BY <2>2 DEF RowsOf
    <2>4. id # None
        BY <2>1, DeliveriesAssumption DEF DeliveriesAssumption
    <2>5. e \in Tracked
        BY <2>3, <2>4 DEF OriginTracked
    <2> QED
        BY <2>2, <2>3, <2>5 DEF ProcessedMeansMarked
<1> QED
    BY <1>1, <1>2, OriginKept, WebhooksInvAlways, WebhooksImplementOutbox,
       ProcessedIsMarked, PTL DEF WebhooksSpec

(* With workers that are timely, partner events are delivered as the outbox  *)
(* promises: each stays open until it is delivered with its effect or given  *)
(* up, and a settled one is opened again only by an admin (webhooks.py:39-62,*)
(* services/outbox.py:24-60).                                                *)
THEOREM PartnerEventsKeepContract ==
    WebhooksSpec /\ Timely => KeepsContract
BY WebhooksImplementOutbox, TimelyImplementsDelivery, PTL

(* Reading the lists disturbs nothing: with it, webhooks and outbox behave   *)
(* as without (resources.py:284-355).                                        *)
THEOREM ListingImplementsWebhooks ==
    ListingSpec => WebhooksSpec
<1>1. ListingInit => WebhooksInit
    BY DEF ListingInit
<1>2. [ListingNext]_<<vars, partner, reading>> =>
          [WebhooksNext]_<<vars, partner>>
    BY DEF ListingNext, BeginList, CountRows, ReadPage, Others
<1> QED
    BY <1>1, <1>2, PTL DEF ListingSpec, WebhooksSpec

=============================================================================
