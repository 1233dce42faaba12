------------------------------- MODULE Outbox -------------------------------
(* The transactional outbox: rows of outbox_events written by the ingestion  *)
(* handlers, claimed, processed, retried and dead-lettered by the polling    *)
(* worker (app/worker.py, app/services/outbox.py,                            *)
(* app/repositories/outbox.py), and retried or acknowledged by an admin      *)
(* (app/api/routes/admin.py).                                                *)
(*                                                                           *)
(* A worker and the backend are separate processes that share the database.  *)
(* Every commit is one action; where a handler loads a row in one statement  *)
(* and writes it in a later one, the load is an action of its own and the    *)
(* copy it took is part of the state, because the other process may commit   *)
(* in between.                                                               *)
EXTENDS Integers, FiniteSets, UnitOfWork

CONSTANTS
    Workers,      (* worker processes                                        *)
    Events,       (* ids of outbox rows, numbered in the order of created_at *)
    Tracked,      (* events of type ocpp.* or partner.*, whose processing    *)
                  (* marks a message or partner event as processed           *)
    MaxAttempts,  (* OutboxEvent.max_attempts                                *)
    BatchLimit,   (* the limit the worker passes to claim_due                *)
    AdminEvents,  (* bound: events the admin may retry or acknowledge        *)
    AgingEvents,  (* bound: events whose lock may grow older than the        *)
                  (* 300 s of recover_stale_processing                       *)
    None          (* SQL NULL, an absent copy                                *)

ASSUME OutboxAssumption ==
    /\ Events \subseteq Nat
    /\ Tracked \subseteq Events
    /\ AdminEvents \subseteq Events
    /\ AgingEvents \subseteq Events
    /\ MaxAttempts \in Nat \ {0}
    /\ BatchLimit \in Nat \ {0}

VARIABLES
    created,   (* events whose row has been committed                        *)
    rows,      (* outbox_events: one row per event                           *)
    subject,   (* the events whose message or partner event is processed     *)
    pc,        (* the statement of the polling loop a worker is at           *)
    batch,     (* claimed events a worker has still to process               *)
    work,      (* the event a worker is processing, with the row it loaded   *)
    admin      (* the admin request in flight, with the row it loaded        *)

vars == <<created, rows, subject, pc, batch, work, admin>>

(* Timestamps are kept as what the queries compare them with: next_attempt_at *)
(* lies in the future ("later") or not ("due"), locked_at is younger than     *)
(* the recovery threshold ("fresh") or not ("stale").                         *)
Row == [status    : {"pending", "processing", "retrying", "processed",
                     "dead_lettered"},
        attempts  : 0 .. MaxAttempts - 1,
        next      : {None, "later", "due"},
        lockedAt  : {None, "fresh", "stale"},
        lockedBy  : Workers \cup {None},
        acked     : BOOLEAN]

Work == [event : Events, copy : Row]

Request == [op : {"retry", "ack"}, event : Events, copy : Row]

ASSUME NoneAssumption ==
    None \notin Workers \cup {"later", "due", "fresh", "stale"} \cup Request

TypeOK ==
    /\ created \subseteq Events
    /\ rows \in [Events -> Row]
    /\ subject \subseteq Tracked
    /\ pc \in [Workers -> {"recover", "claim", "drain"}]
    /\ batch \in [Workers -> SUBSET Events]
    /\ work \in [Workers -> Work \cup {None}]
    /\ admin \in Request \cup {None}

-----------------------------------------------------------------------------
(* Operations on a row, as the repository and the admin routes assign it.    *)

NewRow == [status |-> "pending", attempts |-> 0, next |-> None,
           lockedAt |-> None, lockedBy |-> None, acked |-> FALSE]

Unlock(row) == [row EXCEPT !.lockedAt = None, !.lockedBy = None]

(* Operators marked (variant) are defects the properties are tried against; *)
(* no specification uses them.                                              *)

LockUntimed(row, w) == [row EXCEPT !.status = "processing", !.lockedBy = w]
                                                               (* variant *)

Lock(row, w) == [row EXCEPT !.status = "processing", !.lockedAt = "fresh",
                            !.lockedBy = w]

MarkProcessed(row) == [Unlock(row) EXCEPT !.status = "processed"]

MarkRetryingOwned(row) == [row EXCEPT !.status = "retrying",
                                      !.attempts = row.attempts + 1,
                                      !.next = "later",
                                      !.lockedAt = None]       (* variant *)

MarkRetrying(row) == [Unlock(row) EXCEPT !.status = "retrying",
                                         !.attempts = row.attempts + 1,
                                         !.next = "later"]

MarkDeadLettered(row) == [Unlock(row) EXCEPT !.status = "dead_lettered"]

RecoverStaleLocks(row) == [Unlock(row) EXCEPT !.next = "due"]  (* variant *)

RecoverStale(row) == [Unlock(row) EXCEPT !.status = "retrying", !.next = "due"]

Requeue(row) == [Unlock(row) EXCEPT !.status = "pending", !.next = None,
                                    !.attempts = 0]

Acknowledge(row) == [Unlock(row) EXCEPT !.acked = TRUE]

(* The row after a session that loaded `copy' and assigned `obj' commits.    *)
Saved(row, copy, obj) ==
    [status    |-> NetChange(row.status, copy.status, obj.status),
     attempts  |-> NetChange(row.attempts, copy.attempts, obj.attempts),
     next      |-> NetChange(row.next, copy.next, obj.next),
     lockedAt  |-> NetChange(row.lockedAt, copy.lockedAt, obj.lockedAt),
     lockedBy  |-> NetChange(row.lockedBy, copy.lockedBy, obj.lockedBy),
     acked     |-> NetChange(row.acked, copy.acked, obj.acked)]

(* A column assigned from the clock always differs from the copy, so it is   *)
(* written even where the abstract value is the one that was loaded.         *)
SavedRetrying(row, copy) == [Saved(row, copy, MarkRetrying(copy)) EXCEPT
                                !.next = "later"]

SavedAcknowledged(row, copy) == [Saved(row, copy, Acknowledge(copy)) EXCEPT
                                    !.acked = TRUE]

-----------------------------------------------------------------------------
(* What the queries select.                                                  *)

Waiting(row) == row.next \in {None, "due"}

DueUnlessLocked(e) == /\ e \in created
                      /\ rows[e].lockedAt = None
                      /\ Waiting(rows[e])                      (* variant *)

DueWhileProcessing(e) == /\ e \in created
                         /\ rows[e].status \in {"pending", "processing",
                                                "retrying"}
                         /\ Waiting(rows[e])                   (* variant *)

Due(e) == /\ e \in created
          /\ rows[e].status \in {"pending", "retrying"}
          /\ Waiting(rows[e])

(* The check acknowledge_dead_letter makes on the row it loaded.             *)
AcknowledgeAny(row) == TRUE                                    (* variant *)

MayAcknowledge(row) == row.status = "dead_lettered"

(* What processing an event marks.                                           *)
EffectForgotten(e) == {}                                       (* variant *)

Effect(e) == {e} \cap Tracked

Stale(e) == /\ e \in created
            /\ rows[e].status = "processing"
            /\ rows[e].lockedAt = "stale"

Oldest(S) == {e \in S : Cardinality({f \in S : f < e}) < BatchLimit}

(* Rows another transaction may hold a row lock on while it commits: SKIP    *)
(* LOCKED passes over them.                                                  *)
Held(w) == {e \in Events : \/ admin # None /\ admin.event = e
                           \/ \E v \in Workers \ {w} :
                                 work[v] # None /\ work[v].event = e}

-----------------------------------------------------------------------------
Init ==
    /\ created = {}
    /\ rows = [e \in Events |-> NewRow]
    /\ subject = {}
    /\ pc = [w \in Workers |-> "recover"]
    /\ batch = [w \in Workers |-> {}]
    /\ work = [w \in Workers |-> None]
    /\ admin = None

(* The transaction that stores a message, a webhook or a seed commits, its   *)
(* outbox row with it.                                                       *)
Enqueue(e) ==
    /\ e \notin created
    /\ created' = created \cup {e}
    /\ rows' = [rows EXCEPT ![e] = NewRow]
    /\ UNCHANGED <<subject, pc, batch, work, admin>>

-----------------------------------------------------------------------------
(* The worker.                                                               *)

Recover(w) ==
    /\ pc[w] = "recover"
    /\ pc' = [pc EXCEPT ![w] = "claim"]
    /\ rows' = [e \in Events |-> IF Stale(e) THEN RecoverStale(rows[e])
                                 ELSE rows[e]]
    /\ UNCHANGED <<created, subject, batch, work, admin>>

Claim(w) ==
    /\ pc[w] = "claim"
    /\ \E skipped \in SUBSET {e \in Held(w) : Due(e)} :
          LET claimed == Oldest({e \in Events : Due(e)} \ skipped)
          IN  /\ rows' = [e \in Events |-> IF e \in claimed
                                           THEN Lock(rows[e], w) ELSE rows[e]]
              /\ batch' = [batch EXCEPT ![w] = claimed]
              /\ pc' = [pc EXCEPT ![w] = IF claimed = {} THEN "recover"
                                         ELSE "drain"]
    /\ UNCHANGED <<created, subject, work, admin>>

(* The commit of the claim, and each later one, expires the worker's rows:   *)
(* the first attribute process_outbox_event reads loads the row again.       *)
Load(w) ==
    /\ pc[w] = "drain"
    /\ work[w] = None
    /\ \E e \in batch[w] :
          /\ \A f \in batch[w] : e <= f
          /\ work' = [work EXCEPT ![w] = [event |-> e, copy |-> rows[e]]]
    /\ UNCHANGED <<created, rows, subject, pc, batch, admin>>

(* The loop goes on with the rest of the batch, or sleeps and polls again.   *)
Advance(w) ==
    LET rest == batch[w] \ {work[w].event}
    IN  /\ work' = [work EXCEPT ![w] = None]
        /\ batch' = [batch EXCEPT ![w] = rest]
        /\ pc' = [pc EXCEPT ![w] = IF rest = {} THEN "recover" ELSE "drain"]

StoreProcessed(w) ==
    /\ work[w] # None
    /\ LET e    == work[w].event
           copy == work[w].copy
       IN  /\ rows' = [rows EXCEPT ![e] =
                         Saved(rows[e], copy, MarkProcessed(copy))]
           /\ subject' = subject \cup Effect(e)
    /\ Advance(w)
    /\ UNCHANGED <<created, admin>>

(* The row after a failed attempt on the row loaded as `copy'.               *)
SavedFailedLate(row, copy) ==
    IF copy.attempts >= MaxAttempts
    THEN Saved(row, copy, MarkDeadLettered(copy))
    ELSE SavedRetrying(row, copy)                              (* variant *)

SavedFailed(row, copy) ==
    IF copy.attempts + 1 >= MaxAttempts
    THEN Saved(row, copy, MarkDeadLettered(copy))
    ELSE SavedRetrying(row, copy)

(* The handler raised. Nothing is rolled back, so if it had marked the       *)
(* message already (`marked') the same commit stores that too.               *)
StoreFailed(w) ==
    /\ work[w] # None
    /\ LET e == work[w].event
       IN  /\ rows' = [rows EXCEPT ![e] = SavedFailed(rows[e], work[w].copy)]
           /\ \E marked \in SUBSET Effect(e) :
                 subject' = subject \cup marked
    /\ Advance(w)
    /\ UNCHANGED <<created, admin>>

(* The process dies, or a database error escapes process_outbox_event, and   *)
(* the container restarts: what it had claimed stays claimed.                *)
Crash(w) ==
    /\ pc[w] # "recover"
    /\ pc' = [pc EXCEPT ![w] = "recover"]
    /\ batch' = [batch EXCEPT ![w] = {}]
    /\ work' = [work EXCEPT ![w] = None]
    /\ UNCHANGED <<created, rows, subject, admin>>

-----------------------------------------------------------------------------
(* The admin. The backend runs one handler at a time, so one request at a    *)
(* time is between its load and its commit.                                  *)

RetryLoad(e) ==
    /\ admin = None
    /\ e \in created \cap AdminEvents
    /\ admin' = [op |-> "retry", event |-> e, copy |-> rows[e]]
    /\ UNCHANGED <<created, rows, subject, pc, batch, work>>

AckLoad(e) ==
    /\ admin = None
    /\ e \in created \cap AdminEvents
    /\ MayAcknowledge(rows[e])
    /\ admin' = [op |-> "ack", event |-> e, copy |-> rows[e]]
    /\ UNCHANGED <<created, rows, subject, pc, batch, work>>

RetryCommit ==
    /\ admin # None
    /\ admin.op = "retry"
    /\ rows' = [rows EXCEPT ![admin.event] =
                  Saved(@, admin.copy, Requeue(admin.copy))]
    /\ admin' = None
    /\ UNCHANGED <<created, subject, pc, batch, work>>

AckCommit ==
    /\ admin # None
    /\ admin.op = "ack"
    /\ rows' = [rows EXCEPT ![admin.event] = SavedAcknowledged(@, admin.copy)]
    /\ admin' = None
    /\ UNCHANGED <<created, subject, pc, batch, work>>

-----------------------------------------------------------------------------
(* Time.                                                                     *)

BackoffElapses(e) ==
    /\ rows[e].next = "later"
    /\ rows' = [rows EXCEPT ![e].next = "due"]
    /\ UNCHANGED <<created, subject, pc, batch, work, admin>>

LockAges(e) ==
    /\ e \in AgingEvents
    /\ rows[e].lockedAt = "fresh"
    /\ rows' = [rows EXCEPT ![e].lockedAt = "stale"]
    /\ UNCHANGED <<created, subject, pc, batch, work, admin>>

-----------------------------------------------------------------------------
Store(w) == StoreProcessed(w) \/ StoreFailed(w)

WorkerStep(w) == Recover(w) \/ Claim(w) \/ Load(w) \/ Store(w)

AdminCommit == RetryCommit \/ AckCommit

Next ==
    \/ \E e \in Events : Enqueue(e)
    \/ \E w \in Workers : Recover(w)
    \/ \E w \in Workers : Claim(w)
    \/ \E w \in Workers : Load(w)
    \/ \E w \in Workers : StoreProcessed(w)
    \/ \E w \in Workers : StoreFailed(w)
    \/ \E w \in Workers : Crash(w)
    \/ \E e \in Events : RetryLoad(e)
    \/ \E e \in Events : AckLoad(e)
    \/ RetryCommit
    \/ AckCommit
    \/ \E e \in Events : BackoffElapses(e)
    \/ \E e \in Events : LockAges(e)

Spec == Init /\ [][Next]_vars

(* The loop polls for ever and a restarted worker resumes it; a request that *)
(* loaded its row runs to its commit; timestamps pass. Nothing makes a       *)
(* message arrive, an admin act or a worker crash.                           *)
Fairness ==
    /\ \A w \in Workers : WF_vars(WorkerStep(w))
    /\ WF_vars(AdminCommit)
    /\ \A e \in Events : WF_vars(BackoffElapses(e)) /\ WF_vars(LockAges(e))

FairSpec == Spec /\ Fairness

-----------------------------------------------------------------------------
(* Properties, for any number of workers.                                    *)

(* A row names the worker that locked it exactly as long as it is locked:    *)
(* three writers (worker, recovery, admin) clear the two columns, each from  *)
(* a copy that may be older than the row (outbox.py:64-107, admin.py:111).   *)
LockPair ==
    \A e \in Events : rows[e].lockedAt = None <=> rows[e].lockedBy = None

(* "processed" is never stored ahead of the effect it stands for, whichever  *)
(* worker stores it and however old its copy is (services/outbox.py:30-46).  *)
ProcessedMeansMarked ==
    \A e \in Tracked : rows[e].status = "processed" => e \in subject

(* Every claim can be recovered: a row in processing that no worker has in   *)
(* its batch carries the lock timestamp recover_stale_processing looks for   *)
(* (repositories/outbox.py:42-62).                                           *)
ClaimsRecoverable ==
    \A e \in Events : rows[e].status = "processing" =>
        \/ rows[e].lockedAt # None
        \/ \E w \in Workers : e \in batch[w]

(* Events whose claims never outlive the recovery threshold and that no      *)
(* admin touches.                                                            *)
Prompt == Events \ (AgingEvents \cup AdminEvents)

(* Such an event is in the hands of one worker, the one its row names,       *)
(* whatever happens to the others (FOR UPDATE SKIP LOCKED,                   *)
(* repositories/outbox.py:32).                                               *)
ClaimExclusive ==
    \A e \in Prompt, w \in Workers : e \in batch[w] =>
        /\ rows[e].status = "processing"
        /\ rows[e].lockedBy = w
        /\ \A v \in Workers : e \in batch[v] => v = w

(* Acknowledging keeps the terminal state: the acknowledgement is stored on  *)
(* a row that is still dead-lettered, although the check was made on the     *)
(* copy loaded before (admin.py:139-141).                                    *)
AckLandsOnDeadLetter ==
    [][AckCommit => rows[admin.event].status = "dead_lettered"]_vars

-----------------------------------------------------------------------------
(* The abstract specification this one implements when one worker runs.      *)

Phase(e) ==
    CASE e \notin created                     -> "absent"
      [] e \in created /\ rows[e].status = "processed"     -> "delivered"
      [] e \in created /\ rows[e].status = "dead_lettered" -> "given_up"
      [] OTHER                                -> "open"

Contract == INSTANCE Delivery WITH
    phase  <- [e \in Events |-> Phase(e)],
    effect <- subject,
    asked  <- {e \in Events : admin # None /\ admin.op = "retry"
                                           /\ admin.event = e}

(* With a single worker, the outbox keeps the delivery contract: no settled  *)
(* event leaves its phase unless an admin retried it, and none is delivered  *)
(* without its effect, through crashes, recovered claims and admin requests  *)
(* that commit over newer rows.                                              *)
KeepsContract == Contract!Spec

-----------------------------------------------------------------------------
(* Liveness.                                                                 *)

Settled(e) == rows[e].status \in {"processed", "dead_lettered"}

(* A step only a crash explains: giving up a batch may look like the end of  *)
(* a poll that found nothing, or of a batch whose last row had moved on.     *)
Crashed(w) == Crash(w) /\ ~Claim(w) /\ ~Store(w)

(* When workers stop crashing, every stored event whose locks may age is in  *)
(* the end processed or dead-lettered, and stays so (worker.py:23-44).       *)
EventsSettle ==
    <>[][\A w \in Workers : ~Crashed(w)]_vars =>
        \A e \in AgingEvents : [](e \in created => <>[]Settled(e))

=============================================================================
