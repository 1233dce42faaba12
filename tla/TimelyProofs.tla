---------------------------- MODULE TimelyProofs ----------------------------
(* Theorems about Outbox for any number of workers that store what they      *)
(* claimed in time. Whatever their number, workers disturb one another only  *)
(* through an event that is still in a batch when its lock grows older than  *)
(* the recovery threshold or when an admin's retry is committed.             *)
EXTENDS OutboxProofs

TimelyStep ==
    \A e \in Events :
        LockAges(e) \/ (RetryCommit /\ admin.event = e) =>
            \A w \in Workers : e \notin batch[w]

Timely == [][TimelyStep]_vars

(* Each event of a batch is its worker's alone, as its row says, and is      *)
(* neither settled nor open to recovery.                                     *)
Owned(w, e) ==
    /\ rows[e].status = "processing"
    /\ rows[e].lockedAt = "fresh"
    /\ rows[e].lockedBy = w
    /\ \A v \in Workers : e \in batch[v] => v = w

TimelyInv ==
    /\ \A w \in Workers : \A e \in batch[w] : Owned(w, e)
    /\ \A w \in Workers : work[w] # None =>
          work[w].copy.status = "processing"
    /\ admin # None /\ admin.op = "ack" =>
          rows[admin.event].status = "dead_lettered"

LEMMA OwnedFrame ==
    ASSUME TimelyInv, \A w \in Workers : batch'[w] \subseteq batch[w],
           \A w \in Workers : \A e \in batch'[w] :
              /\ rows'[e].status = rows[e].status
              /\ rows'[e].lockedAt = rows[e].lockedAt
              /\ rows'[e].lockedBy = rows[e].lockedBy
    PROVE  \A w \in Workers : \A e \in batch'[w] : Owned(w, e)'
BY DEF TimelyInv, Owned

LEMMA TimelyKept ==
    ASSUME TypeOK, LoopInv, TimelyInv, [Next]_vars, [TimelyStep]_vars
    PROVE  TimelyInv'
<1> USE DEF TypeOK
<1>1. ASSUME NEW e \in Events, Enqueue(e)
      PROVE  TimelyInv'
    <2>1. \A w \in Workers : e \notin batch[w]
        BY <1>1 DEF Enqueue, LoopInv
    <2>2. admin # None => admin.event # e
        BY <1>1 DEF Enqueue, LoopInv
    <2>3. \A w \in Workers : \A f \in batch'[w] : Owned(w, f)'
        BY <1>1, <2>1, OwnedFrame DEF Enqueue
    <2> QED
        BY <1>1, <2>2, <2>3 DEF TimelyInv, Enqueue
<1>2. ASSUME NEW w \in Workers, Recover(w)
      PROVE  TimelyInv'
    <2>1. \A e \in Events : Stale(e) \/ rows'[e] = rows[e]
        BY <1>2 DEF Recover
    <2>2. \A v \in Workers : \A e \in batch[v] : rows'[e] = rows[e]
        BY <2>1 DEF TimelyInv, Owned, Stale
    <2>3. admin # None => admin.event \in Events
        BY DEF Request
    <2>4. \A v \in Workers : \A f \in batch'[v] : Owned(v, f)'
        BY <1>2, <2>2, OwnedFrame DEF Recover
    <2> QED
        BY <1>2, <2>1, <2>3, <2>4 DEF TimelyInv, Recover, Stale
<1>3. ASSUME NEW w \in Workers, Claim(w)
      PROVE  TimelyInv'
    <2>1. PICK claimed \in SUBSET {e \in Events : Due(e)} :
             /\ rows' = [e \in Events |-> IF e \in claimed
                                          THEN Lock(rows[e], w) ELSE rows[e]]
             /\ batch' = [batch EXCEPT ![w] = claimed]
        BY <1>3 DEF Claim, Oldest
    <2>2. \A e \in claimed : /\ rows'[e].status = "processing"
                             /\ rows'[e].lockedAt = "fresh"
                             /\ rows'[e].lockedBy = w
        <3>1. \A e \in Events : /\ Lock(rows[e], w).status = "processing"
                                /\ Lock(rows[e], w).lockedAt = "fresh"
                                /\ Lock(rows[e], w).lockedBy = w
            BY DEF Lock, Row
        <3> QED
            BY <2>1, <3>1
    <2>3. \A v \in Workers : \A e \in claimed : e \notin batch[v]
        BY <2>1 DEF Due, TimelyInv, Owned
    <2>4. batch[w] = {}
        BY <1>3 DEF Claim, LoopInv
    <2>5. \A v \in Workers : \A e \in batch'[v] : Owned(v, e)'
        <3>1. \A e \in batch'[w] : Owned(w, e)'
            BY <2>1, <2>2, <2>3 DEF Owned
        <3>2. ASSUME NEW v \in Workers, v # w, NEW e \in batch'[v]
              PROVE  Owned(v, e)'
            <4>1. e \in batch[v] /\ e \notin claimed /\ e \in Events
                BY <2>1, <2>3, <3>2
            <4>2. rows'[e] = rows[e]
                BY <2>1, <4>1
            <4> QED
                BY <2>1, <4>1, <4>2 DEF TimelyInv, Owned
        <3> QED
            BY <3>1, <3>2
    <2>6. \A e \in Events : rows[e].status = "dead_lettered" =>
                               rows'[e] = rows[e]
        BY <2>1 DEF Due
    <2>7. admin # None => admin.event \in Events
        BY DEF Request
    <2> QED
        BY <1>3, <2>5, <2>6, <2>7 DEF TimelyInv, Claim
<1>4. ASSUME NEW w \in Workers, Load(w)
      PROVE  TimelyInv'
    <2>1. PICK e \in batch[w] :
             work' = [work EXCEPT ![w] = [event |-> e, copy |-> rows[e]]]
        BY <1>4 DEF Load
    <2>2. \A v \in Workers : work'[v] # None =>
             work'[v].copy.status = "processing"
        BY <2>1 DEF TimelyInv, Owned
    <2>3. \A v \in Workers : \A f \in batch'[v] : Owned(v, f)'
        BY <1>4, OwnedFrame DEF Load
    <2> QED
        BY <1>4, <2>2, <2>3 DEF TimelyInv, Load
<1>5. ASSUME NEW w \in Workers, StoreProcessed(w) \/ StoreFailed(w)
      PROVE  TimelyInv'
    <2> DEFINE e == work[w].event
    <2>1. e \in batch[w] /\ batch' = [batch EXCEPT ![w] = @ \ {e}]
          /\ work' = [work EXCEPT ![w] = None]
        BY <1>5 DEF LoopInv, StoreProcessed, StoreFailed, Advance
    <2>2. \A f \in Events : f # e => rows'[f] = rows[f]
        BY <1>5 DEF StoreProcessed, StoreFailed
    <2>3. \A v \in Workers : v # w => e \notin batch[v]
        BY <2>1 DEF TimelyInv, Owned
    <2>4. \A v \in Workers : \A f \in batch'[v] : Owned(v, f)'
        <3>1. \A v \in Workers : batch'[v] \subseteq batch[v] /\ e \notin batch'[v]
            BY <2>1, <2>3
        <3> QED
            BY <2>2, <3>1, OwnedFrame
    <2>5. admin # None /\ admin.op = "ack" =>
             admin.event # e /\ admin.event \in Events
        BY <2>1 DEF TimelyInv, Owned, Request
    <2>6. admin' = admin
        BY <1>5 DEF StoreProcessed, StoreFailed
    <2> QED
        BY <2>1, <2>2, <2>4, <2>5, <2>6 DEF TimelyInv
<1>6. ASSUME NEW w \in Workers, Crash(w)
      PROVE  TimelyInv'
    <2>1. \A v \in Workers : \A f \in batch'[v] : Owned(v, f)'
        BY <1>6, OwnedFrame DEF Crash
    <2> QED
        BY <1>6, <2>1 DEF TimelyInv, Crash
<1>7. ASSUME NEW e \in Events, RetryLoad(e) \/ AckLoad(e)
      PROVE  TimelyInv'
    <2>1. \A v \in Workers : \A f \in batch'[v] : Owned(v, f)'
        BY <1>7, OwnedFrame DEF RetryLoad, AckLoad
    <2> QED
        BY <1>7, <2>1 DEF TimelyInv, RetryLoad, AckLoad, MayAcknowledge
<1>8. CASE RetryCommit
    <2>1. admin.event \in Events /\ admin # None
        BY <1>8 DEF RetryCommit, Request
    <2>2. admin' = None
        BY <1>8 DEF RetryCommit
    <2>3. TimelyStep
        BY <2>1, <2>2 DEF vars
    <2>4. \A v \in Workers : admin.event \notin batch[v]
        BY <1>8, <2>1, <2>3 DEF TimelyStep
    <2>5. \A v \in Workers : \A f \in batch'[v] : Owned(v, f)'
        BY <1>8, <2>4, OwnedFrame DEF RetryCommit
    <2> QED
        BY <1>8, <2>2, <2>5 DEF TimelyInv, RetryCommit
<1>9. CASE AckCommit
    <2>1. admin.event \in Events
        BY <1>9 DEF AckCommit, Request
    <2>2. \A v \in Workers : admin.event \notin batch[v]
        BY <1>9 DEF AckCommit, TimelyInv, Owned
    <2>3. \A v \in Workers : \A f \in batch'[v] : Owned(v, f)'
        BY <1>9, <2>2, OwnedFrame DEF AckCommit
    <2> QED
        BY <1>9, <2>3 DEF TimelyInv, AckCommit
<1>10. ASSUME NEW e \in Events, BackoffElapses(e)
       PROVE  TimelyInv'
    <2>1. \A f \in Events : /\ rows'[f].status = rows[f].status
                            /\ rows'[f].lockedAt = rows[f].lockedAt
                            /\ rows'[f].lockedBy = rows[f].lockedBy
        BY <1>10 DEF BackoffElapses, Row
    <2>2. admin # None => admin.event \in Events
        BY DEF Request
    <2>3. \A v \in Workers : \A f \in batch'[v] : Owned(v, f)'
        BY <1>10, <2>1, OwnedFrame DEF BackoffElapses
    <2> QED
        BY <1>10, <2>1, <2>2, <2>3 DEF TimelyInv, BackoffElapses
<1>11. ASSUME NEW e \in Events, LockAges(e)
       PROVE  TimelyInv'
    <2>1. rows[e].lockedAt = "fresh" /\ rows'[e].lockedAt = "stale"
          /\ rows'[e].status = rows[e].status
          /\ \A f \in Events : f # e => rows'[f] = rows[f]
        BY <1>11 DEF LockAges, Row
    <2>2. TimelyStep
        BY <2>1 DEF vars
    <2>3. \A v \in Workers : e \notin batch[v]
        BY <1>11, <2>2 DEF TimelyStep
    <2>4. \A v \in Workers : \A f \in batch'[v] : Owned(v, f)'
        BY <1>11, <2>1, <2>3, OwnedFrame DEF LockAges
    <2>5. admin # None => admin.event \in Events
        BY DEF Request
    <2> QED
        BY <1>11, <2>1, <2>4, <2>5 DEF TimelyInv, LockAges
<1>12. CASE UNCHANGED vars
    BY <1>12 DEF TimelyInv, Owned, vars
<1> QED
    BY <1>1, <1>2, <1>3, <1>4, <1>5, <1>6, <1>7, <1>8, <1>9, <1>10, <1>11,
       <1>12 DEF Next

LEMMA TimelyAlways == Spec /\ Timely => [](TypeOK /\ LoopInv /\ TimelyInv)
<1>1. Init => TimelyInv
    BY DEF Init, TimelyInv
<1> QED
    BY <1>1, TimelyKept, LoopCorrect, PTL DEF Spec, Timely

(* Any number of workers, none of which keeps an event until its lock grows  *)
(* stale or an admin's retry of it is committed: the outbox implements the   *)
(* delivery contract through crashes, recovered claims and acknowledgements, *)
(* and no step of one worker settles an event that another has in hand       *)
(* (repositories/outbox.py:20-107, services/outbox.py:24-60,                 *)
(* admin.py:102-152).                                                        *)
THEOREM TimelyImplementsDelivery == Spec /\ Timely => KeepsContract
<1>1. TimelyInv => OpenInv
    BY DEF TimelyInv, Owned, OpenInv, SoleInv, Open
<1>2. TypeOK /\ LoopInv /\ OpenInv /\ [Next]_vars
          => [Contract!Next]_(Contract!vars)
    BY ContractStep
<1> QED
    BY <1>1, <1>2, ContractInit, TimelyAlways, PTL
    DEF Spec, KeepsContract, Contract!Spec

(* Under the same condition an acknowledgement always lands on a row that is *)
(* still dead-lettered (admin.py:139-141).                                   *)
THEOREM TimelyAckKeepsTerminalState == Spec /\ Timely => AckLandsOnDeadLetter
<1>1. TimelyInv => [AckCommit => rows[admin.event].status = "dead_lettered"]_vars
    BY DEF TimelyInv, AckCommit
<1> QED
    BY <1>1, TimelyAlways, PTL DEF AckLandsOnDeadLetter

-----------------------------------------------------------------------------
(* A worker's claim is its own: no two batches share an event, and the row   *)
(* of one is in processing and names its worker (outbox.py:20-40).           *)
THEOREM TimelyClaimsAreExclusive ==
    Spec /\ Timely =>
        [](\A e \in Events, w \in Workers : e \in batch[w] =>
              /\ rows[e].status = "processing"
              /\ rows[e].lockedBy = w
              /\ \A v \in Workers : e \in batch[v] => v = w)
<1>1. TimelyInv =>
         \A e \in Events, w \in Workers : e \in batch[w] =>
            /\ rows[e].status = "processing"
            /\ rows[e].lockedBy = w
            /\ \A v \in Workers : e \in batch[v] => v = w
    BY DEF TimelyInv, Owned
<1> QED
    BY <1>1, TimelyAlways, PTL

-----------------------------------------------------------------------------
(* The copies of timely workers. What a worker loaded is the row until it    *)
(* stores it; only the backoff could change it, and a claimed row is in none.*)
CopyInv ==
    /\ \A e \in Events : rows[e].status = "processing" => rows[e].next # "later"
    /\ \A w \in Workers : work[w] # None =>
          work[w].copy = rows[work[w].event]

(* Rows with the same columns are the same.                                  *)
LEMMA SameColumns ==
    ASSUME NEW a \in Row, NEW b \in Row,
           a.status = b.status, a.attempts = b.attempts, a.next = b.next,
           a.lockedAt = b.lockedAt, a.lockedBy = b.lockedBy, a.acked = b.acked
    PROVE  a = b
BY DEF Row

(* A flush of a copy that is the row stores what was assigned.               *)
LEMMA SavedCurrent ==
    ASSUME NEW row \in Row, NEW obj \in Row
    PROVE  Saved(row, row, obj) = obj
<1>1. Saved(row, row, obj) \in Row
    BY SavedType
<1>2. /\ Saved(row, row, obj).status = obj.status
      /\ Saved(row, row, obj).attempts = obj.attempts
      /\ Saved(row, row, obj).next = obj.next
      /\ Saved(row, row, obj).lockedAt = obj.lockedAt
      /\ Saved(row, row, obj).lockedBy = obj.lockedBy
      /\ Saved(row, row, obj).acked = obj.acked
    BY DEF Saved, NetChange
<1> QED
    BY <1>1, <1>2, SameColumns

LEMMA SavedFailedCurrent ==
    ASSUME NEW row \in Row
    PROVE  SavedFailed(row, row) =
              IF row.attempts + 1 >= MaxAttempts THEN MarkDeadLettered(row)
              ELSE MarkRetrying(row)
<1>1. CASE row.attempts + 1 >= MaxAttempts
    BY <1>1, RowOpsType, SavedCurrent DEF SavedFailed
<1>2. CASE ~(row.attempts + 1 >= MaxAttempts)
    <2>1. MarkRetrying(row) \in Row
        <3>1. row.attempts + 1 \in 0 .. MaxAttempts - 1
            BY <1>2, OutboxAssumption DEF OutboxAssumption, Row
        <3> QED
            BY <3>1 DEF MarkRetrying, Unlock, Row
    <2>2. SavedRetrying(row, row) = [MarkRetrying(row) EXCEPT !.next = "later"]
        BY <2>1, SavedCurrent DEF SavedRetrying
    <2>3. [MarkRetrying(row) EXCEPT !.next = "later"] = MarkRetrying(row)
        BY <2>1 DEF MarkRetrying, Unlock, Row
    <2> QED
        BY <1>2, <2>2, <2>3 DEF SavedFailed
<1> QED
    BY <1>1, <1>2

(* What a worker stores, in one step with what it read.                      *)
StoredAtOnce(w) ==
    LET e == work[w].event
    IN  /\ StoreProcessed(w) => rows'[e] = MarkProcessed(rows[e])
        /\ StoreFailed(w) => rows'[e] =
              IF rows[e].attempts + 1 >= MaxAttempts
              THEN MarkDeadLettered(rows[e]) ELSE MarkRetrying(rows[e])

LEMMA StoredCurrent ==
    ASSUME TypeOK, LoopInv, CopyInv, NEW w \in Workers
    PROVE  StoredAtOnce(w)
<1> SUFFICES ASSUME StoreProcessed(w) \/ StoreFailed(w)
             PROVE  StoredAtOnce(w)
    BY DEF StoredAtOnce
<1> DEFINE e == work[w].event
<1>1. work[w] # None /\ e \in Events /\ work[w].copy = rows[e]
    BY DEF StoreProcessed, StoreFailed, TypeOK, Work, CopyInv
<1>2. rows \in [Events -> Row] /\ rows[e] \in Row
    BY <1>1 DEF TypeOK
<1>3. StoreProcessed(w) => rows'[e] = MarkProcessed(rows[e])
    BY <1>1, <1>2, RowOpsType, SavedCurrent DEF StoreProcessed
<1>4. StoreFailed(w) => rows'[e] = SavedFailed(rows[e], rows[e])
    BY <1>1, <1>2 DEF StoreFailed
<1> QED
    BY <1>2, <1>3, <1>4, SavedFailedCurrent DEF StoredAtOnce

(* Where the rows of a batch stay, and no event enters one, the copies do.   *)
LEMMA CopiesFrame ==
    ASSUME LoopInv, CopyInv, work' = work,
           \A w \in Workers : \A e \in batch[w] : rows'[e] = rows[e],
           \A e \in Events : rows'[e].status = "processing" =>
                                 rows'[e].next # "later"
    PROVE  CopyInv'
BY DEF LoopInv, CopyInv

LEMMA CopyKept ==
    ASSUME TypeOK, LoopInv, TimelyInv, CopyInv, [Next]_vars, [TimelyStep]_vars
    PROVE  CopyInv'
<1>0. rows \in [Events -> Row] /\ None # "later"
    BY NoneAssumption DEF TypeOK, NoneAssumption
<1>1. ASSUME NEW e \in Events, Enqueue(e)
      PROVE  CopyInv'
    <2>1. \A w \in Workers : e \notin batch[w]
        BY <1>1 DEF Enqueue, LoopInv
    <2>2. rows' = [rows EXCEPT ![e] = NewRow] /\ work' = work
        BY <1>1 DEF Enqueue
    <2>3. \A w \in Workers : \A f \in batch[w] : rows'[f] = rows[f]
        BY <1>0, <2>1, <2>2 DEF TypeOK
    <2>4. \A f \in Events : rows'[f].status = "processing" =>
                               rows'[f].next # "later"
        BY <1>0, <2>2 DEF CopyInv, NewRow
    <2> QED
        BY <2>2, <2>3, <2>4, CopiesFrame
<1>2. ASSUME NEW w \in Workers, Recover(w)
      PROVE  CopyInv'
    <2>1. \A e \in Events : IF Stale(e) THEN rows'[e] = RecoverStale(rows[e])
                            ELSE rows'[e] = rows[e]
        BY <1>2 DEF Recover
    <2>2. \A v \in Workers : \A e \in batch[v] : rows'[e] = rows[e]
        BY <2>1 DEF TimelyInv, Owned, Stale, TypeOK
    <2>3. \A e \in Events : RecoverStale(rows[e]).status # "processing"
        BY <1>0 DEF RecoverStale, Unlock, Row
    <2>4. \A e \in Events : rows'[e].status = "processing" =>
                               rows'[e].next # "later"
        BY <2>1, <2>3 DEF CopyInv
    <2>5. work' = work
        BY <1>2 DEF Recover
    <2> QED
        BY <2>2, <2>4, <2>5, CopiesFrame
<1>3. ASSUME NEW w \in Workers, Claim(w)
      PROVE  CopyInv'
    <2>1. PICK claimed \in SUBSET {e \in Events : Due(e)} :
             rows' = [e \in Events |-> IF e \in claimed
                                        THEN Lock(rows[e], w) ELSE rows[e]]
        BY <1>3 DEF Claim, Oldest
    <2>2. \A v \in Workers : \A e \in batch[v] : e \in Events /\ e \notin claimed
        BY <2>1 DEF Due, TimelyInv, Owned, TypeOK
    <2>3. \A v \in Workers : \A e \in batch[v] : rows'[e] = rows[e]
        BY <2>1, <2>2
    <2>4. \A e \in claimed : Lock(rows[e], w).next # "later"
        <3>1. \A e \in claimed : rows[e] \in Row /\ rows[e].next \in {None, "due"}
            BY <1>0, <2>1 DEF Due, Waiting
        <3> QED
            BY <1>0, <3>1 DEF Lock, Row
    <2>5. \A e \in Events : rows'[e].status = "processing" =>
                               rows'[e].next # "later"
        BY <2>1, <2>4 DEF CopyInv
    <2>6. work' = work
        BY <1>3 DEF Claim
    <2> QED
        BY <2>3, <2>5, <2>6, CopiesFrame
<1>4. ASSUME NEW w \in Workers, Load(w)
      PROVE  CopyInv'
    <2>1. PICK e \in batch[w] :
             work' = [work EXCEPT ![w] = [event |-> e, copy |-> rows[e]]]
        BY <1>4 DEF Load
    <2>2. rows' = rows
        BY <1>4 DEF Load
    <2> QED
        BY <2>1, <2>2 DEF CopyInv, TypeOK
<1>5. ASSUME NEW w \in Workers, StoreProcessed(w) \/ StoreFailed(w)
      PROVE  CopyInv'
    <2> DEFINE e == work[w].event
    <2>1. e \in batch[w] /\ e \in Events /\ work' = [work EXCEPT ![w] = None]
        BY <1>5 DEF LoopInv, StoreProcessed, StoreFailed, Advance, TypeOK
    <2>2. \A f \in Events : f # e => rows'[f] = rows[f]
        BY <1>5 DEF StoreProcessed, StoreFailed, TypeOK
    <2>3. \A v \in Workers : v # w /\ work[v] # None =>
             work[v].event # e /\ work[v].event \in Events
        BY <2>1 DEF TimelyInv, Owned, LoopInv, TypeOK
    <2>4. rows'[e].status # "processing"
        <3>1. rows[e] \in Row
            BY <1>0, <2>1
        <3>2. /\ MarkProcessed(rows[e]).status # "processing"
              /\ MarkDeadLettered(rows[e]).status # "processing"
              /\ MarkRetrying(rows[e]).status # "processing"
            BY <3>1
            DEF MarkProcessed, MarkDeadLettered, MarkRetrying, Unlock, Row
        <3> QED
            BY <1>5, <3>2, StoredCurrent DEF StoredAtOnce
    <2> QED
        BY <2>1, <2>2, <2>3, <2>4 DEF CopyInv, TypeOK
<1>6. ASSUME NEW w \in Workers, Crash(w)
      PROVE  CopyInv'
    BY <1>6 DEF Crash, CopyInv, TypeOK
<1>7. ASSUME NEW e \in Events, RetryLoad(e) \/ AckLoad(e)
      PROVE  CopyInv'
    BY <1>7 DEF RetryLoad, AckLoad, CopyInv
<1>8. CASE RetryCommit \/ AckCommit
    <2> DEFINE e == admin.event
    <2>1. e \in Events /\ admin # None /\ admin.copy \in Row /\ work' = work
        BY <1>8 DEF RetryCommit, AckCommit, TypeOK, Request
    <2>2. \A w \in Workers : e \notin batch[w]
        <3>1. CASE RetryCommit
            <4>1. vars' # vars
                BY <2>1, <3>1 DEF RetryCommit, vars
            <4> QED
                BY <2>1, <3>1, <4>1 DEF TimelyStep
        <3>2. CASE AckCommit
            BY <3>2 DEF AckCommit, TimelyInv, Owned
        <3> QED
            BY <1>8, <3>1, <3>2
    <2>3. \A f \in Events : f # e => rows'[f] = rows[f]
        BY <1>0, <1>8 DEF RetryCommit, AckCommit
    <2>4. rows'[e].status = "processing" => rows'[e].next # "later"
        <3>1. CASE RetryCommit
            <4>1. rows'[e] = Saved(rows[e], admin.copy, Requeue(admin.copy))
                BY <1>0, <2>1, <3>1 DEF RetryCommit
            <4>2. /\ Requeue(admin.copy).status = "pending"
                  /\ Requeue(admin.copy).next = None
                BY <2>1 DEF Requeue, Unlock, Row
            <4> QED
                BY <1>0, <2>1, <4>1, <4>2 DEF Saved, NetChange, CopyInv
        <3>2. CASE AckCommit
            <4>1. rows[e].status = "dead_lettered"
                BY <3>2 DEF AckCommit, TimelyInv
            <4>2. rows'[e].status = NetChange(rows[e].status,
                             admin.copy.status, Acknowledge(admin.copy).status)
                BY <1>0, <2>1, <3>2 DEF AckCommit, SavedAcknowledged, Saved
            <4>3. Acknowledge(admin.copy).status = admin.copy.status
                BY <2>1 DEF Acknowledge, Unlock, Row
            <4> QED
                BY <4>1, <4>2, <4>3 DEF NetChange
        <3> QED
            BY <1>8, <3>1, <3>2
    <2>5. \A f \in Events : rows'[f].status = "processing" =>
                               rows'[f].next # "later"
        BY <2>3, <2>4 DEF CopyInv
    <2>6. \A w \in Workers : \A f \in batch[w] : rows'[f] = rows[f]
        BY <2>2, <2>3 DEF TypeOK
    <2> QED
        BY <2>1, <2>5, <2>6, CopiesFrame
<1>9. ASSUME NEW e \in Events, BackoffElapses(e)
      PROVE  CopyInv'
    <2>1. \A w \in Workers : e \notin batch[w]
        BY <1>9 DEF BackoffElapses, TimelyInv, Owned, CopyInv
    <2>2. /\ \A f \in Events : f # e => rows'[f] = rows[f]
          /\ rows'[e].next = "due" /\ work' = work
        BY <1>0, <1>9 DEF BackoffElapses, Row
    <2>3. \A w \in Workers : \A f \in batch[w] : rows'[f] = rows[f]
        BY <2>1, <2>2 DEF TypeOK
    <2>4. \A f \in Events : rows'[f].status = "processing" =>
                               rows'[f].next # "later"
        BY <2>2 DEF CopyInv
    <2> QED
        BY <2>2, <2>3, <2>4, CopiesFrame
<1>10. ASSUME NEW e \in Events, LockAges(e)
       PROVE  CopyInv'
    <2>1. /\ \A f \in Events : f # e => rows'[f] = rows[f]
          /\ rows'[e].lockedAt # rows[e].lockedAt
          /\ rows'[e].status = rows[e].status /\ rows'[e].next = rows[e].next
          /\ work' = work
        BY <1>0, <1>10 DEF LockAges, Row
    <2>2. \A w \in Workers : e \notin batch[w]
        BY <1>10, <2>1 DEF TimelyStep, vars
    <2>3. \A w \in Workers : \A f \in batch[w] : rows'[f] = rows[f]
        BY <2>1, <2>2 DEF TypeOK
    <2>4. \A f \in Events : rows'[f].status = "processing" =>
                               rows'[f].next # "later"
        BY <2>1 DEF CopyInv
    <2> QED
        BY <2>1, <2>3, <2>4, CopiesFrame
<1>11. CASE UNCHANGED vars
    BY <1>11 DEF vars, CopyInv
<1> QED
    BY <1>1, <1>2, <1>3, <1>4, <1>5, <1>6, <1>7, <1>8, <1>9, <1>10, <1>11
    DEF Next

LEMMA CopyAlways ==
    Spec /\ Timely => [](TypeOK /\ LoopInv /\ TimelyInv /\ CopyInv)
<1>1. Init => CopyInv
    BY DEF Init, CopyInv, NewRow
<1> QED
    BY <1>1, CopyKept, TimelyAlways, PTL DEF Spec, Timely

(* A worker's load and its commit, which other processes may come between,   *)
(* have the effect of one step: no attempt is lost, counted twice or charged *)
(* to an older row, and nothing another process wrote is undone              *)
(* (services/outbox.py:24-60, repositories/outbox.py:64-107).                *)
THEOREM TimelyWritesAreAtomic ==
    Spec /\ Timely => [][\A w \in Workers : StoredAtOnce(w)]_vars
<1>1. TypeOK /\ LoopInv /\ CopyInv => \A w \in Workers : StoredAtOnce(w)
    BY StoredCurrent
<1> QED
    BY <1>1, CopyAlways, PTL

(* An event is given up only by a failed attempt that was its last: no other *)
(* step, and no attempt counted on an older row, dead-letters it             *)
(* (services/outbox.py:55-60, repositories/outbox.py:84-107).                *)
THEOREM TimelyDeadLettersExhausted ==
    Spec /\ Timely =>
        [][\A e \in Events :
              rows[e].status # "dead_lettered" /\ rows'[e].status = "dead_lettered"
                 => rows[e].attempts = MaxAttempts - 1]_vars
<1> DEFINE Exhausted ==
       \A e \in Events :
          rows[e].status # "dead_lettered" /\ rows'[e].status = "dead_lettered"
             => rows[e].attempts = MaxAttempts - 1
<1>1. ASSUME TypeOK, LoopInv, TimelyInv, CopyInv, Next
      PROVE  Exhausted
    <2>0. rows \in [Events -> Row]
        BY <1>1 DEF TypeOK
    <2>1. ASSUME NEW w \in Workers, StoreProcessed(w) \/ StoreFailed(w)
          PROVE  Exhausted
        <3> DEFINE e == work[w].event
        <3>1. e \in Events /\ \A f \in Events : f # e => rows'[f] = rows[f]
            BY <1>1, <2>1 DEF StoreProcessed, StoreFailed, TypeOK, Work
        <3>2. rows[e] \in Row
            BY <2>0, <3>1
        <3>3. /\ MarkProcessed(rows[e]).status # "dead_lettered"
              /\ MarkRetrying(rows[e]).status # "dead_lettered"
            BY <3>2 DEF MarkProcessed, MarkRetrying, Unlock, Row
        <3>4. rows'[e].status = "dead_lettered" =>
                 rows[e].attempts + 1 >= MaxAttempts
            BY <1>1, <2>1, <3>3, StoredCurrent DEF StoredAtOnce
        <3>5. rows[e].attempts + 1 >= MaxAttempts =>
                 rows[e].attempts = MaxAttempts - 1
            BY <3>2, OutboxAssumption DEF OutboxAssumption, Row
        <3> QED
            BY <3>1, <3>4, <3>5
    <2>2. ASSUME NEW e \in Events, Enqueue(e)
          PROVE  Exhausted
        BY <2>0, <2>2 DEF Enqueue, NewRow
    <2>3. ASSUME NEW w \in Workers, Recover(w) \/ Claim(w)
          PROVE  Exhausted
        <3>1. \A e \in Events : \/ rows'[e] = rows[e]
                               \/ rows'[e] = RecoverStale(rows[e])
                               \/ rows'[e] = Lock(rows[e], w)
            BY <2>3 DEF Recover, Claim
        <3>2. \A e \in Events :
                 /\ RecoverStale(rows[e]).status # "dead_lettered"
                 /\ Lock(rows[e], w).status # "dead_lettered"
            BY <2>0 DEF RecoverStale, Lock, Unlock, Row
        <3> QED
            BY <3>1, <3>2
    <2>4. ASSUME NEW w \in Workers, Load(w) \/ Crash(w)
          PROVE  Exhausted
        BY <2>4 DEF Load, Crash
    <2>5. ASSUME NEW e \in Events, RetryLoad(e) \/ AckLoad(e)
          PROVE  Exhausted
        BY <2>5 DEF RetryLoad, AckLoad
    <2>6. CASE RetryCommit
        <3> DEFINE e == admin.event
        <3>1. /\ e \in Events /\ admin.copy \in Row
              /\ rows'[e] = Saved(rows[e], admin.copy, Requeue(admin.copy))
              /\ \A f \in Events : f # e => rows'[f] = rows[f]
            BY <1>1, <2>0, <2>6 DEF RetryCommit, TypeOK, Request
        <3>2. Requeue(admin.copy).status = "pending"
            BY <3>1 DEF Requeue, Unlock, Row
        <3>3. rows'[e].status \in {rows[e].status, "pending"}
            BY <3>1, <3>2 DEF Saved, NetChange
        <3> QED
            BY <3>1, <3>3
    <2>7. CASE AckCommit
        <3>1. rows[admin.event].status = "dead_lettered"
            BY <1>1, <2>7 DEF AckCommit, TimelyInv
        <3>2. \A f \in Events : f # admin.event => rows'[f] = rows[f]
            BY <2>0, <2>7 DEF AckCommit
        <3> QED
            BY <3>1, <3>2
    <2>8. ASSUME NEW e \in Events, BackoffElapses(e) \/ LockAges(e)
          PROVE  Exhausted
        BY <2>0, <2>8 DEF BackoffElapses, LockAges, Row
    <2> QED
        BY <1>1, <2>1, <2>2, <2>3, <2>4, <2>5, <2>6, <2>7, <2>8 DEF Next
<1>2. TypeOK /\ LoopInv /\ TimelyInv /\ CopyInv /\ [Next]_vars =>
         [Exhausted]_vars
    BY <1>1
<1> QED
    BY <1>2, CopyAlways, PTL DEF Spec

-----------------------------------------------------------------------------
(* Retries that find the row as they loaded it. An admin's retry that        *)
(* commits after the row was claimed, stored or recovered in between may     *)
(* leave a lock on a pending row, and the next such retry takes a claim's.   *)

PromptRetry ==
    [][RetryCommit =>
          LET row == rows[admin.event]
          IN  /\ row.status = admin.copy.status
              /\ row.lockedAt = None <=> admin.copy.lockedAt = None]_vars

(* A row is locked exactly while it is in processing.                        *)
LockedInv ==
    \A e \in Events : rows[e].status = "processing" <=> rows[e].lockedAt # None

LEMMA LockedKept ==
    ASSUME TypeOK, LoopInv, TimelyInv, CopyInv, LockedInv, Next,
           RetryCommit => LET row == rows[admin.event]
                          IN  /\ row.status = admin.copy.status
                              /\ row.lockedAt = None
                                    <=> admin.copy.lockedAt = None
    PROVE  LockedInv'
<1>0. rows \in [Events -> Row] /\ None \notin {"fresh", "stale"}
    BY NoneAssumption DEF TypeOK, NoneAssumption
<1>1. ASSUME NEW e \in Events, Enqueue(e)
      PROVE  LockedInv'
    BY <1>0, <1>1 DEF Enqueue, NewRow, LockedInv
<1>2. ASSUME NEW w \in Workers, Recover(w) \/ Claim(w)
      PROVE  LockedInv'
    <2>1. \A e \in Events : \/ rows'[e] = rows[e]
                           \/ rows'[e] = RecoverStale(rows[e])
                           \/ rows'[e] = Lock(rows[e], w)
        BY <1>2 DEF Recover, Claim
    <2>2. \A e \in Events :
             /\ RecoverStale(rows[e]).status = "retrying"
             /\ RecoverStale(rows[e]).lockedAt = None
             /\ Lock(rows[e], w).status = "processing"
             /\ Lock(rows[e], w).lockedAt = "fresh"
        BY <1>0 DEF RecoverStale, Lock, Unlock, Row
    <2> QED
        BY <1>0, <2>1, <2>2 DEF LockedInv
<1>3. ASSUME NEW w \in Workers, StoreProcessed(w) \/ StoreFailed(w)
      PROVE  LockedInv'
    <2> DEFINE e == work[w].event
    <2>1. e \in Events /\ \A f \in Events : f # e => rows'[f] = rows[f]
        BY <1>3 DEF StoreProcessed, StoreFailed, TypeOK, Work
    <2>2. rows[e] \in Row
        BY <1>0, <2>1
    <2>3. \A row \in {MarkProcessed(rows[e]), MarkDeadLettered(rows[e]),
                      MarkRetrying(rows[e])} :
             row.status # "processing" /\ row.lockedAt = None
        BY <2>2 DEF MarkProcessed, MarkDeadLettered, MarkRetrying, Unlock, Row
    <2>4. rows'[e].status # "processing" /\ rows'[e].lockedAt = None
        BY <1>3, <2>3, StoredCurrent DEF StoredAtOnce
    <2> QED
        BY <2>1, <2>4 DEF LockedInv
<1>4. ASSUME NEW w \in Workers, Load(w) \/ Crash(w)
      PROVE  LockedInv'
    BY <1>4 DEF Load, Crash, LockedInv
<1>5. ASSUME NEW e \in Events, RetryLoad(e) \/ AckLoad(e)
      PROVE  LockedInv'
    BY <1>5 DEF RetryLoad, AckLoad, LockedInv
<1>6. CASE RetryCommit
    <2> DEFINE e == admin.event
    <2>1. /\ e \in Events /\ admin.copy \in Row
          /\ rows'[e] = Saved(rows[e], admin.copy, Requeue(admin.copy))
          /\ \A f \in Events : f # e => rows'[f] = rows[f]
        BY <1>0, <1>6 DEF RetryCommit, TypeOK, Request
    <2>2. /\ Requeue(admin.copy).status = "pending"
          /\ Requeue(admin.copy).lockedAt = None
        BY <2>1 DEF Requeue, Unlock, Row
    <2>3. /\ rows[e].status = admin.copy.status
          /\ rows[e].lockedAt = None <=> admin.copy.lockedAt = None
        BY <1>6
    <2>4. rows'[e].status = "pending" /\ rows'[e].lockedAt = None
        BY <2>1, <2>2, <2>3 DEF Saved, NetChange
    <2> QED
        BY <2>1, <2>4 DEF LockedInv
<1>7. CASE AckCommit
    <2> DEFINE e == admin.event
    <2>1. /\ e \in Events /\ admin.copy \in Row
          /\ rows[e].status = "dead_lettered"
          /\ rows'[e] = SavedAcknowledged(rows[e], admin.copy)
          /\ \A f \in Events : f # e => rows'[f] = rows[f]
        BY <1>0, <1>7 DEF AckCommit, TypeOK, Request, TimelyInv
    <2>2. /\ Acknowledge(admin.copy).status = admin.copy.status
          /\ Acknowledge(admin.copy).lockedAt = None
        BY <2>1 DEF Acknowledge, Unlock, Row
    <2>3. rows'[e].status = "dead_lettered"
        BY <2>1, <2>2 DEF SavedAcknowledged, Saved, NetChange
    <2>4. rows[e].lockedAt = None
        BY <2>1 DEF LockedInv
    <2>5. rows'[e].lockedAt = None
        BY <2>1, <2>2, <2>4 DEF SavedAcknowledged, Saved, NetChange
    <2> QED
        BY <2>1, <2>3, <2>5 DEF LockedInv
<1>8. ASSUME NEW e \in Events, BackoffElapses(e) \/ LockAges(e)
      PROVE  LockedInv'
    <2>1. /\ \A f \in Events : f # e => rows'[f] = rows[f]
          /\ rows'[e].status = rows[e].status
          /\ \/ rows'[e].lockedAt = rows[e].lockedAt
             \/ rows[e].lockedAt = "fresh" /\ rows'[e].lockedAt = "stale"
        BY <1>0, <1>8 DEF BackoffElapses, LockAges, Row
    <2> QED
        BY <1>0, <2>1 DEF LockedInv
<1> QED
    BY <1>1, <1>2, <1>3, <1>4, <1>5, <1>6, <1>7, <1>8 DEF Next

(* Every claim can be recovered, for any number of workers and with an       *)
(* admin: what OutboxStranded shows takes a retry that commits while the     *)
(* event is in a batch, or over a row that was claimed since it was loaded   *)
(* (repositories/outbox.py:42-62, admin.py:102-119).                         *)
THEOREM TimelyClaimsRecoverable ==
    Spec /\ Timely /\ PromptRetry => []ClaimsRecoverable
<1>1. Init => LockedInv
    BY DEF Init, LockedInv, NewRow
<1>2. TypeOK /\ LoopInv /\ TimelyInv /\ CopyInv /\ LockedInv /\ [Next]_vars
      /\ [RetryCommit =>
             LET row == rows[admin.event]
             IN  /\ row.status = admin.copy.status
                 /\ row.lockedAt = None <=> admin.copy.lockedAt = None]_vars
         => LockedInv'
    BY LockedKept DEF LockedInv, vars
<1>3. LockedInv => ClaimsRecoverable
    BY DEF LockedInv, ClaimsRecoverable
<1> QED
    BY <1>1, <1>2, <1>3, CopyAlways, PTL DEF Spec, PromptRetry

=============================================================================
