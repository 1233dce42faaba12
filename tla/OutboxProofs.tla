---------------------------- MODULE OutboxProofs ----------------------------
(* Theorems about Outbox, for any set of workers and events and any limits.  *)
EXTENDS Outbox, TLAPS

-----------------------------------------------------------------------------
(* Type correctness.                                                         *)

(* What a flush stores is a row when the stored row, the copy and the        *)
(* assigned object are.                                                      *)
LEMMA SavedType ==
    ASSUME NEW row \in Row, NEW copy \in Row, NEW obj \in Row
    PROVE  Saved(row, copy, obj) \in Row
BY DEF Saved, NetChange, Row

(* Every operation of the repository and of the admin routes yields a row.   *)
LEMMA RowOpsType ==
    ASSUME NEW row \in Row
    PROVE  /\ NewRow \in Row
           /\ \A w \in Workers : Lock(row, w) \in Row
           /\ MarkProcessed(row) \in Row
           /\ MarkDeadLettered(row) \in Row
           /\ RecoverStale(row) \in Row
           /\ Requeue(row) \in Row
           /\ Acknowledge(row) \in Row
<1>1. NewRow \in Row
    BY OutboxAssumption DEF OutboxAssumption, NewRow, Row
<1>2. \A w \in Workers : Lock(row, w) \in Row
    BY DEF Lock, Row
<1>3. MarkProcessed(row) \in Row
    BY DEF MarkProcessed, Unlock, Row
<1>4. MarkDeadLettered(row) \in Row
    BY DEF MarkDeadLettered, Unlock, Row
<1>5. RecoverStale(row) \in Row
    BY DEF RecoverStale, Unlock, Row
<1>6. Requeue(row) \in Row
    <2>1. 0 \in 0 .. MaxAttempts - 1
        BY OutboxAssumption DEF OutboxAssumption
    <2> QED
        BY <2>1 DEF Requeue, Unlock, Row
<1>7. Acknowledge(row) \in Row
    BY DEF Acknowledge, Unlock, Row
<1> QED
    BY <1>1, <1>2, <1>3, <1>4, <1>5, <1>6, <1>7

(* A failed attempt yields a row: the retry counter stays below its maximum. *)
LEMMA SavedFailedType ==
    ASSUME NEW row \in Row, NEW copy \in Row
    PROVE  SavedFailed(row, copy) \in Row
<1>1. CASE copy.attempts + 1 >= MaxAttempts
    <2>1. MarkDeadLettered(copy) \in Row
        BY DEF MarkDeadLettered, Unlock, Row
    <2> QED
        BY <1>1, <2>1, SavedType DEF SavedFailed
<1>2. CASE ~(copy.attempts + 1 >= MaxAttempts)
    <2>1. MarkRetrying(copy) \in Row
        <3>1. copy.attempts + 1 \in 0 .. MaxAttempts - 1
            BY <1>2, OutboxAssumption DEF OutboxAssumption, Row
        <3> QED
            BY <3>1 DEF MarkRetrying, Unlock, Row
    <2>2. Saved(row, copy, MarkRetrying(copy)) \in Row
        BY <2>1, SavedType
    <2>3. SavedRetrying(row, copy) \in Row
        BY <2>2 DEF SavedRetrying, Row
    <2> QED
        BY <1>2, <2>3 DEF SavedFailed
<1> QED
    BY <1>1, <1>2

LEMMA SavedAcknowledgedType ==
    ASSUME NEW row \in Row, NEW copy \in Row
    PROVE  SavedAcknowledged(row, copy) \in Row
<1>1. Acknowledge(copy) \in Row
    BY DEF Acknowledge, Unlock, Row
<1>2. Saved(row, copy, Acknowledge(copy)) \in Row
    BY <1>1, SavedType
<1> QED
    BY <1>2 DEF SavedAcknowledged, Row

(* Every step of the system preserves the types.                             *)
LEMMA TypeStep ==
    TypeOK /\ [Next]_vars => TypeOK'
<1> SUFFICES ASSUME TypeOK, [Next]_vars
             PROVE  TypeOK'
    OBVIOUS
<1>1. ASSUME NEW e \in Events, Enqueue(e)
      PROVE  TypeOK'
    <2>1. NewRow \in Row
        BY OutboxAssumption DEF OutboxAssumption, NewRow, Row
    <2> QED
        BY <1>1, <2>1 DEF TypeOK, Enqueue
<1>2. ASSUME NEW w \in Workers, Recover(w)
      PROVE  TypeOK'
    <2>1. \A e \in Events : RecoverStale(rows[e]) \in Row
        BY RowOpsType DEF TypeOK
    <2> QED
        BY <1>2, <2>1 DEF TypeOK, Recover
<1>3. ASSUME NEW w \in Workers, Claim(w)
      PROVE  TypeOK'
    <2>1. \A e \in Events : Lock(rows[e], w) \in Row
        BY RowOpsType DEF TypeOK
    <2>2. PICK skipped : LET claimed == Oldest({e \in Events : Due(e)} \ skipped)
             IN  /\ rows' = [e \in Events |-> IF e \in claimed
                                              THEN Lock(rows[e], w) ELSE rows[e]]
                 /\ batch' = [batch EXCEPT ![w] = claimed]
                 /\ pc' = [pc EXCEPT ![w] = IF claimed = {} THEN "recover"
                                            ELSE "drain"]
        BY <1>3 DEF Claim
    <2>3. Oldest({e \in Events : Due(e)} \ skipped) \subseteq Events
        BY DEF Oldest
    <2> QED
        BY <1>3, <2>1, <2>2, <2>3 DEF TypeOK, Claim
<1>4. ASSUME NEW w \in Workers, Load(w)
      PROVE  TypeOK'
    <2>1. PICK e \in batch[w] :
             work' = [work EXCEPT ![w] = [event |-> e, copy |-> rows[e]]]
        BY <1>4 DEF Load
    <2>2. [event |-> e, copy |-> rows[e]] \in Work
        BY DEF TypeOK, Work
    <2> QED
        BY <1>4, <2>1, <2>2 DEF TypeOK, Load
<1>5. ASSUME NEW w \in Workers, work[w] # None, Advance(w)
      PROVE  /\ pc' \in [Workers -> {"recover", "claim", "drain"}]
             /\ batch' \in [Workers -> SUBSET Events]
             /\ work' \in [Workers -> Work \cup {None}]
    BY <1>5 DEF TypeOK, Advance
<1>6. ASSUME NEW w \in Workers, StoreProcessed(w)
      PROVE  TypeOK'
    <2>1. work[w] \in Work
        BY <1>6 DEF TypeOK, StoreProcessed
    <2>2. work[w].event \in Events /\ work[w].copy \in Row
        BY <2>1 DEF Work
    <2>3. Saved(rows[work[w].event], work[w].copy, MarkProcessed(work[w].copy))
              \in Row
        BY <2>2, RowOpsType, SavedType DEF TypeOK
    <2>4. rows' \in [Events -> Row] /\ subject' \subseteq Tracked
        BY <1>6, <2>2, <2>3 DEF TypeOK, StoreProcessed, Effect
    <2> QED
        BY <1>5, <1>6, <2>4 DEF TypeOK, StoreProcessed
<1>7. ASSUME NEW w \in Workers, StoreFailed(w)
      PROVE  TypeOK'
    <2>1. work[w] \in Work
        BY <1>7 DEF TypeOK, StoreFailed
    <2>2. work[w].event \in Events /\ work[w].copy \in Row
        BY <2>1 DEF Work
    <2>3. SavedFailed(rows[work[w].event], work[w].copy) \in Row
        BY <2>2, SavedFailedType DEF TypeOK
    <2>4. rows' \in [Events -> Row] /\ subject' \subseteq Tracked
        BY <1>7, <2>2, <2>3 DEF TypeOK, StoreFailed, Effect
    <2> QED
        BY <1>5, <1>7, <2>4 DEF TypeOK, StoreFailed
<1>8. ASSUME NEW w \in Workers, Crash(w)
      PROVE  TypeOK'
    BY <1>8 DEF TypeOK, Crash
<1>9. ASSUME NEW e \in Events, RetryLoad(e) \/ AckLoad(e)
      PROVE  TypeOK'
    <2>1. admin' \in Request
        BY <1>9 DEF TypeOK, RetryLoad, AckLoad, Request
    <2> QED
        BY <1>9, <2>1 DEF TypeOK, RetryLoad, AckLoad
<1>10. CASE RetryCommit
    <2>1. admin.event \in Events /\ admin.copy \in Row
        BY <1>10 DEF TypeOK, RetryCommit, Request
    <2>2. Saved(rows[admin.event], admin.copy, Requeue(admin.copy)) \in Row
        BY <2>1, SavedType, RowOpsType DEF TypeOK
    <2> QED
        BY <1>10, <2>1, <2>2 DEF TypeOK, RetryCommit
<1>11. CASE AckCommit
    <2>1. admin.event \in Events /\ admin.copy \in Row
        BY <1>11 DEF TypeOK, AckCommit, Request
    <2>2. SavedAcknowledged(rows[admin.event], admin.copy) \in Row
        BY <2>1, SavedAcknowledgedType DEF TypeOK
    <2> QED
        BY <1>11, <2>1, <2>2 DEF TypeOK, AckCommit
<1>12. ASSUME NEW e \in Events, BackoffElapses(e)
       PROVE  TypeOK'
    <2>1. [rows[e] EXCEPT !.next = "due"] \in Row
        BY DEF TypeOK, Row
    <2> QED
        BY <1>12, <2>1 DEF TypeOK, BackoffElapses
<1>13. ASSUME NEW e \in Events, LockAges(e)
       PROVE  TypeOK'
    <2>1. [rows[e] EXCEPT !.lockedAt = "stale"] \in Row
        BY DEF TypeOK, Row
    <2> QED
        BY <1>13, <2>1 DEF TypeOK, LockAges
<1>14. CASE UNCHANGED vars
    BY <1>14 DEF TypeOK, vars
<1> QED
    BY <1>1, <1>2, <1>3, <1>4, <1>6, <1>7, <1>8, <1>9, <1>10, <1>11, <1>12,
       <1>13, <1>14 DEF Next

(* Whatever the number of workers, in every reachable state the rows are     *)
(* well formed and no row's retry counter reaches max_attempts               *)
(* (services/outbox.py:51, repositories/outbox.py:79-86).                    *)
THEOREM TypeCorrect == Spec => []TypeOK
<1>1. Init => TypeOK
    <2>1. NewRow \in Row
        BY OutboxAssumption DEF OutboxAssumption, NewRow, Row
    <2> QED
        BY <2>1 DEF Init, TypeOK
<1> QED
    BY <1>1, TypeStep, PTL DEF Spec

-----------------------------------------------------------------------------
(* The two lock columns. The copies sessions hold are part of the invariant: *)
(* a commit writes each column, or not, by what its copy held there.         *)

Paired(row) == row.lockedAt = None <=> row.lockedBy = None

LockInv ==
    /\ \A e \in Events : Paired(rows[e])
    /\ \A w \in Workers : work[w] # None => Paired(work[w].copy)
    /\ admin # None => Paired(admin.copy)

(* A session that clears both columns leaves them both cleared or both set.  *)
LEMMA SavedPaired ==
    ASSUME NEW row \in Row, NEW copy \in Row, NEW obj \in Row,
           Paired(row), Paired(copy), obj.lockedAt = None, obj.lockedBy = None
    PROVE  Paired(Saved(row, copy, obj))
BY DEF Paired, Saved, NetChange, Row

LEMMA OpsUnlock ==
    ASSUME NEW row \in Row
    PROVE  /\ Paired(NewRow)
           /\ \A obj \in {MarkProcessed(row), MarkDeadLettered(row),
                          MarkRetrying(row), RecoverStale(row), Requeue(row),
                          Acknowledge(row)} :
                 obj.lockedAt = None /\ obj.lockedBy = None
BY DEF Paired, NewRow, MarkProcessed, MarkDeadLettered, MarkRetrying,
       RecoverStale, Requeue, Acknowledge, Unlock, Row

LEMMA SavedFailedPaired ==
    ASSUME NEW row \in Row, NEW copy \in Row, Paired(row), Paired(copy)
    PROVE  Paired(SavedFailed(row, copy))
<1>1. CASE copy.attempts + 1 >= MaxAttempts
    BY <1>1, SavedPaired, OpsUnlock, RowOpsType DEF SavedFailed
<1>2. CASE ~(copy.attempts + 1 >= MaxAttempts)
    <2>1. Saved(row, copy, MarkRetrying(copy)).lockedAt = None
              <=> Saved(row, copy, MarkRetrying(copy)).lockedBy = None
        BY OpsUnlock DEF Paired, Saved, NetChange
    <2>2. Paired(SavedRetrying(row, copy))
        BY <2>1 DEF SavedRetrying, Paired, Saved
    <2> QED
        BY <1>2, <2>2 DEF SavedFailed
<1> QED
    BY <1>1, <1>2

LEMMA SavedAcknowledgedPaired ==
    ASSUME NEW row \in Row, NEW copy \in Row, Paired(row), Paired(copy)
    PROVE  Paired(SavedAcknowledged(row, copy))
<1>1. Saved(row, copy, Acknowledge(copy)).lockedAt = None
          <=> Saved(row, copy, Acknowledge(copy)).lockedBy = None
    BY OpsUnlock DEF Paired, Saved, NetChange
<1> QED
    BY <1>1 DEF SavedAcknowledged, Paired, Saved

LEMMA LockStep ==
    TypeOK /\ LockInv /\ [Next]_vars => LockInv'
<1> SUFFICES ASSUME TypeOK, LockInv, [Next]_vars
             PROVE  LockInv'
    OBVIOUS
<1>1. ASSUME NEW e \in Events, Enqueue(e)
      PROVE  LockInv'
    <2>1. Paired(NewRow)
        BY DEF Paired, NewRow
    <2> QED
        BY <1>1, <2>1 DEF TypeOK, LockInv, Enqueue
<1>2. ASSUME NEW w \in Workers, Recover(w)
      PROVE  LockInv'
    <2>1. \A e \in Events : Paired(RecoverStale(rows[e]))
        BY OpsUnlock DEF TypeOK, Paired
    <2> QED
        BY <1>2, <2>1 DEF TypeOK, LockInv, Recover
<1>3. ASSUME NEW w \in Workers, Claim(w)
      PROVE  LockInv'
    <2>1. \A e \in Events : Paired(Lock(rows[e], w))
        BY NoneAssumption
        DEF NoneAssumption, TypeOK, Paired, Lock, Row
    <2>2. \A e \in Events : rows'[e] \in {Lock(rows[e], w), rows[e]}
        BY <1>3 DEF Claim
    <2> QED
        BY <1>3, <2>1, <2>2 DEF LockInv, Claim
<1>4. ASSUME NEW w \in Workers, Load(w)
      PROVE  LockInv'
    <2>1. PICK e \in batch[w] :
             work' = [work EXCEPT ![w] = [event |-> e, copy |-> rows[e]]]
        BY <1>4 DEF Load
    <2> QED
        BY <1>4, <2>1 DEF TypeOK, LockInv, Load
<1>5. ASSUME NEW w \in Workers, work[w] # None, Advance(w)
      PROVE  \A v \in Workers : work'[v] # None => Paired(work'[v].copy)
    BY <1>5 DEF TypeOK, LockInv, Advance
<1>6. ASSUME NEW w \in Workers, StoreProcessed(w)
      PROVE  LockInv'
    <2>1. work[w].event \in Events /\ work[w].copy \in Row
        BY <1>6 DEF TypeOK, Work, StoreProcessed
    <2>2. Paired(Saved(rows[work[w].event], work[w].copy,
                       MarkProcessed(work[w].copy)))
        BY <1>6, <2>1, SavedPaired, OpsUnlock, RowOpsType
        DEF TypeOK, LockInv, StoreProcessed
    <2>3. \A e \in Events : Paired(rows'[e])
        BY <1>6, <2>1, <2>2 DEF TypeOK, LockInv, StoreProcessed
    <2> QED
        BY <1>5, <1>6, <2>3 DEF LockInv, StoreProcessed
<1>7. ASSUME NEW w \in Workers, StoreFailed(w)
      PROVE  LockInv'
    <2>1. work[w].event \in Events /\ work[w].copy \in Row
        BY <1>7 DEF TypeOK, Work, StoreFailed
    <2>2. Paired(SavedFailed(rows[work[w].event], work[w].copy))
        BY <1>7, <2>1, SavedFailedPaired DEF TypeOK, LockInv, StoreFailed
    <2>3. \A e \in Events : Paired(rows'[e])
        BY <1>7, <2>1, <2>2 DEF TypeOK, LockInv, StoreFailed
    <2> QED
        BY <1>5, <1>7, <2>3 DEF LockInv, StoreFailed
<1>8. ASSUME NEW w \in Workers, Crash(w)
      PROVE  LockInv'
    BY <1>8 DEF TypeOK, LockInv, Crash
<1>9. ASSUME NEW e \in Events, RetryLoad(e) \/ AckLoad(e)
      PROVE  LockInv'
    BY <1>9 DEF TypeOK, LockInv, RetryLoad, AckLoad
<1>10. CASE RetryCommit
    <2>1. admin.event \in Events /\ admin.copy \in Row
        BY <1>10 DEF TypeOK, RetryCommit, Request
    <2>2. Paired(Saved(rows[admin.event], admin.copy, Requeue(admin.copy)))
        BY <1>10, <2>1, SavedPaired, OpsUnlock, RowOpsType
        DEF TypeOK, LockInv, RetryCommit
    <2> QED
        BY <1>10, <2>1, <2>2 DEF TypeOK, LockInv, RetryCommit
<1>11. CASE AckCommit
    <2>1. admin.event \in Events /\ admin.copy \in Row
        BY <1>11 DEF TypeOK, AckCommit, Request
    <2>2. Paired(SavedAcknowledged(rows[admin.event], admin.copy))
        BY <1>11, <2>1, SavedAcknowledgedPaired DEF TypeOK, LockInv, AckCommit
    <2> QED
        BY <1>11, <2>1, <2>2 DEF TypeOK, LockInv, AckCommit
<1>12. ASSUME NEW e \in Events, BackoffElapses(e)
       PROVE  LockInv'
    <2>1. Paired([rows[e] EXCEPT !.next = "due"])
        BY DEF TypeOK, LockInv, Paired, Row
    <2> QED
        BY <1>12, <2>1 DEF TypeOK, LockInv, BackoffElapses
<1>13. ASSUME NEW e \in Events, LockAges(e)
       PROVE  LockInv'
    <2>1. Paired([rows[e] EXCEPT !.lockedAt = "stale"])
        BY <1>13, NoneAssumption
        DEF NoneAssumption, TypeOK, LockInv, LockAges, Paired, Row
    <2> QED
        BY <1>13, <2>1 DEF TypeOK, LockInv, LockAges
<1>14. CASE UNCHANGED vars
    BY <1>14 DEF LockInv, vars
<1> QED
    BY <1>1, <1>2, <1>3, <1>4, <1>6, <1>7, <1>8, <1>9, <1>10, <1>11, <1>12,
       <1>13, <1>14 DEF Next

(* A row names a worker exactly as long as it is locked, whatever the        *)
(* interleaving of workers, recovery and admin requests, each writing from   *)
(* its own copy (repositories/outbox.py:64-107, admin.py:111-117).           *)
THEOREM LocksPaired == Spec => []LockPair
<1>1. Init => LockInv
    BY DEF Init, LockInv, Paired, NewRow
<1>2. LockInv => LockPair
    BY DEF LockInv, LockPair, Paired
<1> QED
    BY <1>1, <1>2, LockStep, TypeCorrect, PTL DEF Spec

-----------------------------------------------------------------------------
(* Processed rows and their effects.                                         *)

(* No write but mark_processed stores the status "processed".                *)
LEMMA OnlyMarkProcessed ==
    ASSUME NEW row \in Row, NEW copy \in Row
    PROVE  /\ SavedFailed(row, copy).status = "processed"
                  => row.status = "processed"
           /\ Saved(row, copy, Requeue(copy)).status = "processed"
                  => row.status = "processed"
           /\ SavedAcknowledged(row, copy).status = row.status
<1>1. SavedFailed(row, copy).status = "processed" => row.status = "processed"
    BY DEF SavedFailed, SavedRetrying, Saved, NetChange, MarkRetrying,
           MarkDeadLettered, Unlock, Row
<1>2. Saved(row, copy, Requeue(copy)).status = "processed"
          => row.status = "processed"
    BY DEF Saved, NetChange, Requeue, Unlock, Row
<1>3. SavedAcknowledged(row, copy).status = row.status
    BY DEF SavedAcknowledged, Saved, NetChange, Acknowledge, Unlock, Row
<1> QED
    BY <1>1, <1>2, <1>3

LEMMA MarkedStep ==
    TypeOK /\ ProcessedMeansMarked /\ [Next]_vars => ProcessedMeansMarked'
<1> SUFFICES ASSUME TypeOK, ProcessedMeansMarked, [Next]_vars,
                    NEW e \in Tracked, rows'[e].status = "processed"
             PROVE  e \in subject'
    BY DEF ProcessedMeansMarked
<1>0. e \in Events /\ rows[e] \in Row
    BY OutboxAssumption DEF OutboxAssumption, TypeOK
<1>1. subject \subseteq subject'
    BY DEF Next, vars, Enqueue, Recover, Claim, Load, StoreProcessed,
           StoreFailed, Crash, RetryLoad, AckLoad, RetryCommit, AckCommit,
           BackoffElapses, LockAges
<1>2. SUFFICES ASSUME rows[e].status # "processed"
               PROVE  e \in subject'
    BY <1>1 DEF ProcessedMeansMarked
<1>3. ASSUME NEW w \in Workers, StoreProcessed(w)
      PROVE  e \in subject'
    <2>1. CASE e = work[w].event
        BY <1>3, <2>1 DEF StoreProcessed, Effect
    <2>2. CASE e # work[w].event
        BY <1>0, <1>2, <1>3, <2>2 DEF TypeOK, StoreProcessed
    <2> QED
        BY <2>1, <2>2
<1>4. ASSUME NEW w \in Workers, StoreFailed(w)
      PROVE  FALSE
    <2>1. work[w].copy \in Row
        BY <1>4 DEF TypeOK, Work, StoreFailed
    <2> QED
        BY <1>0, <1>2, <1>4, <2>1, OnlyMarkProcessed DEF TypeOK, StoreFailed
<1>5. CASE RetryCommit
    <2>1. admin.copy \in Row
        BY <1>5 DEF TypeOK, RetryCommit, Request
    <2> QED
        BY <1>0, <1>2, <1>5, <2>1, OnlyMarkProcessed DEF TypeOK, RetryCommit
<1>6. CASE AckCommit
    <2>1. admin.copy \in Row
        BY <1>6 DEF TypeOK, AckCommit, Request
    <2> QED
        BY <1>0, <1>2, <1>6, <2>1, OnlyMarkProcessed DEF TypeOK, AckCommit
<1>7. ASSUME NEW f \in Events, Enqueue(f) \/ BackoffElapses(f) \/ LockAges(f)
      PROVE  FALSE
    <2>1. rows'[e] \in {rows[e], NewRow, [rows[e] EXCEPT !.next = "due"],
                        [rows[e] EXCEPT !.lockedAt = "stale"]}
        BY <1>0, <1>7 DEF TypeOK, Enqueue, BackoffElapses, LockAges
    <2> QED
        BY <1>0, <1>2, <2>1 DEF NewRow, Row
<1>8. ASSUME NEW w \in Workers, Recover(w) \/ Claim(w)
      PROVE  FALSE
    <2>1. rows'[e] \in {rows[e], RecoverStale(rows[e]), Lock(rows[e], w)}
        BY <1>0, <1>8 DEF Recover, Claim
    <2> QED
        BY <1>0, <1>2, <2>1 DEF RecoverStale, Unlock, Lock, Row
<1>9. CASE rows' = rows
    BY <1>2, <1>9
<1> QED
    BY <1>3, <1>4, <1>5, <1>6, <1>7, <1>8, <1>9
    DEF Next, vars, Load, Crash, RetryLoad, AckLoad

(* A tracked row stored as processed has its message or partner event marked *)
(* processed, for any number of workers and any staleness of their copies    *)
(* (services/outbox.py:30-46).                                               *)
THEOREM ProcessedIsMarked == Spec => []ProcessedMeansMarked
<1>1. Init => ProcessedMeansMarked
    BY OutboxAssumption
    DEF OutboxAssumption, Init, ProcessedMeansMarked, NewRow
<1> QED
    BY <1>1, MarkedStep, TypeCorrect, PTL DEF Spec

-----------------------------------------------------------------------------
(* What a worker has in hand, for any number of workers.                     *)

LoopInv ==
    /\ \A w \in Workers : batch[w] \subseteq created
    /\ \A w \in Workers : pc[w] # "drain" => batch[w] = {}
    /\ \A w \in Workers : work[w] # None => work[w].event \in batch[w]
    /\ admin # None => admin.event \in created

LEMMA LoopStep ==
    TypeOK /\ LoopInv /\ [Next]_vars => LoopInv'
<1> SUFFICES ASSUME TypeOK, LoopInv, [Next]_vars
             PROVE  LoopInv'
    OBVIOUS
<1> USE DEF TypeOK, LoopInv
<1>1. ASSUME NEW w \in Workers, Claim(w)
      PROVE  LoopInv'
    <2>1. PICK claimed \in SUBSET {e \in Events : Due(e)} :
             /\ batch' = [batch EXCEPT ![w] = claimed]
             /\ pc' = [pc EXCEPT ![w] = IF claimed = {} THEN "recover"
                                        ELSE "drain"]
        BY <1>1 DEF Claim, Oldest
    <2>2. claimed \subseteq created
        BY <2>1 DEF Due
    <2>3. work[w] = None
        BY <1>1 DEF Claim
    <2> QED
        BY <1>1, <2>1, <2>2, <2>3 DEF Claim
<1>2. ASSUME NEW w \in Workers, Load(w)
      PROVE  LoopInv'
    BY <1>2 DEF Load
<1>3. ASSUME NEW w \in Workers, StoreProcessed(w) \/ StoreFailed(w)
      PROVE  LoopInv'
    BY <1>3 DEF StoreProcessed, StoreFailed, Advance
<1>4. ASSUME NEW w \in Workers, Crash(w) \/ Recover(w)
      PROVE  LoopInv'
    BY <1>4 DEF Crash, Recover
<1>5. ASSUME NEW e \in Events, \/ Enqueue(e) \/ RetryLoad(e) \/ AckLoad(e)
                               \/ BackoffElapses(e) \/ LockAges(e)
      PROVE  LoopInv'
    BY <1>5 DEF Enqueue, RetryLoad, AckLoad, BackoffElapses, LockAges
<1>6. CASE RetryCommit \/ AckCommit
    BY <1>6 DEF RetryCommit, AckCommit
<1>7. CASE UNCHANGED vars
    BY <1>7 DEF vars
<1> QED
    BY <1>1, <1>2, <1>3, <1>4, <1>5, <1>6, <1>7 DEF Next

LEMMA LoopCorrect == Spec => [](TypeOK /\ LoopInv)
<1>1. Init => LoopInv
    BY DEF Init, LoopInv
<1> QED
    BY <1>1, LoopStep, TypeCorrect, PTL DEF Spec

-----------------------------------------------------------------------------
(* Exclusive claims of the events no admin touches and whose locks do not    *)
(* outlive the recovery threshold.                                           *)

ExclusiveInv ==
    /\ ClaimExclusive
    /\ \A e \in Prompt : rows[e].lockedAt # "stale"
    /\ admin # None => admin.event \notin Prompt

(* Storing an attempt clears the lock or leaves it as it is.                 *)
LEMMA StoredLock ==
    ASSUME NEW row \in Row, NEW copy \in Row, row.lockedAt # "stale"
    PROVE  /\ Saved(row, copy, MarkProcessed(copy)).lockedAt # "stale"
           /\ SavedFailed(row, copy).lockedAt # "stale"
<1>0. None # "stale"
    BY NoneAssumption DEF NoneAssumption
<1>1. Saved(row, copy, MarkProcessed(copy)).lockedAt # "stale"
    BY <1>0 DEF Saved, NetChange, MarkProcessed, Unlock, Row
<1>2. SavedFailed(row, copy).lockedAt # "stale"
    BY <1>0 DEF SavedFailed, SavedRetrying, Saved, NetChange, MarkRetrying,
                MarkDeadLettered, Unlock, Row
<1> QED
    BY <1>1, <1>2

LEMMA PromptKept ==
    ASSUME ExclusiveInv, \A e \in Prompt : rows'[e] = rows[e],
           batch' = batch, admin' \in {admin, None}
    PROVE  ExclusiveInv'
BY DEF ExclusiveInv, ClaimExclusive

LEMMA ExclusiveStep ==
    ASSUME TypeOK, LoopInv, ExclusiveInv, [Next]_vars
    PROVE  ExclusiveInv'
<1> USE DEF ExclusiveInv, ClaimExclusive, TypeOK
<1>0. Prompt \subseteq Events
    BY DEF Prompt
<1>1. ASSUME NEW e \in Events, Enqueue(e)
      PROVE  ExclusiveInv'
    <2>1. \A w \in Workers : e \notin batch[w]
        BY <1>1 DEF Enqueue, LoopInv
    <2>2. NewRow.lockedAt # "stale"
        BY NoneAssumption DEF NoneAssumption, NewRow
    <2> QED
        BY <1>0, <1>1, <2>1, <2>2 DEF Enqueue
<1>2. ASSUME NEW w \in Workers, Recover(w)
      PROVE  ExclusiveInv'
    <2>1. \A e \in Prompt : rows'[e] = rows[e]
        BY <1>0, <1>2 DEF Recover, Stale
    <2>2. batch' = batch /\ admin' \in {admin, None}
        BY <1>2 DEF Recover
    <2> QED
        BY <2>1, <2>2, PromptKept
<1>3. ASSUME NEW w \in Workers, Claim(w)
      PROVE  ExclusiveInv'
    <2>1. PICK claimed \in SUBSET {e \in Events : Due(e)} :
             /\ rows' = [e \in Events |-> IF e \in claimed
                                          THEN Lock(rows[e], w) ELSE rows[e]]
             /\ batch' = [batch EXCEPT ![w] = claimed]
        BY <1>3 DEF Claim, Oldest
    <2>2. \A e \in claimed \cap Prompt, v \in Workers : e \notin batch[v]
        BY <2>1 DEF Due
    <2>3. \A e \in Events : /\ Lock(rows[e], w).status = "processing"
                            /\ Lock(rows[e], w).lockedBy = w
                            /\ Lock(rows[e], w).lockedAt # "stale"
        BY DEF Lock, Row
    <2>4. \A v \in Workers : batch'[v] = IF v = w THEN claimed ELSE batch[v]
        BY <2>1
    <2>5. ASSUME NEW e \in Prompt, NEW v \in Workers, e \in batch'[v]
          PROVE  /\ rows'[e].status = "processing"
                 /\ rows'[e].lockedBy = v
                 /\ \A u \in Workers : e \in batch'[u] => u = v
        <3>1. CASE e \in claimed
            BY <1>0, <2>1, <2>2, <2>3, <2>4, <2>5, <3>1
        <3>2. CASE e \notin claimed
            BY <1>0, <2>1, <2>4, <2>5, <3>2
        <3> QED
            BY <3>1, <3>2
    <2>6. \A e \in Prompt : rows'[e].lockedAt # "stale"
        BY <1>0, <2>1, <2>3
    <2> QED
        BY <1>3, <2>5, <2>6 DEF Claim
<1>4. ASSUME NEW w \in Workers, StoreProcessed(w) \/ StoreFailed(w)
      PROVE  ExclusiveInv'
    <2> DEFINE e == work[w].event
    <2>1. e \in batch[w] /\ e \in Events /\ work[w].copy \in Row
        BY <1>4 DEF LoopInv, StoreProcessed, StoreFailed, Work
    <2>2. batch' = [batch EXCEPT ![w] = batch[w] \ {e}] /\ admin' = admin
        BY <1>4 DEF StoreProcessed, StoreFailed, Advance
    <2>3. \A f \in Events : f # e => rows'[f] = rows[f]
        BY <1>4 DEF StoreProcessed, StoreFailed
    <2>4. e \in Prompt => rows'[e].lockedAt # "stale"
        BY <1>4, <2>1, StoredLock DEF StoreProcessed, StoreFailed
    <2>5. \A v \in Workers : /\ batch'[v] \subseteq batch[v]
                             /\ e \in Prompt => e \notin batch'[v]
        BY <2>1, <2>2
    <2> QED
        BY <1>0, <2>2, <2>3, <2>4, <2>5
<1>5. ASSUME NEW w \in Workers, Load(w) \/ Crash(w)
      PROVE  ExclusiveInv'
    BY <1>5 DEF Load, Crash
<1>6. ASSUME NEW e \in Events, BackoffElapses(e)
      PROVE  ExclusiveInv'
    <2>1. \A f \in Events : /\ rows'[f].status = rows[f].status
                            /\ rows'[f].lockedBy = rows[f].lockedBy
                            /\ rows'[f].lockedAt = rows[f].lockedAt
        BY <1>6 DEF BackoffElapses, Row
    <2> QED
        BY <1>0, <1>6, <2>1 DEF BackoffElapses
<1>7. ASSUME NEW e \in Events, LockAges(e)
      PROVE  ExclusiveInv'
    <2>1. e \notin Prompt
        BY <1>7 DEF LockAges, Prompt
    <2>2. \A f \in Prompt : rows'[f] = rows[f]
        BY <1>0, <1>7, <2>1 DEF LockAges
    <2>3. batch' = batch /\ admin' \in {admin, None}
        BY <1>7 DEF LockAges
    <2> QED
        BY <2>2, <2>3, PromptKept
<1>8. ASSUME NEW e \in Events, RetryLoad(e) \/ AckLoad(e)
      PROVE  ExclusiveInv'
    <2>1. e \notin Prompt
        BY <1>8 DEF RetryLoad, AckLoad, Prompt
    <2> QED
        BY <1>8, <2>1 DEF RetryLoad, AckLoad
<1>9. CASE RetryCommit \/ AckCommit
    <2>1. \A f \in Prompt : rows'[f] = rows[f]
        BY <1>0, <1>9 DEF RetryCommit, AckCommit
    <2>2. batch' = batch /\ admin' \in {admin, None}
        BY <1>9 DEF RetryCommit, AckCommit
    <2> QED
        BY <2>1, <2>2, PromptKept
<1>10. CASE UNCHANGED vars
    BY <1>10, PromptKept DEF vars
<1> QED
    BY <1>1, <1>2, <1>3, <1>4, <1>5, <1>6, <1>7, <1>8, <1>9, <1>10 DEF Next

(* Any number of workers: an event whose lock does not outlive the recovery  *)
(* threshold and that no admin touches is in the batch of one worker at a    *)
(* time, and its row names that worker, whatever becomes of the other events *)
(* (repositories/outbox.py:20-40).                                           *)
THEOREM ClaimsAreExclusive == Spec => []ClaimExclusive
<1>1. Init => ExclusiveInv
    BY NoneAssumption
    DEF NoneAssumption, Init, ExclusiveInv, ClaimExclusive, NewRow, Prompt
<1>2. TypeOK /\ LoopInv /\ ExclusiveInv /\ [Next]_vars => ExclusiveInv'
    BY ExclusiveStep
<1>3. ExclusiveInv => ClaimExclusive
    BY DEF ExclusiveInv
<1> QED
    BY <1>1, <1>2, <1>3, LoopCorrect, PTL DEF Spec

-----------------------------------------------------------------------------
(* Two workers: a claim can always be recovered. What a worker writes back   *)
(* clears a status it did not load only where another worker is done with    *)
(* the event: a row that became final while a worker holds the event is in   *)
(* no other batch, and stays as the worker loads it.                         *)

Final == {"processed", "dead_lettered"}

LockedAsClaimed(row) ==
    /\ row.status \in {"pending", "retrying"} => row.lockedAt = None
    /\ row.status = "processing" => row.lockedAt # None

(* The row is still final as the copy says, if it does.                      *)
StillFinal(row, copy) ==
    copy.status \in Final => /\ row.status = copy.status
                             /\ row.lockedAt = None <=> copy.lockedAt = None

RecoverInv ==
    /\ admin = None
    /\ \A e \in Events : LockedAsClaimed(rows[e])
    /\ \A w \in Workers : \A e \in batch[w] :
          /\ rows[e].status # "pending"
          /\ rows[e].status \in Final =>
                \A v \in Workers : e \in batch[v] => v = w
    /\ \A w \in Workers : work[w] # None =>
          /\ LockedAsClaimed(work[w].copy)
          /\ work[w].copy.status # "pending"
          /\ StillFinal(rows[work[w].event], work[w].copy)

LEMMA StoredAsClaimed ==
    ASSUME NEW row \in Row, NEW copy \in Row, LockedAsClaimed(row),
           LockedAsClaimed(copy), copy.status # "pending",
           StillFinal(row, copy), row.status # "pending"
    PROVE  \A r \in {Saved(row, copy, MarkProcessed(copy)),
                     SavedFailed(row, copy)} :
              LockedAsClaimed(r) /\ r.status # "pending"
<1>1. copy.status \in {"processing", "retrying"} \cup Final
    BY DEF Row, Final
<1>2. ASSUME NEW obj \in {MarkProcessed(copy), MarkDeadLettered(copy),
                          MarkRetrying(copy)}
      PROVE  LET r == Saved(row, copy, obj)
             IN  LockedAsClaimed(r) /\ r.status # "pending"
    <2>1. obj.lockedAt = None /\ obj.status \in {"retrying"} \cup Final
        BY <1>2 DEF MarkProcessed, MarkDeadLettered, MarkRetrying, Unlock, Row,
           Final
    <2>2. CASE copy.status = "processing"
        BY <2>1, <2>2
        DEF Saved, NetChange, LockedAsClaimed, Row, Final
    <2>3. CASE copy.status = "retrying"
        BY <2>1, <2>3
        DEF Saved, NetChange, LockedAsClaimed, Row, Final
    <2>4. CASE copy.status \in Final
        BY <2>1, <2>4
        DEF Saved, NetChange, LockedAsClaimed, StillFinal, Row, Final
    <2> QED
        BY <1>1, <2>2, <2>3, <2>4
<1>3. LET r == Saved(row, copy, MarkRetrying(copy))
      IN  /\ SavedRetrying(row, copy).status = r.status
          /\ SavedRetrying(row, copy).lockedAt = r.lockedAt
    BY DEF SavedRetrying, Saved
<1> QED
    BY <1>2, <1>3 DEF SavedFailed, LockedAsClaimed

LEMMA RecoverStep ==
    ASSUME \A u, v, w \in Workers : u = v \/ u = w \/ v = w, AdminEvents = {},
           TypeOK, LoopInv, RecoverInv, [Next]_vars
    PROVE  RecoverInv'
<1> USE DEF RecoverInv, TypeOK
<1>1. ASSUME NEW e \in Events, Enqueue(e)
      PROVE  RecoverInv'
    <2>1. \A w \in Workers : e \notin batch[w]
        BY <1>1 DEF Enqueue, LoopInv
    <2>2. LockedAsClaimed(NewRow)
        BY DEF LockedAsClaimed, NewRow
    <2>3. \A w \in Workers : work[w] # None => work[w].event # e
        BY <2>1 DEF LoopInv
    <2> QED
        BY <1>1, <2>1, <2>2, <2>3 DEF Enqueue
<1>2. ASSUME NEW w \in Workers, Recover(w)
      PROVE  RecoverInv'
    <2>1. \A e \in Events : LockedAsClaimed(RecoverStale(rows[e]))
        BY DEF LockedAsClaimed, RecoverStale, Unlock, Row
    <2>2. \A e \in Events :
             /\ rows'[e].status # "pending" \/ rows'[e] = rows[e]
             /\ rows[e].status \in Final \/ rows'[e].status \in Final =>
                   rows'[e] = rows[e]
        BY <1>2 DEF Recover, Stale, RecoverStale, Unlock, Row, Final
    <2>3. ASSUME NEW v \in Workers, work[v] # None
          PROVE  StillFinal(rows'[work[v].event], work[v].copy)
        BY <2>2, <2>3 DEF StillFinal, Work
    <2>4. \A e \in Events : LockedAsClaimed(rows'[e])
        BY <1>2, <2>1 DEF Recover
    <2> QED
        BY <1>2, <2>2, <2>3, <2>4 DEF Recover
<1>3. ASSUME NEW w \in Workers, Claim(w)
      PROVE  RecoverInv'
    <2>1. PICK claimed \in SUBSET {e \in Events : Due(e)} :
             /\ rows' = [e \in Events |-> IF e \in claimed
                                          THEN Lock(rows[e], w) ELSE rows[e]]
             /\ batch' = [batch EXCEPT ![w] = claimed]
        BY <1>3 DEF Claim, Oldest
    <2>2. \A e \in Events : /\ Lock(rows[e], w).status = "processing"
                            /\ LockedAsClaimed(Lock(rows[e], w))
        BY NoneAssumption DEF NoneAssumption, LockedAsClaimed, Lock, Row
    <2>3. \A e \in claimed : rows[e].status \notin Final
        BY <2>1 DEF Due, Final
    <2>4. \A v \in Workers : batch'[v] = IF v = w THEN claimed ELSE batch[v]
        BY <2>1
    <2>5. ASSUME NEW v \in Workers, NEW e \in batch'[v]
          PROVE  /\ rows'[e].status # "pending"
                 /\ rows'[e].status \in Final =>
                       \A u \in Workers : e \in batch'[u] => u = v
        <3>1. e \in Events
            BY <2>1, <2>4
        <3>2. CASE e \in claimed
            BY <2>1, <2>2, <3>1, <3>2 DEF Final
        <3>3. CASE e \notin claimed
            BY <2>1, <2>4, <2>5, <3>1, <3>3
        <3> QED
            BY <3>2, <3>3
    <2>6. ASSUME NEW v \in Workers, work[v] # None
          PROVE  StillFinal(rows'[work[v].event], work[v].copy)
        BY <2>1, <2>3, <2>6 DEF StillFinal, Work
    <2>7. \A e \in Events : LockedAsClaimed(rows'[e])
        BY <2>1, <2>2
    <2> QED
        BY <1>3, <2>5, <2>6, <2>7 DEF Claim
<1>4. ASSUME NEW w \in Workers, Load(w)
      PROVE  RecoverInv'
    <2>1. PICK e \in batch[w] :
             work' = [work EXCEPT ![w] = [event |-> e, copy |-> rows[e]]]
        BY <1>4 DEF Load
    <2>2. e \in Events /\ rows[e].status # "pending"
        BY <2>1
    <2>3. StillFinal(rows[e], rows[e])
        BY DEF StillFinal
    <2>4. \A v \in Workers : work'[v] = IF v = w
                                        THEN [event |-> e, copy |-> rows[e]]
                                        ELSE work[v]
        BY <2>1
    <2> QED
        BY <1>4, <2>2, <2>3, <2>4 DEF Load
<1>5. ASSUME NEW w \in Workers, StoreProcessed(w) \/ StoreFailed(w)
      PROVE  RecoverInv'
    <2> DEFINE e == work[w].event
               copy == work[w].copy
    <2>1. /\ work[w] # None /\ e \in batch[w] /\ e \in Events /\ copy \in Row
          /\ rows[e] \in Row
        BY <1>5 DEF LoopInv, StoreProcessed, StoreFailed, Work
    <2>2. /\ batch' = [batch EXCEPT ![w] = batch[w] \ {e}]
          /\ work' = [work EXCEPT ![w] = None]
          /\ admin' = admin
        BY <1>5 DEF StoreProcessed, StoreFailed, Advance
    <2>3. \A f \in Events : f # e => rows'[f] = rows[f]
        BY <1>5 DEF StoreProcessed, StoreFailed
    <2>4. LockedAsClaimed(rows'[e]) /\ rows'[e].status # "pending"
        <3>1. rows'[e] \in {Saved(rows[e], copy, MarkProcessed(copy)),
                            SavedFailed(rows[e], copy)}
            BY <1>5, <2>1 DEF StoreProcessed, StoreFailed
        <3>2. /\ LockedAsClaimed(rows[e]) /\ LockedAsClaimed(copy)
              /\ copy.status # "pending" /\ rows[e].status # "pending"
              /\ StillFinal(rows[e], copy)
            BY <2>1
        <3> QED
            BY <2>1, <3>1, <3>2, StoredAsClaimed
    <2>5. \A v \in Workers : batch'[v] = IF v = w THEN batch[v] \ {e}
                                         ELSE batch[v]
        BY <2>2
    <2>6. ASSUME NEW v \in Workers, NEW f \in batch'[v]
          PROVE  /\ rows'[f].status # "pending"
                 /\ rows'[f].status \in Final =>
                       \A u \in Workers : f \in batch'[u] => u = v
        <3>1. f \in Events /\ f \in batch[v]
            BY <2>1, <2>5, <2>6
        <3>2. CASE f = e
            <4>1. v # w
                BY <2>5, <2>6, <3>2
            <4>2. ASSUME NEW u \in Workers, f \in batch'[u]
                  PROVE  u = v
                <5>1. u # w
                    BY <2>5, <3>2, <4>2
                <5> QED
                    BY <4>1, <5>1
            <4> QED
                BY <2>4, <3>2, <4>2
        <3>3. CASE f # e
            BY <2>3, <2>5, <3>1, <3>3
        <3> QED
            BY <3>2, <3>3
    <2>7. ASSUME NEW v \in Workers, work'[v] # None
          PROVE  /\ v # w /\ work[v] = work'[v] /\ work[v].event \in Events
                 /\ StillFinal(rows'[work[v].event], work[v].copy)
        <3>1. /\ v # w /\ work[v] = work'[v] /\ work[v] # None
              /\ work[v].event \in Events /\ work[v].event \in batch[v]
            BY <2>2, <2>7 DEF Work, LoopInv
        <3>2. CASE work[v].event = e
            <4>1. rows[e].status \notin Final
                BY <2>1, <3>1, <3>2
            <4>2. work[v].copy.status \notin Final
                BY <3>1, <3>2, <4>1 DEF StillFinal
            <4> QED
                BY <3>1, <4>2 DEF StillFinal
        <3>3. CASE work[v].event # e
            BY <2>3, <3>1, <3>3
        <3> QED
            BY <3>1, <3>2, <3>3
    <2>8. \A f \in Events : LockedAsClaimed(rows'[f])
        BY <2>3, <2>4
    <2> QED
        BY <2>2, <2>6, <2>7, <2>8
<1>6. ASSUME NEW w \in Workers, Crash(w)
      PROVE  RecoverInv'
    BY <1>6 DEF Crash
<1>7. ASSUME NEW e \in Events, BackoffElapses(e) \/ LockAges(e)
      PROVE  RecoverInv'
    <2>1. \A f \in Events : /\ rows'[f].status = rows[f].status
                            /\ rows'[f].lockedAt = None <=>
                                  rows[f].lockedAt = None
        BY <1>7, NoneAssumption
        DEF NoneAssumption, BackoffElapses, LockAges, Row
    <2>2. \A f \in Events : LockedAsClaimed(rows'[f])
        BY <2>1 DEF LockedAsClaimed
    <2>3. ASSUME NEW w \in Workers, work[w] # None
          PROVE  StillFinal(rows'[work[w].event], work[w].copy)
        BY <2>1, <2>3 DEF StillFinal, Work
    <2> QED
        BY <1>7, <2>1, <2>2, <2>3 DEF BackoffElapses, LockAges
<1>8. ASSUME NEW e \in Events, RetryLoad(e) \/ AckLoad(e)
      PROVE  FALSE
    BY <1>8 DEF RetryLoad, AckLoad
<1>9. ~RetryCommit /\ ~AckCommit
    BY DEF RetryCommit, AckCommit
<1>10. CASE UNCHANGED vars
    BY <1>10 DEF vars
<1> QED
    BY <1>1, <1>2, <1>3, <1>4, <1>5, <1>6, <1>7, <1>8, <1>9, <1>10 DEF Next

(* At most two workers and no admin: a row in processing always carries the  *)
(* lock timestamp the recovery looks for, however slow a worker was and      *)
(* whatever it still writes (repositories/outbox.py:42-62).                  *)
THEOREM ClaimsAlwaysRecoverable ==
    ASSUME \A u, v, w \in Workers : u = v \/ u = w \/ v = w, AdminEvents = {}
    PROVE  Spec => []ClaimsRecoverable
<1>1. Init => RecoverInv
    BY DEF Init, RecoverInv, LockedAsClaimed, NewRow
<1>2. TypeOK /\ LoopInv /\ RecoverInv /\ [Next]_vars => RecoverInv'
    BY RecoverStep
<1>3. RecoverInv => ClaimsRecoverable
    BY DEF RecoverInv, LockedAsClaimed, ClaimsRecoverable
<1> QED
    BY <1>1, <1>2, <1>3, LoopCorrect, PTL DEF Spec

-----------------------------------------------------------------------------
(* One worker: what it has in hand is open, and what is settled stays so     *)
(* until an admin retries it.                                                *)

Open == {"pending", "processing"}

SoleInv(w) ==
    /\ \A e \in batch[w] : rows[e].status \in Open
    /\ work[w] # None => work[w].copy.status \in Open
    /\ admin # None /\ admin.op = "ack" =>
          rows[admin.event].status = "dead_lettered"

(* The same of every worker: all that the delivery contract needs.           *)
OpenInv == \A w \in Workers : SoleInv(w)

(* The status each write leaves, for a worker's copy of an open row.         *)
LEMMA StoredStatus ==
    ASSUME NEW row \in Row, NEW copy \in Row
    PROVE  /\ copy.status \in Open =>
                 /\ Saved(row, copy, MarkProcessed(copy)).status = "processed"
                 /\ SavedFailed(row, copy).status
                        \in {"retrying", "dead_lettered"}
           /\ Saved(row, copy, Requeue(copy)).status \in {row.status, "pending"}
           /\ SavedAcknowledged(row, copy).status = row.status
<1>1. ASSUME copy.status \in Open
      PROVE  Saved(row, copy, MarkProcessed(copy)).status = "processed"
    BY <1>1 DEF Open, Saved, NetChange, MarkProcessed, Unlock, Row
<1>2. ASSUME copy.status \in Open
      PROVE  SavedFailed(row, copy).status \in {"retrying", "dead_lettered"}
    BY <1>2 DEF Open, SavedFailed, SavedRetrying, Saved, NetChange,
                MarkRetrying, MarkDeadLettered, Unlock, Row
<1>3. Saved(row, copy, Requeue(copy)).status \in {row.status, "pending"}
    BY DEF Saved, NetChange, Requeue, Unlock, Row
<1> QED
    BY <1>1, <1>2, <1>3, OnlyMarkProcessed

LEMMA SoleStep ==
    ASSUME NEW w0, Workers = {w0}, TypeOK, LoopInv, SoleInv(w0), [Next]_vars
    PROVE  SoleInv(w0)'
<1> USE DEF SoleInv, TypeOK
<1>1. ASSUME NEW e \in Events, Enqueue(e)
      PROVE  SoleInv(w0)'
    <2>1. e \notin batch[w0] /\ (admin # None => admin.event # e)
        BY <1>1 DEF Enqueue, LoopInv
    <2> QED
        BY <1>1, <2>1 DEF Enqueue
<1>2. CASE Recover(w0)
    <2>1. batch[w0] = {}
        BY <1>2 DEF Recover, LoopInv
    <2>2. \A e \in Events : rows[e].status = "dead_lettered" =>
                               rows'[e] = rows[e]
        BY <1>2 DEF Recover, Stale
    <2>3. admin # None => admin.event \in Events
        BY DEF Request
    <2> QED
        BY <1>2, <2>1, <2>2, <2>3 DEF Recover
<1>3. CASE Claim(w0)
    <2>1. PICK claimed \in SUBSET {e \in Events : Due(e)} :
             /\ rows' = [e \in Events |-> IF e \in claimed
                                          THEN Lock(rows[e], w0) ELSE rows[e]]
             /\ batch' = [batch EXCEPT ![w0] = claimed]
        BY <1>3 DEF Claim, Oldest
    <2>2. \A e \in claimed : rows'[e].status \in Open
        <3>1. \A e \in Events : Lock(rows[e], w0).status = "processing"
            BY DEF Lock, Row
        <3> QED
            BY <2>1, <3>1 DEF Open
    <2>3. \A e \in Events : rows[e].status = "dead_lettered" =>
                               rows'[e] = rows[e]
        BY <2>1 DEF Due
    <2>4. admin # None => admin.event \in Events
        BY DEF Request
    <2> QED
        BY <1>3, <2>1, <2>2, <2>3, <2>4 DEF Claim
<1>4. CASE Load(w0)
    <2>1. PICK e \in batch[w0] :
             work' = [work EXCEPT ![w0] = [event |-> e, copy |-> rows[e]]]
        BY <1>4 DEF Load
    <2> QED
        BY <1>4, <2>1 DEF Load
<1>5. CASE StoreProcessed(w0) \/ StoreFailed(w0)
    <2> DEFINE e == work[w0].event
    <2>1. e \in batch[w0] /\ work'[w0] = None /\ batch'[w0] = batch[w0] \ {e}
        BY <1>5 DEF LoopInv, StoreProcessed, StoreFailed, Advance
    <2>2. \A f \in Events : f # e => rows'[f] = rows[f]
        BY <1>5 DEF StoreProcessed, StoreFailed
    <2>3. admin # None /\ admin.op = "ack" =>
             admin.event # e /\ admin.event \in Events
        BY <2>1 DEF Open, Request
    <2>4. admin' = admin
        BY <1>5 DEF StoreProcessed, StoreFailed
    <2> QED
        BY <2>1, <2>2, <2>3, <2>4
<1>6. CASE Crash(w0)
    BY <1>6 DEF Crash
<1>7. ASSUME NEW e \in Events, RetryLoad(e) \/ AckLoad(e)
      PROVE  SoleInv(w0)'
    BY <1>7 DEF RetryLoad, AckLoad, MayAcknowledge
<1>8. CASE RetryCommit
    <2>1. admin.event \in Events /\ admin.copy \in Row
        BY <1>8 DEF RetryCommit, Request
    <2>2. \A f \in Events : rows'[f].status \in {rows[f].status, "pending"}
        BY <1>8, <2>1, StoredStatus DEF RetryCommit
    <2> QED
        BY <1>8, <2>2 DEF RetryCommit, Open
<1>9. CASE AckCommit
    <2>1. admin.event \in Events /\ admin.copy \in Row
        BY <1>9 DEF AckCommit, Request
    <2>2. \A f \in Events : rows'[f].status = rows[f].status
        BY <1>9, <2>1, StoredStatus DEF AckCommit
    <2> QED
        BY <1>9, <2>2 DEF AckCommit
<1>10. ASSUME NEW e \in Events, BackoffElapses(e) \/ LockAges(e)
       PROVE  SoleInv(w0)'
    <2>1. \A f \in Events : rows'[f].status = rows[f].status
        BY <1>10 DEF BackoffElapses, LockAges, Row
    <2>2. admin # None => admin.event \in Events
        BY DEF Request
    <2> QED
        BY <1>10, <2>1, <2>2 DEF BackoffElapses, LockAges
<1>11. CASE UNCHANGED vars
    BY <1>11 DEF vars
<1> QED
    BY <1>1, <1>2, <1>3, <1>4, <1>5, <1>6, <1>7, <1>8, <1>9, <1>10, <1>11
    DEF Next

LEMMA SoleCorrect ==
    ASSUME NEW w0, Workers = {w0}
    PROVE  Spec => [](TypeOK /\ LoopInv /\ SoleInv(w0))
<1>1. Init => SoleInv(w0)
    BY DEF Init, SoleInv
<1>2. TypeOK /\ LoopInv /\ SoleInv(w0) /\ [Next]_vars => SoleInv(w0)'
    BY SoleStep
<1> QED
    BY <1>1, <1>2, LoopCorrect, PTL DEF Spec

(* With one worker, an acknowledgement lands on a row that is still          *)
(* dead-lettered, though the status was checked on an earlier copy           *)
(* (admin.py:139-141).                                                       *)
THEOREM AckKeepsTerminalState ==
    ASSUME NEW w0, Workers = {w0}
    PROVE  Spec => AckLandsOnDeadLetter
<1>1. SoleInv(w0) =>
         [AckCommit => rows[admin.event].status = "dead_lettered"]_vars
    BY DEF SoleInv, AckCommit
<1> QED
    BY <1>1, SoleCorrect, PTL DEF AckLandsOnDeadLetter

-----------------------------------------------------------------------------
(* Outbox implements Delivery, with one worker and with timely ones.         *)

(* A step that leaves every event's phase alone and starts or ends no retry  *)
(* request is invisible in the abstract specification.                       *)
LEMMA Invisible ==
    ASSUME created' = created, subject' = subject, admin' = admin,
           \A e \in Events : Phase(e)' = Phase(e)
    PROVE  UNCHANGED Contract!vars
BY DEF Contract!vars

LEMMA ContractInit == Init => Contract!Init
BY DEF Init, Contract!Init, Phase

(* What Phase tells apart, without the CASE.                                 *)
LEMMA PhaseValue ==
    ASSUME NEW e \in Events
    PROVE  /\ Phase(e) = "absent" <=> e \notin created
           /\ Phase(e) = "delivered"
                  <=> e \in created /\ rows[e].status = "processed"
           /\ Phase(e) = "given_up"
                  <=> e \in created /\ rows[e].status = "dead_lettered"
           /\ Phase(e) = "open"
                  <=> /\ e \in created
                      /\ rows[e].status \notin {"processed", "dead_lettered"}
           /\ Phase(e) \in {"absent", "open", "delivered", "given_up"}
BY DEF Phase

(* A commit that changes one row changes no other event's phase.             *)
LEMMA PhaseFrame ==
    ASSUME created' = created, NEW e \in Events, rows'[e].status = rows[e].status
    PROVE  Phase(e)' = Phase(e)
BY DEF Phase

LEMMA ContractStep ==
    ASSUME TypeOK, LoopInv, OpenInv, [Next]_vars
    PROVE  [Contract!Next]_(Contract!vars)
<1> USE DEF TypeOK
<1>1. ASSUME NEW e \in Events, Enqueue(e)
      PROVE  Contract!Accept(e)
    <2>1. Phase(e) = "absent" /\ Phase(e)' = "open"
        BY <1>1 DEF Enqueue, Phase, NewRow
    <2>2. \A f \in Events : f # e => Phase(f)' = Phase(f)
        BY <1>1 DEF Enqueue, Phase
    <2>3. subject' = subject /\ admin' = admin
        BY <1>1 DEF Enqueue
    <2> QED
        BY <2>1, <2>2, <2>3 DEF Contract!Accept
<1>2. ASSUME NEW w \in Workers, Recover(w)
      PROVE  UNCHANGED Contract!vars
    <2>1. \A e \in Events : rows'[e] \in {rows[e], RecoverStale(rows[e])}
                            /\ (rows'[e] = rows[e] \/ Stale(e))
        BY <1>2 DEF Recover
    <2>2. \A e \in Events : RecoverStale(rows[e]).status = "retrying"
        BY DEF RecoverStale, Unlock, Row
    <2>3. created' = created /\ subject' = subject /\ admin' = admin
        BY <1>2 DEF Recover
    <2>4. \A e \in Events : Phase(e)' = Phase(e)
        BY <2>1, <2>2, <2>3 DEF Phase, Stale
    <2> QED
        BY <2>3, <2>4, Invisible
<1>3. ASSUME NEW w \in Workers, Claim(w)
      PROVE  UNCHANGED Contract!vars
    <2>1. \A e \in Events : \/ rows'[e] = rows[e]
                            \/ Due(e) /\ rows'[e] = Lock(rows[e], w)
        BY <1>3 DEF Claim, Oldest
    <2>2. \A e \in Events : Lock(rows[e], w).status = "processing"
        BY DEF Lock, Row
    <2>3. created' = created /\ subject' = subject /\ admin' = admin
        BY <1>3 DEF Claim
    <2>4. \A e \in Events : Phase(e)' = Phase(e)
        BY <2>1, <2>2, <2>3 DEF Phase, Due
    <2> QED
        BY <2>3, <2>4, Invisible
<1>4. ASSUME NEW w \in Workers, NEW e \in Events, e = work[w].event,
             StoreProcessed(w) \/ StoreFailed(w)
      PROVE  /\ Phase(e) = "open"
             /\ rows[e] \in Row /\ work[w].copy \in Row
             /\ work[w].copy.status \in Open
             /\ created' = created /\ admin' = admin /\ e \in created
             /\ \A f \in Events : f # e => Phase(f)' = Phase(f)
    <2>1. work[w] # None /\ created' = created /\ admin' = admin
        BY <1>4 DEF StoreProcessed, StoreFailed
    <2>2. e \in batch[w] /\ work[w] \in Work
        BY <1>4, <2>1 DEF LoopInv
    <2>3. e \in created /\ rows[e].status \in Open
        BY <2>2 DEF LoopInv, OpenInv, SoleInv
    <2>4. Phase(e) = "open"
        BY <2>3 DEF Phase, Open
    <2>5. \A f \in Events : f # e => rows'[f] = rows[f]
        BY <1>4 DEF StoreProcessed, StoreFailed
    <2>6. \A f \in Events : f # e => Phase(f)' = Phase(f)
        BY <2>1, <2>5 DEF Phase
    <2> QED
        BY <2>1, <2>2, <2>3, <2>4, <2>6 DEF Work, OpenInv, SoleInv
<1>5. ASSUME NEW w \in Workers, NEW e \in Events, e = work[w].event,
             StoreProcessed(w)
      PROVE  Contract!Deliver(e)
    <2>1. rows'[e].status = "processed" /\ subject' = subject \cup Effect(e)
        <3>1. rows'[e] = Saved(rows[e], work[w].copy,
                               MarkProcessed(work[w].copy))
            BY <1>5 DEF StoreProcessed
        <3>2. subject' = subject \cup Effect(e)
            BY <1>5 DEF StoreProcessed
        <3> QED
            BY <1>4, <1>5, <3>1, <3>2, StoredStatus
    <2>2. Phase(e)' = "delivered"
        BY <1>4, <1>5, <2>1 DEF Phase
    <2> QED
        BY <1>4, <1>5, <2>1, <2>2 DEF Contract!Deliver, Effect
<1>6. ASSUME NEW w \in Workers, NEW e \in Events, e = work[w].event,
             StoreFailed(w)
      PROVE  Contract!Fail(e)
    <2>1. /\ rows'[e].status \in {"retrying", "dead_lettered"}
          /\ subject' \in {subject, subject \cup Effect(e)}
        <3>1. rows'[e] = SavedFailed(rows[e], work[w].copy)
            BY <1>6 DEF StoreFailed
        <3>2. subject' \in {subject, subject \cup Effect(e)}
            BY <1>6 DEF StoreFailed, Effect
        <3> QED
            BY <1>4, <1>6, <3>1, <3>2, StoredStatus
    <2>2. Phase(e)' \in {Phase(e), "given_up"}
        BY <1>4, <1>6, <2>1 DEF Phase
    <2>3. \/ \A f \in Events : Phase(f)' = Phase(f)
          \/ /\ Phase(e)' = "given_up"
             /\ \A f \in Events : f # e => Phase(f)' = Phase(f)
        BY <1>4, <1>6, <2>2
    <2> QED
        BY <1>4, <1>6, <2>1, <2>3 DEF Contract!Fail, Effect
<1>7. ASSUME NEW w \in Workers, Load(w) \/ Crash(w)
      PROVE  UNCHANGED Contract!vars
    <2>1. created' = created /\ subject' = subject /\ admin' = admin /\ rows' = rows
        BY <1>7 DEF Load, Crash
    <2> QED
        BY <2>1, PhaseFrame, Invisible
<1>8. ASSUME NEW e \in Events, RetryLoad(e)
      PROVE  Contract!Ask(e)
    <2>1. Phase(e) # "absent"
        BY <1>8 DEF RetryLoad, Phase
    <2>2. \A f \in Events : Phase(f)' = Phase(f)
        BY <1>8 DEF RetryLoad, Phase
    <2>3. admin = None /\ admin' # None /\ admin'.op = "retry" /\ admin'.event = e
        BY <1>8, NoneAssumption DEF RetryLoad, Request
    <2> QED
        BY <1>8, <2>1, <2>2, <2>3 DEF Contract!Ask, RetryLoad
<1>9. ASSUME NEW e \in Events, AckLoad(e)
      PROVE  UNCHANGED Contract!vars
    <2>1. \A f \in Events : Phase(f)' = Phase(f)
        BY <1>9 DEF AckLoad, Phase
    <2> QED
        BY <1>9, <2>1 DEF AckLoad, Contract!vars
<1>10. ASSUME NEW e \in Events, e = admin.event, RetryCommit
       PROVE  Contract!Reopen(e)
    <2>1. e \in created /\ admin.copy \in Row
        BY <1>10 DEF RetryCommit, Request, LoopInv
    <2>2. rows'[e].status \in {rows[e].status, "pending"}
        BY <1>10, <2>1, StoredStatus DEF RetryCommit
    <2>3. Phase(e)' \in {Phase(e), "open"}
        BY <1>10, <2>1, <2>2 DEF Phase, RetryCommit
    <2>4. \A f \in Events : f # e => Phase(f)' = Phase(f)
        BY <1>10 DEF Phase, RetryCommit
    <2>5. \/ \A f \in Events : Phase(f)' = Phase(f)
          \/ /\ Phase(e)' = "open"
             /\ \A f \in Events : f # e => Phase(f)' = Phase(f)
        BY <2>3, <2>4
    <2> QED
        BY <1>10, <2>5 DEF Contract!Reopen, RetryCommit
<1>11. CASE AckCommit
    <2>1. admin.event \in Events /\ admin.copy \in Row
        BY <1>11 DEF AckCommit, Request
    <2>2. \A f \in Events : rows'[f].status = rows[f].status
        BY <1>11, <2>1, StoredStatus DEF AckCommit
    <2>3. \A f \in Events : Phase(f)' = Phase(f)
        BY <1>11, <2>2, PhaseFrame DEF AckCommit
    <2> QED
        BY <1>11, <2>3 DEF AckCommit, Contract!vars
<1>12. ASSUME NEW e \in Events, BackoffElapses(e) \/ LockAges(e)
       PROVE  UNCHANGED Contract!vars
    <2>1. created' = created /\ subject' = subject /\ admin' = admin
        BY <1>12 DEF BackoffElapses, LockAges
    <2>2. \A f \in Events : rows'[f].status = rows[f].status
        BY <1>12 DEF BackoffElapses, LockAges, Row
    <2> QED
        BY <2>1, <2>2, PhaseFrame, Invisible
<1>13. CASE UNCHANGED vars
    <2>1. created' = created /\ subject' = subject /\ admin' = admin /\ rows' = rows
        BY <1>13 DEF vars
    <2> QED
        BY <2>1, PhaseFrame, Invisible
<1>14. ASSUME NEW w \in Workers, StoreProcessed(w) \/ StoreFailed(w)
       PROVE  Contract!Next
    <2>1. work[w].event \in Events
        BY <1>14 DEF StoreProcessed, StoreFailed, Work
    <2> QED
        BY <1>5, <1>6, <1>14, <2>1 DEF Contract!Next
<1>15. CASE RetryCommit
    <2>1. admin.event \in Events
        BY <1>15 DEF RetryCommit, Request
    <2> QED
        BY <1>10, <1>15, <2>1 DEF Contract!Next
<1> QED
    BY <1>1, <1>2, <1>3, <1>7, <1>8, <1>9, <1>11, <1>12, <1>13, <1>14, <1>15
    DEF Next, Contract!Next

(* With one worker the outbox implements the delivery contract: a settled    *)
(* event is reopened only by an admin who asked for it, and an event is      *)
(* delivered only together with its effect (services/outbox.py:24-60,        *)
(* repositories/outbox.py, admin.py:102-152).                                *)
THEOREM ImplementsDelivery ==
    ASSUME NEW w0, Workers = {w0}
    PROVE  Spec => KeepsContract
<1>1. TypeOK /\ LoopInv /\ SoleInv(w0) /\ [Next]_vars
          => [Contract!Next]_(Contract!vars)
    BY ContractStep DEF OpenInv
<1> QED
    BY <1>1, ContractInit, SoleCorrect, PTL
    DEF Spec, KeepsContract, Contract!Spec

=============================================================================
