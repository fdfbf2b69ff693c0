----------------------------- MODULE LiveImport -----------------------------
(***************************************************************************)
(* runLiveDataSync (live-sync.ts, live-repository.ts, live-mapper.ts): a   *)
(* request takes the lock of the live data, fetches a snapshot of the lots *)
(* of Fantasy, upserts it batch by batch, marks the active lots it did not *)
(* see as stale unless too many are missing, and closes its run.           *)
(*                                                                         *)
(* An action is a statement or a transaction.  The lock row has no token:  *)
(* a lock taken more than STALE_LOCK_MS ago can be taken over, and every   *)
(* request clears it when it ends.  Times are compared, never measured:    *)
(* `now' counts the snapshots taken.  A row is its identity                *)
(* (sourceRecordKey) with the content its hash stands for.                 *)
(***************************************************************************)
EXTENDS Naturals, FiniteSets

CONSTANTS Lots,          \* identities (sourceRecordKey)
          Requests,      \* manual, scheduled and file-import requests
          Contents,      \* contents a row can have (contentHash)
          NoContent,
          GuardPercent,  \* cfg.staleGuardPercent
          BatchSize      \* cfg.upsertBatchSize

ASSUME NoContentAssumption == NoContent \notin Contents
ASSUME GuardAssumption == GuardPercent \in 0..100
ASSUME BatchAssumption == BatchSize \in Nat \ {0}
ASSUME LotsAssumption == IsFiniteSet(Lots)

VARIABLES lock,       \* the SyncCheckpoint row of the live data
          lot,        \* FantasyLiveLot rows
          run,        \* IntegrationSyncRun.status of each request
          pc,         \* the next statement of each request
          work,       \* what each request holds in memory
          now,        \* the last time a snapshot was taken
          overlapped, \* requests that ran while another did
          takeovers   \* whether a lock was ever taken over

vars == <<lock, lot, run, pc, work, now, overlapped, takeovers>>

RowContents == Contents \cup {NoContent}
Lot == [content: RowContents, active: BOOLEAN, seen: Nat]
Snapshot == [Lots -> RowContents]
Work == [snapshot: Snapshot, rejected: BOOLEAN, seenAt: Nat, activeBefore: Nat,
         todo: SUBSET Lots, batch: SUBSET Lots, read: Snapshot, known: Nat]

Running == {"open", "fetch", "count", "read", "write", "mark", "close", "fail", "release"}
Stopped == {"start", "locked", "thrown", "done", "dead"}
RunStatuses == {"NONE", "RUNNING", "SUCCESS", "PARTIAL", "FAILED"}

NoRows == [l \in Lots |-> NoContent]
NoWork == [snapshot |-> NoRows, rejected |-> FALSE, seenAt |-> 0, activeBefore |-> 0,
           todo |-> {}, batch |-> {}, read |-> NoRows, known |-> 0]

Stored(l) == lot[l].content # NoContent
ActiveLots == {l \in Lots : lot[l].active}
Delivered(w) == {l \in Lots : work[w].snapshot[l] # NoContent}
Busy == {w \in Requests : pc[w] \in Running}

(* Rows are what earlier imports left: active, stale, or never seen.         *)
Init ==
    /\ lot \in [Lots -> {row \in [content: RowContents, active: BOOLEAN, seen: {0}] :
                              row.active => row.content # NoContent}]
    /\ lock = [held |-> FALSE, aged |-> FALSE]
    /\ run = [w \in Requests |-> "NONE"]
    /\ pc = [w \in Requests |-> "start"]
    /\ work = [w \in Requests |-> NoWork]
    /\ now = 0
    /\ overlapped = {}
    /\ takeovers = FALSE

Goto(w, step) == pc' = [pc EXCEPT ![w] = step]

(* A request that moves on and touches no row, lock or run. *)
Remembers(w, step, memory) ==
    /\ Goto(w, step)
    /\ work' = [work EXCEPT ![w] = memory]
    /\ UNCHANGED <<lock, lot, run, overlapped, takeovers>>

(* The fetched rows and the counts are no longer needed. *)
Ends(w, step) ==
    /\ Goto(w, step)
    /\ work' = [work EXCEPT ![w] = NoWork]
-----------------------------------------------------------------------------
(* acquireLock: one conditional UPDATE. *)

(* Mutant of Free: the UPDATE has no condition. *)
FreeAlways == TRUE

Free == lock.held => lock.aged

Acquire(w) ==
    /\ pc[w] = "start"
    /\ Free
    /\ lock' = [held |-> TRUE, aged |-> FALSE]
    /\ takeovers' = (takeovers \/ (lock.held /\ lock.aged))
    /\ overlapped' = IF Busy = {} THEN overlapped ELSE overlapped \cup Busy \cup {w}
    /\ Goto(w, "open")
    /\ UNCHANGED <<lot, run, work, now>>

Refused(w) ==
    /\ pc[w] = "start"
    /\ ~Free
    /\ Ends(w, "locked")
    /\ UNCHANGED <<lock, lot, run, now, overlapped, takeovers>>

(* The run row is created before the try: a failure leaves the lock held.    *)
OpenRun(w) ==
    /\ pc[w] = "open"
    /\ Goto(w, "fetch")
    /\ run' = [run EXCEPT ![w] = "RUNNING"]
    /\ UNCHANGED <<lock, lot, work, now, overlapped, takeovers>>

OpenThrows(w) ==
    /\ pc[w] = "open"
    /\ Ends(w, "thrown")
    /\ UNCHANGED <<lock, lot, run, now, overlapped, takeovers>>

(* fetchLots and mapLiveLotRows: one row of each identity is kept, rows      *)
(* without an identity are rejected; a delivery of which nothing maps is a   *)
(* SCHEMA_MISMATCH.                                                          *)
Fetch(w) ==
    /\ pc[w] = "fetch"
    /\ \E s \in Snapshot, bad \in BOOLEAN :
          LET rows == {l \in Lots : s[l] # NoContent}
          IN /\ rows = {} => ~bad
             /\ now' = now + 1
             /\ Remembers(w, "count",
                    [work[w] EXCEPT !.snapshot = s, !.rejected = bad, !.seenAt = now + 1,
                                    !.todo = rows])

CountActive(w) ==
    /\ pc[w] = "count"
    /\ Remembers(w, IF work[w].todo = {} THEN "mark" ELSE "read",
                 [work[w] EXCEPT !.activeBefore = Cardinality(ActiveLots)])
    /\ UNCHANGED now
-----------------------------------------------------------------------------
(* upsertLiveLots: for each batch the stored hashes are read, then one       *)
(* transaction inserts (skipping duplicates), updates and touches rows.      *)

BatchesOf(todo) ==
    {b \in SUBSET todo :
        Cardinality(b) = IF Cardinality(todo) < BatchSize THEN Cardinality(todo) ELSE BatchSize}

ReadBatch(w) ==
    /\ pc[w] = "read"
    /\ \E b \in BatchesOf(work[w].todo) :
          Remembers(w, "write",
              [work[w] EXCEPT !.batch = b, !.todo = work[w].todo \ b,
                              !.read = [l \in Lots |-> IF l \in b THEN lot[l].content
                                                                  ELSE NoContent]])
    /\ UNCHANGED now

(* What the transaction leaves of a row of its batch: a row that was not     *)
(* there when the hashes were read is created unless it is there by now, one *)
(* whose hash differed is overwritten, one whose hash was equal is touched.  *)

(* Mutant of RowAfter: unchanged rows are not touched. *)
RowAfterUntouched(w, l) ==
    IF work[w].read[l] = work[w].snapshot[l] THEN lot[l]
    ELSE [content |-> work[w].snapshot[l], active |-> TRUE, seen |-> work[w].seenAt]

RowAfter(w, l) ==
    LET read == work[w].read[l]
        mine == [content |-> work[w].snapshot[l], active |-> TRUE, seen |-> work[w].seenAt]
    IN IF read = NoContent /\ Stored(l) THEN lot[l]
       ELSE IF read = work[w].snapshot[l] THEN [mine EXCEPT !.content = lot[l].content]
       ELSE mine

WriteBatch(w) ==
    /\ pc[w] = "write"
    /\ lot' = [l \in Lots |-> IF l \in work[w].batch THEN RowAfter(w, l) ELSE lot[l]]
    /\ work' = [work EXCEPT
                   ![w].known = @ + Cardinality({l \in work[w].batch :
                                                    work[w].read[l] # NoContent}),
                   ![w].batch = {}, ![w].read = NoRows]
    /\ Goto(w, IF work[w].todo = {} THEN "mark" ELSE "read")
    /\ UNCHANGED <<lock, run, now, overlapped, takeovers>>
-----------------------------------------------------------------------------
(* The guard against a shrunken snapshot, and markStaleNotSeenSince.         *)

Missing(w) ==
    IF work[w].activeBefore > work[w].known THEN work[w].activeBefore - work[w].known ELSE 0

Anomaly(w) ==
    \/ Delivered(w) = {} /\ work[w].activeBefore > 0
    \/ 100 * Missing(w) > GuardPercent * work[w].activeBefore

Unseen(w) == {l \in ActiveLots : lot[l].seen < work[w].seenAt}

MarkStale(w) ==
    /\ pc[w] = "mark"
    /\ lot' = [l \in Lots |->
                  IF ~Anomaly(w) /\ Missing(w) > 0 /\ l \in Unseen(w)
                  THEN [lot[l] EXCEPT !.active = FALSE]
                  ELSE lot[l]]
    /\ Goto(w, "close")
    /\ UNCHANGED <<lock, run, work, now, overlapped, takeovers>>

(* The closing transaction: the verdict on the run, and the checkpoint. *)
CloseRun(w) ==
    /\ pc[w] = "close"
    /\ run' = [run EXCEPT ![w] = IF Anomaly(w) \/ work[w].rejected THEN "PARTIAL"
                                                                  ELSE "SUCCESS"]
    /\ Ends(w, "release")
    /\ UNCHANGED <<lock, lot, now, overlapped, takeovers>>
-----------------------------------------------------------------------------
(* Any statement inside the try may throw, and so do a failed fetch and a    *)
(* schema mismatch; recording the failure and clearing the lock may fail,    *)
(* without a word.                                                           *)

Throws(w) ==
    /\ pc[w] \in {"fetch", "count", "read", "write", "mark", "close"}
    /\ Ends(w, "fail")
    /\ UNCHANGED <<lock, lot, run, now, overlapped, takeovers>>

RecordFailure(w) ==
    /\ pc[w] = "fail"
    /\ run' \in {run, [run EXCEPT ![w] = "FAILED"]}
    /\ Ends(w, "release")
    /\ UNCHANGED <<lock, lot, now, overlapped, takeovers>>

Release(w) ==
    /\ pc[w] = "release"
    /\ lock' \in {lock, [held |-> FALSE, aged |-> FALSE]}
    /\ Ends(w, "done")
    /\ UNCHANGED <<lot, run, now, overlapped, takeovers>>

(* The process ends in the middle of a run: the lock stays. *)
Crash(w) ==
    /\ pc[w] \in Running
    /\ Ends(w, "dead")
    /\ UNCHANGED <<lock, lot, run, now, overlapped, takeovers>>

(* STALE_LOCK_MS goes by. *)
LockAges ==
    /\ lock.held
    /\ ~lock.aged
    /\ lock' = [lock EXCEPT !.aged = TRUE]
    /\ UNCHANGED <<lot, run, pc, work, now, overlapped, takeovers>>

Step(w) ==
    \/ Acquire(w) \/ Refused(w) \/ OpenRun(w) \/ OpenThrows(w) \/ Fetch(w)
    \/ CountActive(w) \/ ReadBatch(w) \/ WriteBatch(w) \/ MarkStale(w) \/ CloseRun(w)
    \/ Throws(w) \/ RecordFailure(w) \/ Release(w) \/ Crash(w)

Next == LockAges \/ \E w \in Requests : Step(w)

Spec == Init /\ [][Next]_vars
-----------------------------------------------------------------------------
TypeOK ==
    /\ lock \in [held: BOOLEAN, aged: BOOLEAN]
    /\ lot \in [Lots -> Lot]
    /\ run \in [Requests -> RunStatuses]
    /\ pc \in [Requests -> Running \cup Stopped]
    /\ work \in [Requests -> Work]
    /\ now \in Nat
    /\ overlapped \subseteq Requests
    /\ takeovers \in BOOLEAN

(* The lock keeps imports apart: two run at once only after a lock was held  *)
(* for longer than STALE_LOCK_MS (acquireLock; the release has no token).    *)
OneImportAtATime == ~takeovers => \A v, w \in Busy : v = w

(* An import that ran alone and is about to close its run has left every lot *)
(* of its snapshot active with the content it delivered, whatever the        *)
(* batches, the earlier state of the lot and the marking of stale lots.      *)
SnapshotLands ==
    \A w \in Requests \ overlapped : pc[w] = "close" =>
        \A l \in Delivered(w) : lot[l].active /\ lot[l].content = work[w].snapshot[l]

(* An import that ran alone marks nothing stale, or exactly the active lots  *)
(* its snapshot did not hold (lastSeenAt < seenAt in markStaleNotSeenSince). *)
StaleMarkingIsExact ==
    [][\A w \in Requests \ overlapped :
          (pc[w] = "mark" /\ pc'[w] = "close" /\ lot' # lot) =>
              {l \in Lots : lot'[l].active} = Delivered(w)]_vars

(* "mass-disappearance guard: >25% missing -> nothing staled"                *)
(* (fantasy-live.test.ts:130): an import that ran alone never marks more of  *)
(* the lots that were active before it than the guard allows.                *)
MassDisappearanceGuarded ==
    [][\A w \in Requests \ overlapped :
          pc[w] = "mark" /\ pc'[w] = "close" =>
              100 * Cardinality({l \in Lots : lot[l].active /\ ~lot'[l].active})
                  <= GuardPercent * work[w].activeBefore]_vars
=============================================================================
