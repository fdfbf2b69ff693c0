------------------------ MODULE FantasyCoordination ------------------------
(***************************************************************************)
(* Synchronization requests (src/lib/fantasy/sync-service.ts) and demand   *)
(* calculation requests (src/lib/demand/demand-service.ts) over the rows   *)
(* they coordinate through: SyncCheckpoint, DemandCalculationLock,         *)
(* CanonicalStateClaim, IntegrationSyncRun and DemandRun.                  *)
(*                                                                         *)
(* One action is one database statement or transaction of one request;     *)
(* requests interleave freely between them.  The canonical lot records are *)
(* abstracted to `applied`, the batches committed into them, in order.     *)
(***************************************************************************)
EXTENDS CanonicalStateClaim, Sequences

CONSTANTS Retries,             \* the synchronization requests that are retries
          LiveRuns,            \* live-data imports, which also record a run
          NoRun,               \* "no synchronization run"
          MaxBatches,          \* how many batches the provider can hand out
          MaxUnlocks,          \* bound on administrative unlock requests
          SourceMayLag,        \* TRUE: a fetch may find the next batch not there yet
          LeaseOutlivesWork,   \* TRUE: no lease runs out under a live request
          SecondaryFailures    \* TRUE: statements of a catch block may fail too

ASSUME RetriesAssumption == Retries \subseteq Syncs
ASSUME RunsAssumption == LiveRuns \cap Syncs = {} /\ NoRun \notin Syncs \cup LiveRuns
ASSUME BoundsAssumption == MaxBatches \in Nat /\ MaxUnlocks \in Nat
ASSUME SwitchAssumption ==
    {SourceMayLag, LeaseOutlivesWork, SecondaryFailures} \subseteq BOOLEAN

VARIABLES pc,          \* pc[w]: the next statement of request w
          owes,        \* owes[w]: what w's catch block still has to release
          start,       \* start[s]: the checkpoint s read after claiming
          seen,        \* seen[d]: the versions of the canonical records d read
          checkpoint,  \* SyncCheckpoint.currentCheckpoint
          syncLock,    \* SyncCheckpoint.isLocked, lockToken, lockExpiresAt
          demandLock,  \* DemandCalculationLock
          syncRun,     \* IntegrationSyncRun rows
          demandRun,   \* DemandRun rows, and whether their metrics are stored
          clock,       \* orders finishedAt
          applied,     \* batches committed into the canonical records
          admin        \* the administrator: requests made, statement in progress

coordVars == <<pc, owes, start, seen, checkpoint, syncLock, demandLock,
               syncRun, demandRun, clock, applied, admin>>
vars == <<claim, fence, coordVars>>

SyncRuns == Syncs \cup LiveRuns

Resource == {"lock", "claim"}

LockRow == [locked: BOOLEAN, token: Workers \cup {NoOwner}, lapsed: BOOLEAN]
Unlocked == [locked |-> FALSE, token |-> NoOwner, lapsed |-> FALSE]
LockFree(row) == ~row.locked \/ row.lapsed
LockedBy(w) == [locked |-> TRUE, token |-> w, lapsed |-> FALSE]

(* Mutant of ReleasedBy: the release does not present its token. *)
ReleasedByAnyone(w, row) == Unlocked

ReleasedBy(w, row) == IF row.token = w THEN Unlocked ELSE row

(* A request at "lock" has not arrived; one at "done" or "crashed" is over. *)
NotStarted == {"clear", "lock"}
Ended == {"done", "crashed"}
Shared == {"busy", "claim", "fence", "begin", "release", "catch", "unwind"}
SyncSteps == NotStarted \cup Ended \cup Shared
                \cup {"fetch", "finishEmpty", "unlockEmpty", "check", "commit", "mark"}
DemandSteps == {"lock"} \cup Ended \cup Shared \cup {"sales", "stock", "check", "publish"}

(* The statements inside the try block, by what a failure there leaves owed. *)
TrySteps == {"fetch", "finishEmpty", "unlockEmpty", "release", "check", "commit",
             "mark", "sales", "stock", "publish"}

(* Mutant of OwedAt: the claim counts as released before it is. *)
OwedAtTooLittle(w) == IF pc[w] \in {"release", "mark"} THEN {} ELSE Resource

OwedAt(w) == CASE pc[w] = "release" -> {"claim"}
               [] pc[w] = "mark"    -> {}
               [] OTHER             -> Resource

Goto(w, step) == pc' = [pc EXCEPT ![w] = step]

Init ==
    /\ ClaimInit
    /\ pc = [w \in Workers |-> IF w \in Retries THEN "clear" ELSE "lock"]
    /\ owes = [w \in Workers |-> {}]
    /\ start = [s \in Syncs |-> 0]
    /\ seen = [d \in Demands |-> {}]
    /\ checkpoint = 0
    /\ syncLock = Unlocked
    /\ demandLock = Unlocked
    /\ syncRun = [r \in SyncRuns |-> [status |-> "NONE", ending |-> 0, batch |-> 0, at |-> 0]]
    /\ demandRun = [d \in Demands |-> [status |-> "NONE", bound |-> NoRun,
                                       checkpoint |-> 0, metrics |-> FALSE]]
    /\ clock = 0
    /\ applied = <<>>
    /\ admin = [step |-> "idle", unlocks |-> 0]

-----------------------------------------------------------------------------
(* Claiming the canonical state, the same for both kinds of request. *)

ClaimState(w) ==
    /\ pc[w] = "claim"
    /\ \/ TakeClaim(w) /\ Goto(w, "fence")
       \/ ~Claimable /\ Goto(w, "busy") /\ UNCHANGED <<claim, fence>>
    /\ UNCHANGED <<owes, start, seen, checkpoint, syncLock, demandLock, syncRun,
                   demandRun, clock, applied, admin>>

ReadBackFence(w) ==
    /\ pc[w] = "fence"
    /\ ReadFence(w)
    /\ Goto(w, "begin")
    /\ UNCHANGED <<owes, start, seen, checkpoint, syncLock, demandLock, syncRun,
                   demandRun, clock, applied, admin>>

(* A statement of the try block throws: provider or database error, batch    *)
(* refused, transaction rolled back.  The catch block takes over.            *)
Fail(w) ==
    /\ pc[w] \in TrySteps
    /\ owes' = [owes EXCEPT ![w] = OwedAt(w)]
    /\ Goto(w, "catch")
    /\ UNCHANGED <<claim, fence, start, seen, checkpoint, syncLock, demandLock,
                   syncRun, demandRun, clock, applied, admin>>

(* Mutant of CheckClaim: the claim is released before the transaction commits. *)
CheckAndReleaseClaim(w) ==
    /\ pc[w] = "check"
    /\ IsClaimStillHeld(w)
    /\ ReleaseClaim(w)
    /\ Goto(w, IF w \in Syncs THEN "commit" ELSE "publish")
    /\ UNCHANGED <<owes, start, seen, checkpoint, syncLock, demandLock, syncRun,
                   demandRun, clock, applied, admin>>

(* isClaimStillHeld inside the synchronization transaction, or just before   *)
(* the demand transaction; a worker that lost its claim throws.              *)
CheckClaim(w) ==
    /\ pc[w] = "check"
    /\ IsClaimStillHeld(w)
    /\ Goto(w, IF w \in Syncs THEN "commit" ELSE "publish")
    /\ UNCHANGED <<claim, fence, owes, start, seen, checkpoint, syncLock, demandLock,
                   syncRun, demandRun, clock, applied, admin>>

Fenced(w) ==
    /\ pc[w] = "check"
    /\ ~IsClaimStillHeld(w)
    /\ owes' = [owes EXCEPT ![w] = OwedAt(w)]
    /\ Goto(w, "catch")
    /\ UNCHANGED <<claim, fence, start, seen, checkpoint, syncLock, demandLock,
                   syncRun, demandRun, clock, applied, admin>>

(* The process dies, or a statement outside the try block throws: nothing is *)
(* released, and an open transaction is rolled back.                         *)
Crash(w) ==
    /\ pc[w] \notin NotStarted \cup Ended
    /\ Goto(w, "crashed")
    /\ UNCHANGED <<claim, fence, owes, start, seen, checkpoint, syncLock, demandLock,
                   syncRun, demandRun, clock, applied, admin>>
-----------------------------------------------------------------------------
(* runSynchronization and retrySynchronization. *)

(* A retry clears isLocked without looking at the token or the expiry. *)
RetryClear(s) ==
    /\ pc[s] = "clear"
    /\ syncLock' = [syncLock EXCEPT !.locked = FALSE]
    /\ Goto(s, "lock")
    /\ UNCHANGED <<claim, fence, owes, start, seen, checkpoint, demandLock, syncRun,
                   demandRun, clock, applied, admin>>

LockSync(s) ==
    /\ pc[s] = "lock"
    /\ \/ LockFree(syncLock) /\ syncLock' = LockedBy(s) /\ Goto(s, "claim")
       \/ ~LockFree(syncLock) /\ syncLock' = syncLock /\ Goto(s, "done")
    /\ UNCHANGED <<claim, fence, owes, start, seen, checkpoint, demandLock, syncRun,
                   demandRun, clock, applied, admin>>

SyncBusy(s) ==
    /\ pc[s] = "busy"
    /\ syncLock' = ReleasedBy(s, syncLock)
    /\ Goto(s, "done")
    /\ UNCHANGED <<claim, fence, owes, start, seen, checkpoint, demandLock, syncRun,
                   demandRun, clock, applied, admin>>

BeginSync(s) ==
    /\ pc[s] = "begin"
    /\ start' = [start EXCEPT ![s] = checkpoint]
    /\ syncRun' = [syncRun EXCEPT ![s].status = "RUNNING", ![s].ending = checkpoint]
    /\ Goto(s, "fetch")
    /\ UNCHANGED <<claim, fence, owes, seen, checkpoint, syncLock, demandLock,
                   demandRun, clock, applied, admin>>

(* provider.getBatch and the checks on its answer.  The source may have      *)
(* nothing new yet; a batch advances the checkpoint by one; an ill-formed    *)
(* batch is the exception of Fail.                                           *)
AlreadyProcessed(batch) ==
    \E r \in SyncRuns : syncRun[r].status = "SUCCESS" /\ syncRun[r].batch = batch

FetchBatch(s) ==
    /\ pc[s] = "fetch"
    /\ \/ (start[s] >= MaxBatches \/ SourceMayLag) /\ Goto(s, "finishEmpty")
       \/ start[s] < MaxBatches /\ ~AlreadyProcessed(start[s] + 1) /\ Goto(s, "check")
    /\ UNCHANGED <<claim, fence, owes, start, seen, checkpoint, syncLock, demandLock,
                   syncRun, demandRun, clock, applied, admin>>

Finish(r, ending, batch) ==
    /\ clock' = clock + 1
    /\ syncRun' = [syncRun EXCEPT ![r] = [status |-> "SUCCESS", ending |-> ending,
                                          batch |-> batch, at |-> clock + 1]]

(* No new batch: the run succeeds, then the lock is cleared with no token test. *)
FinishEmpty(s) ==
    /\ pc[s] = "finishEmpty"
    /\ Finish(s, start[s], 0)
    /\ Goto(s, "unlockEmpty")
    /\ UNCHANGED <<claim, fence, owes, start, seen, checkpoint, syncLock, demandLock,
                   demandRun, applied, admin>>

UnlockEmpty(s) ==
    /\ pc[s] = "unlockEmpty"
    /\ syncLock' = Unlocked
    /\ Goto(s, "release")
    /\ UNCHANGED <<claim, fence, owes, start, seen, checkpoint, demandLock, syncRun,
                   demandRun, clock, applied, admin>>

(* Mutant of CommitBatch: the checkpoint is left out of the transaction. *)
CommitBatchOnly(s) ==
    /\ pc[s] = "commit"
    /\ applied' = Append(applied, [run |-> s, ending |-> start[s] + 1])
    /\ syncLock' = Unlocked
    /\ Goto(s, "release")
    /\ UNCHANGED <<claim, fence, owes, start, seen, checkpoint, demandLock, syncRun,
                   demandRun, clock, admin>>

(* The transaction commits: canonical records, checkpoint and lock together. *)
CommitBatch(s) ==
    /\ pc[s] = "commit"
    /\ applied' = Append(applied, [run |-> s, ending |-> start[s] + 1])
    /\ checkpoint' = start[s] + 1
    /\ syncLock' = Unlocked
    /\ Goto(s, "release")
    /\ UNCHANGED <<claim, fence, owes, start, seen, demandLock, syncRun, demandRun,
                   clock, admin>>

(* The claim is released before the run is marked; an empty run is over. *)
ReleaseSync(s) ==
    /\ pc[s] = "release"
    /\ ReleaseClaim(s)
    /\ Goto(s, IF syncRun[s].status = "SUCCESS" THEN "done" ELSE "mark")
    /\ UNCHANGED <<owes, start, seen, checkpoint, syncLock, demandLock, syncRun,
                   demandRun, clock, applied, admin>>

MarkSuccess(s) ==
    /\ pc[s] = "mark"
    /\ Finish(s, start[s] + 1, start[s] + 1)
    /\ Goto(s, "done")
    /\ UNCHANGED <<claim, fence, owes, start, seen, checkpoint, syncLock, demandLock,
                   demandRun, applied, admin>>

CatchSync(s) ==
    /\ pc[s] = "catch"
    /\ \/ syncRun' = [syncRun EXCEPT ![s].status = "FAILED"]
       \/ SecondaryFailures /\ syncRun' = syncRun
    /\ Goto(s, "unwind")
    /\ UNCHANGED <<claim, fence, owes, start, seen, checkpoint, syncLock, demandLock,
                   demandRun, clock, applied, admin>>

(* Release the lock if still owed, then the claim; each may fail unnoticed. *)
UnwindSyncLock(s) ==
    /\ pc[s] = "unwind"
    /\ "lock" \in owes[s]
    /\ \/ syncLock' = ReleasedBy(s, syncLock)
       \/ SecondaryFailures /\ syncLock' = syncLock
    /\ owes' = [owes EXCEPT ![s] = @ \ {"lock"}]
    /\ UNCHANGED <<claim, fence, pc, start, seen, checkpoint, demandLock, syncRun,
                   demandRun, clock, applied, admin>>

UnwindSyncClaim(s) ==
    /\ pc[s] = "unwind"
    /\ "lock" \notin owes[s]
    /\ \/ "claim" \in owes[s] /\ ReleaseClaim(s)
       \/ ("claim" \notin owes[s] \/ SecondaryFailures) /\ UNCHANGED <<claim, fence>>
    /\ owes' = [owes EXCEPT ![s] = {}]
    /\ Goto(s, "done")
    /\ UNCHANGED <<start, seen, checkpoint, syncLock, demandLock, syncRun, demandRun,
                   clock, applied, admin>>
-----------------------------------------------------------------------------
(* runDemandCalculation. *)

LockDemand(d) ==
    /\ pc[d] = "lock"
    /\ \/ LockFree(demandLock) /\ demandLock' = LockedBy(d) /\ Goto(d, "claim")
       \/ ~LockFree(demandLock) /\ demandLock' = demandLock /\ Goto(d, "done")
    /\ UNCHANGED <<claim, fence, owes, start, seen, checkpoint, syncLock, syncRun,
                   demandRun, clock, applied, admin>>

DemandBusy(d) ==
    /\ pc[d] = "busy"
    /\ demandLock' = ReleasedBy(d, demandLock)
    /\ Goto(d, "done")
    /\ UNCHANGED <<claim, fence, owes, start, seen, checkpoint, syncLock, syncRun,
                   demandRun, clock, applied, admin>>

(* The newest successful run of source "Fantasy", whatever its entity. *)
IsLatestSuccess(r) ==
    /\ syncRun[r].status = "SUCCESS"
    /\ \A q \in SyncRuns : syncRun[q].status = "SUCCESS" => syncRun[q].at <= syncRun[r].at

BindRun(d) ==
    /\ pc[d] = "begin"
    /\ \/ \E r \in SyncRuns :
            /\ IsLatestSuccess(r)
            /\ demandRun' = [demandRun EXCEPT ![d] = [status |-> "RUNNING", bound |-> r,
                                checkpoint |-> syncRun[r].ending, metrics |-> FALSE]]
       \/ /\ \A r \in SyncRuns : syncRun[r].status # "SUCCESS"
          /\ demandRun' = [demandRun EXCEPT ![d].status = "RUNNING"]
    /\ Goto(d, "sales")
    /\ UNCHANGED <<claim, fence, owes, start, seen, checkpoint, syncLock, demandLock,
                   syncRun, clock, applied, admin>>

(* Confirmed sales, then inventory, mirrors, WIP and removals, are read by   *)
(* separate queries outside any transaction.                                 *)
ReadSales(d) ==
    /\ pc[d] = "sales"
    /\ seen' = [seen EXCEPT ![d] = @ \cup {Len(applied)}]
    /\ Goto(d, "stock")
    /\ UNCHANGED <<claim, fence, owes, start, checkpoint, syncLock, demandLock, syncRun,
                   demandRun, clock, applied, admin>>

ReadStock(d) ==
    /\ pc[d] = "stock"
    /\ seen' = [seen EXCEPT ![d] = @ \cup {Len(applied)}]
    /\ Goto(d, "check")
    /\ UNCHANGED <<claim, fence, owes, start, checkpoint, syncLock, demandLock, syncRun,
                   demandRun, clock, applied, admin>>

PublishMetrics(d) ==
    /\ pc[d] = "publish"
    /\ demandRun' = [demandRun EXCEPT ![d].status = "PUBLISHED", ![d].metrics = TRUE]
    /\ demandLock' = ReleasedBy(d, demandLock)
    /\ Goto(d, "release")
    /\ UNCHANGED <<claim, fence, owes, start, seen, checkpoint, syncLock, syncRun,
                   clock, applied, admin>>

ReleaseDemand(d) ==
    /\ pc[d] = "release"
    /\ ReleaseClaim(d)
    /\ Goto(d, "done")
    /\ UNCHANGED <<owes, start, seen, checkpoint, syncLock, demandLock, syncRun,
                   demandRun, clock, applied, admin>>

CatchDemand(d) ==
    /\ pc[d] = "catch"
    /\ \/ demandRun' = [demandRun EXCEPT ![d].status = "FAILED"]
       \/ SecondaryFailures /\ demandRun' = demandRun
    /\ Goto(d, "unwind")
    /\ UNCHANGED <<claim, fence, owes, start, seen, checkpoint, syncLock, demandLock,
                   syncRun, clock, applied, admin>>

(* The claim first, then the lock. *)
UnwindDemandClaim(d) ==
    /\ pc[d] = "unwind"
    /\ "claim" \in owes[d]
    /\ \/ ReleaseClaim(d)
       \/ SecondaryFailures /\ UNCHANGED <<claim, fence>>
    /\ owes' = [owes EXCEPT ![d] = @ \ {"claim"}]
    /\ UNCHANGED <<pc, start, seen, checkpoint, syncLock, demandLock, syncRun,
                   demandRun, clock, applied, admin>>

UnwindDemandLock(d) ==
    /\ pc[d] = "unwind"
    /\ "claim" \notin owes[d]
    /\ \/ "lock" \in owes[d] /\ demandLock' = ReleasedBy(d, demandLock)
       \/ ("lock" \notin owes[d] \/ SecondaryFailures) /\ demandLock' = demandLock
    /\ owes' = [owes EXCEPT ![d] = {}]
    /\ Goto(d, "done")
    /\ UNCHANGED <<claim, fence, start, seen, checkpoint, syncLock, syncRun, demandRun,
                   clock, applied, admin>>
-----------------------------------------------------------------------------
(* POST /api/fantasy/sync/unlock: unlockSynchronization, then the two        *)
(* statements of forceReleaseCanonicalState.                                 *)

AdminUnlock ==
    /\ admin.step = "idle" /\ admin.unlocks < MaxUnlocks
    /\ syncLock' = IF syncLock.locked THEN Unlocked ELSE syncLock
    /\ admin' = [step |-> "inspect", unlocks |-> admin.unlocks + 1]
    /\ UNCHANGED <<claim, fence, pc, owes, start, seen, checkpoint, demandLock, syncRun,
                   demandRun, clock, applied>>

AdminInspect ==
    /\ admin.step = "inspect"
    /\ admin' = [admin EXCEPT !.step = IF claim.owner = NoOwner THEN "idle" ELSE "force"]
    /\ UNCHANGED <<claim, fence, pc, owes, start, seen, checkpoint, syncLock, demandLock,
                   syncRun, demandRun, clock, applied>>

AdminForce ==
    /\ admin.step = "force"
    /\ ForceReleaseClaim
    /\ admin' = [admin EXCEPT !.step = "idle"]
    /\ UNCHANGED <<pc, owes, start, seen, checkpoint, syncLock, demandLock, syncRun,
                   demandRun, clock, applied>>

(* A live-data import records a SUCCESS run with source "Fantasy" and leaves *)
(* endingCheckpoint at its default; it never touches the canonical records.  *)
LiveImportSucceeds(r) ==
    /\ syncRun[r].status = "NONE"
    /\ Finish(r, 0, 0)
    /\ UNCHANGED <<claim, fence, pc, owes, start, seen, checkpoint, syncLock, demandLock,
                   demandRun, applied, admin>>

(* Leases.  LeaseOutlivesWork is the deployment assumption that a lease is   *)
(* longer than any request: then only a request that is over lets one lapse. *)
MayLapse(w) == LeaseOutlivesWork => pc[w] \in Ended

LapseCanonicalClaim ==
    /\ LapseClaim
    /\ MayLapse(claim.owner)
    /\ UNCHANGED coordVars

Lapse(row) == [row EXCEPT !.lapsed = TRUE]
CanLapse(row) == row.token # NoOwner /\ ~row.lapsed /\ MayLapse(row.token)

LapseSyncLock ==
    /\ CanLapse(syncLock)
    /\ syncLock' = Lapse(syncLock)
    /\ UNCHANGED <<claim, fence, pc, owes, start, seen, checkpoint, demandLock, syncRun,
                   demandRun, clock, applied, admin>>

LapseDemandLock ==
    /\ CanLapse(demandLock)
    /\ demandLock' = Lapse(demandLock)
    /\ UNCHANGED <<claim, fence, pc, owes, start, seen, checkpoint, syncLock, syncRun,
                   demandRun, clock, applied, admin>>
-----------------------------------------------------------------------------
WorkerStep(w) == ClaimState(w) \/ ReadBackFence(w) \/ CheckClaim(w) \/ Fenced(w)

SyncStep(s) ==
    \/ LockSync(s) \/ SyncBusy(s) \/ BeginSync(s) \/ FetchBatch(s)
    \/ FinishEmpty(s) \/ UnlockEmpty(s) \/ CommitBatch(s) \/ ReleaseSync(s)
    \/ MarkSuccess(s) \/ CatchSync(s) \/ UnwindSyncLock(s) \/ UnwindSyncClaim(s)

DemandStep(d) ==
    \/ LockDemand(d) \/ DemandBusy(d) \/ BindRun(d) \/ ReadSales(d) \/ ReadStock(d)
    \/ PublishMetrics(d) \/ ReleaseDemand(d) \/ CatchDemand(d)
    \/ UnwindDemandClaim(d) \/ UnwindDemandLock(d)

Admin == AdminUnlock \/ AdminInspect \/ AdminForce

Leases == LapseCanonicalClaim \/ LapseSyncLock \/ LapseDemandLock

(* Every request is over: a step of its own, so that TLC reports a request   *)
(* that is stuck as a deadlock.                                              *)
AllEnded == /\ \A w \in Workers : pc[w] \in Ended
            /\ UNCHANGED vars

Next ==
    \/ \E w \in Workers : WorkerStep(w) \/ Fail(w) \/ Crash(w)
    \/ \E s \in Syncs : RetryClear(s) \/ SyncStep(s)
    \/ \E d \in Demands : DemandStep(d)
    \/ \E r \in LiveRuns : LiveImportSucceeds(r)
    \/ Admin
    \/ Leases
    \/ AllEnded

Spec == Init /\ [][Next]_vars

(* A request that started keeps executing statements: the runtime schedules  *)
(* it and no statement waits on another request.  Leases run out with time.  *)
(* Nothing makes a request arrive, fail, or an administrator act.            *)
Fairness ==
    /\ \A s \in Syncs : WF_vars(pc[s] # "lock" /\ (WorkerStep(s) \/ SyncStep(s) \/ Fail(s)))
    /\ \A d \in Demands : WF_vars(pc[d] # "lock" /\ (WorkerStep(d) \/ DemandStep(d) \/ Fail(d)))
    /\ WF_vars(LapseCanonicalClaim)

FairSpec == Spec /\ Fairness
-----------------------------------------------------------------------------
(* Properties. *)

ClaimTypeOK ==
    /\ claim \in ClaimRow
    /\ fence \in [Workers -> Nat]

RequestTypeOK ==
    /\ pc \in [Workers -> SyncSteps \cup DemandSteps]
    /\ \A s \in Syncs : pc[s] \in SyncSteps
    /\ \A d \in Demands : pc[d] \in DemandSteps
    /\ owes \in [Workers -> SUBSET Resource]
    /\ start \in [Syncs -> Nat]
    /\ seen \in [Demands -> SUBSET Nat]
    /\ admin \in [step: {"idle", "inspect", "force"}, unlocks: Nat]

LockTypeOK ==
    /\ checkpoint \in Nat
    /\ syncLock \in LockRow
    /\ demandLock \in LockRow
    /\ demandLock.locked <=> demandLock.token # NoOwner

SyncRunRow == [status: {"NONE", "RUNNING", "SUCCESS", "FAILED"},
               ending: Nat, batch: Nat, at: Nat]
DemandRunRow == [status: {"NONE", "RUNNING", "PUBLISHED", "FAILED"},
                 bound: SyncRuns \cup {NoRun}, checkpoint: Nat, metrics: BOOLEAN]

RunTypeOK ==
    /\ syncRun \in [SyncRuns -> SyncRunRow]
    /\ demandRun \in [Demands -> DemandRunRow]
    /\ clock \in Nat
    /\ applied \in Seq([run: Syncs, ending: Nat])

(* Types of the variables; a claim row never keeps the expiry of a released  *)
(* claim, and the demand lock carries a token exactly while it is locked.    *)
TypeOK == ClaimTypeOK /\ RequestTypeOK /\ LockTypeOK /\ RunTypeOK

StepOf(w) == pc'[w] # pc[w] \/ owes'[w] # owes[w]

(* A claim that has not lapsed leaves its owner only by a step of the owner  *)
(* or of the administrator: a late release or a catch block of a displaced   *)
(* request never frees the claim of its successor.                           *)
ClaimReleasedByOwner ==
    [][\A w \in Workers :
         claim.owner = w /\ claim'.owner # w /\ ~claim.lapsed => StepOf(w) \/ admin' # admin]_vars

(* The demand lock is likewise taken away from a request only once it lapsed. *)
DemandLockReleasedByOwner ==
    [][\A d \in Demands :
         demandLock.token = d /\ demandLock'.token # d /\ ~demandLock.lapsed => StepOf(d)]_vars

(* Steps between taking the claim and reading the fencing version back, and  *)
(* the steps after it while the claim is still to be released.               *)
Working == {"begin", "fetch", "finishEmpty", "unlockEmpty", "sales", "stock", "check",
            "commit", "publish", "release"}
Holds(w) == \/ pc[w] \in Working \cup {"fence"}
            \/ pc[w] \in {"catch", "unwind"} /\ "claim" \in owes[w]

(* However the two statements of claimCanonicalState interleave with other   *)
(* owners and forced releases, a request that still owns the claim carries   *)
(* the fencing version of the row: it cannot fence itself out, and a version *)
(* read back late belongs to somebody else's token.                          *)
OwnerHasCurrentFence ==
    \A w \in Workers : claim.owner = w /\ Holds(w) /\ pc[w] # "fence"
                          => fence[w] = claim.fencingVersion

(* A request that is over, by whatever path through its catch block, holds   *)
(* neither the claim nor a lock (when the catch block's own statements work). *)
FinishedHoldsNothing ==
    \A w \in Workers : pc[w] = "done" => w \notin {claim.owner, syncLock.token, demandLock.token}

(* While leases outlive requests and nobody forces them, a request inside    *)
(* its protected section owns the claim: synchronization and demand          *)
(* calculation exclude each other, retries included.                         *)
Exclusive ==
    \A w \in Workers : Holds(w) => claim.owner = w /\ ~claim.lapsed

(* Every batch is applied exactly once, in checkpoint order, and the stored  *)
(* checkpoint is the one of the last applied batch, whatever fails between   *)
(* the transaction and the run's own status.                                 *)
AppliedInOrder ==
    /\ checkpoint = Len(applied)
    /\ \A i \in 1..Len(applied) : applied[i].ending = i

(* Published metrics mix no two versions of the canonical records. *)
OneSnapshot ==
    \A d \in Demands : demandRun[d].metrics => \E v \in 0..Len(applied) : seen[d] = {v}

(* What a deployment must guarantee for the three properties above. *)
SecureDeployment == MaxUnlocks = 0 /\ LeaseOutlivesWork

(* Why the above hold, as an inductive invariant: no forced release is under *)
(* way, a synchronization works from the checkpoint that is still stored,    *)
(* and what a calculation has read is still the current version.             *)
NoForcedRelease == admin.step = "idle"

StartIsCurrent ==
    \A s \in Syncs : pc[s] \in {"fetch", "finishEmpty", "unlockEmpty", "check", "commit"}
                        => start[s] = checkpoint

ReadIsCurrent ==
    \A d \in Demands :
        /\ pc[d] \in {"lock", "claim", "busy", "fence", "begin", "sales"}
              => seen[d] = {} /\ ~demandRun[d].metrics
        /\ pc[d] \in {"stock", "check", "publish"}
              => seen[d] = {Len(applied)} /\ ~demandRun[d].metrics

SnapshotInv == /\ Exclusive
               /\ NoForcedRelease
               /\ AppliedInOrder
               /\ StartIsCurrent
               /\ ReadIsCurrent
               /\ OneSnapshot

(* The abstract specification, with the claim's owner as owner, the number   *)
(* of applied batches as version, and what a published run read as result.   *)
Figures == [d \in Demands |-> IF demandRun[d].metrics THEN seen[d] ELSE {}]

Snapshot == INSTANCE CanonicalSnapshot
              WITH owner <- claim.owner, version <- Len(applied), result <- Figures

ImplementsSnapshot == Snapshot!Spec

(* A claim that was taken is handed back, unless its request crashed; the    *)
(* claim of a crashed request lapses and can be taken over.                  *)
ClaimHandedBack ==
    \A w \in Workers : claim.owner = w ~> claim.owner # w \/ (pc[w] = "crashed" /\ claim.lapsed)

-----------------------------------------------------------------------------
(* What the repository's comments and tests say, and the code does not keep. *)

(* schema.prisma: a worker whose claim was broken cannot finalize afterwards. *)
(* The claim test and the write it guards are two statements.                *)
BrokenClaimNeverFinalizes ==
    [][/\ applied' # applied => claim.owner = applied'[Len(applied')].run
       /\ \A d \in Demands :
            demandRun'[d].metrics /\ ~demandRun[d].metrics => claim.owner = d]_vars

(* canonical-state-claim.test.ts: a demand run records the exact sync it     *)
(* read.  The claim is released before that sync's run is marked SUCCESS.    *)
BoundToTheDataRead ==
    \A d \in Demands : demandRun[d].metrics =>
        \E v \in seen[d] : demandRun[d].checkpoint = IF v = 0 THEN 0 ELSE applied[v].ending

(* The same binding names a synchronization, not a live-data import. *)
BoundRunIsCanonical ==
    \A d \in Demands : demandRun[d].bound \notin LiveRuns

(* schema.prisma: a release must present its token, so one worker cannot     *)
(* clear another worker's lock.                                              *)
SyncLockReleasedByOwner ==
    [][\A s \in Syncs :
         syncLock.token = s /\ ~syncLock.lapsed /\ pc[s] \notin Ended
           => syncLock'.token = s \/ StepOf(s)]_vars

(* analysis-snapshot.ts: "A demand calculation is currently running. Results *)
(* will appear when it finishes."  The test is for a run with status         *)
(* RUNNING, and nobody ends the run of a crashed request.                    *)
RunningMeansRunning ==
    \A d \in Demands : demandRun[d].status = "RUNNING" => pc[d] \notin Ended
============================================================================
