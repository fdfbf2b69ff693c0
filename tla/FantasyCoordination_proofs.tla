--------------------- MODULE FantasyCoordination_proofs ---------------------
(***************************************************************************)
(* Theorems about FantasyCoordination for any requests, any number of      *)
(* batches and any interleaving: types and fencing versions, what becomes  *)
(* of claims and locks, and the implementation of CanonicalSnapshot.       *)
(***************************************************************************)
EXTENDS FantasyCoordination, TLAPS

USE NoOwnerAssumption, KindsAssumption, RetriesAssumption, RunsAssumption

(* The rows that the coordination statements write are rows. *)

LEMMA TakeClaimType ==
    ASSUME ClaimTypeOK, NEW w \in Workers, TakeClaim(w)
    PROVE  ClaimTypeOK'
BY DEF ClaimTypeOK, TakeClaim, ClaimRow, Workers

LEMMA ReleaseClaimType ==
    ASSUME ClaimTypeOK, NEW w \in Workers, ReleaseClaim(w)
    PROVE  ClaimTypeOK'
BY DEF ClaimTypeOK, ReleaseClaim, FreeRow, ClaimRow

LEMMA ReleasedByType ==
    ASSUME NEW w \in Workers, NEW row \in LockRow
    PROVE  ReleasedBy(w, row) \in LockRow
BY DEF ReleasedBy, LockRow, Unlocked

LEMMA LockedByType ==
    ASSUME NEW w \in Workers
    PROVE  LockedBy(w) \in LockRow /\ LockedBy(w).locked = (LockedBy(w).token # NoOwner)
BY DEF LockedBy, LockRow, Workers

LEMMA TypeInit == Init => TypeOK
BY DEF Init, TypeOK, ClaimTypeOK, RequestTypeOK, LockTypeOK, RunTypeOK, ClaimInit, FreeRow,
       ClaimRow, Workers, SyncSteps, DemandSteps, NotStarted, Ended, Shared, Resource,
       LockRow, Unlocked, SyncRunRow, DemandRunRow

(* Claiming, fencing, failing and crashing, for both kinds of request. *)
LEMMA TypeWorkerStep ==
    ASSUME TypeOK, NEW w \in Workers, WorkerStep(w) \/ Fail(w) \/ Crash(w)
    PROVE  TypeOK'
<1> USE DEF TypeOK
<1>1. CASE ClaimState(w)
  <2>1. ClaimTypeOK'
    BY <1>1, TakeClaimType DEF ClaimState, ClaimTypeOK
  <2>2. RequestTypeOK'
    BY <1>1
       DEF ClaimState, RequestTypeOK, Workers, Goto, SyncSteps, DemandSteps,
           NotStarted, Ended, Shared
  <2>3. LockTypeOK' /\ RunTypeOK'
    BY <1>1 DEF ClaimState, LockTypeOK, RunTypeOK
  <2> QED BY <2>1, <2>2, <2>3
<1>2. CASE ReadBackFence(w)
  <2>1. ClaimTypeOK'
    BY <1>2 DEF ReadBackFence, ReadFence, ClaimTypeOK, ClaimRow
  <2>2. RequestTypeOK'
    BY <1>2
       DEF ReadBackFence, RequestTypeOK, Goto, SyncSteps, DemandSteps,
           NotStarted, Ended, Shared
  <2>3. LockTypeOK' /\ RunTypeOK'
    BY <1>2 DEF ReadBackFence, LockTypeOK, RunTypeOK
  <2> QED BY <2>1, <2>2, <2>3
<1>3. CASE CheckClaim(w)
  <2>1. RequestTypeOK'
    BY <1>3
       DEF CheckClaim, RequestTypeOK, Goto, SyncSteps, DemandSteps, NotStarted,
           Ended, Shared
  <2>2. ClaimTypeOK' /\ LockTypeOK' /\ RunTypeOK'
    BY <1>3 DEF CheckClaim, ClaimTypeOK, LockTypeOK, RunTypeOK
  <2> QED BY <2>1, <2>2
<1>4. CASE Fenced(w)
  <2>1. RequestTypeOK'
    BY <1>4
       DEF Fenced, RequestTypeOK, OwedAt, Resource, Goto, SyncSteps, DemandSteps,
           NotStarted, Ended, Shared
  <2>2. ClaimTypeOK' /\ LockTypeOK' /\ RunTypeOK'
    BY <1>4 DEF Fenced, ClaimTypeOK, LockTypeOK, RunTypeOK
  <2> QED BY <2>1, <2>2
<1>5. CASE Fail(w)
  <2>1. RequestTypeOK'
    BY <1>5
       DEF Fail, RequestTypeOK, OwedAt, Resource, Goto, SyncSteps, DemandSteps,
           NotStarted, Ended, Shared
  <2>2. ClaimTypeOK' /\ LockTypeOK' /\ RunTypeOK'
    BY <1>5 DEF Fail, ClaimTypeOK, LockTypeOK, RunTypeOK
  <2> QED BY <2>1, <2>2
<1>6. CASE Crash(w)
  <2>1. RequestTypeOK'
    BY <1>6
       DEF Crash, RequestTypeOK, Goto, SyncSteps, DemandSteps, NotStarted, Ended,
           Shared
  <2>2. ClaimTypeOK' /\ LockTypeOK' /\ RunTypeOK'
    BY <1>6 DEF Crash, ClaimTypeOK, LockTypeOK, RunTypeOK
  <2> QED BY <2>1, <2>2
<1> QED BY <1>1, <1>2, <1>3, <1>4, <1>5, <1>6
        DEF WorkerStep

(* The statements of a synchronization. *)
LEMMA TypeSyncStep ==
    ASSUME TypeOK, NEW s \in Syncs, RetryClear(s) \/ SyncStep(s)
    PROVE  TypeOK'
<1> USE DEF TypeOK
<1> s \in Workers
  BY DEF Workers
<1> s \in SyncRuns
  BY DEF SyncRuns
<1>1. CASE RetryClear(s)
  <2>1. RequestTypeOK'
    BY <1>1
       DEF RetryClear, RequestTypeOK, Goto, SyncSteps, DemandSteps, NotStarted,
           Ended, Shared
  <2>2. LockTypeOK'
    BY <1>1 DEF RetryClear, LockTypeOK, LockRow
  <2>3. ClaimTypeOK' /\ RunTypeOK'
    BY <1>1 DEF RetryClear, ClaimTypeOK, RunTypeOK
  <2> QED BY <2>1, <2>2, <2>3
<1>2. CASE LockSync(s)
  <2>1. RequestTypeOK'
    BY <1>2
       DEF LockSync, RequestTypeOK, Workers, Goto, SyncSteps, DemandSteps,
           NotStarted, Ended, Shared
  <2>2. LockTypeOK'
    BY <1>2, ReleasedByType, LockedByType DEF LockSync, LockTypeOK
  <2>3. ClaimTypeOK' /\ RunTypeOK'
    BY <1>2 DEF LockSync, ClaimTypeOK, RunTypeOK
  <2> QED BY <2>1, <2>2, <2>3
<1>3. CASE SyncBusy(s)
  <2>1. RequestTypeOK'
    BY <1>3
       DEF SyncBusy, RequestTypeOK, Goto, SyncSteps, DemandSteps, NotStarted,
           Ended, Shared
  <2>2. LockTypeOK'
    BY <1>3, ReleasedByType, LockedByType DEF SyncBusy, LockTypeOK
  <2>3. ClaimTypeOK' /\ RunTypeOK'
    BY <1>3 DEF SyncBusy, ClaimTypeOK, RunTypeOK
  <2> QED BY <2>1, <2>2, <2>3
<1>4. CASE BeginSync(s)
  <2>1. RequestTypeOK'
    BY <1>4
       DEF BeginSync, LockTypeOK, RequestTypeOK, Goto, SyncSteps, DemandSteps,
           NotStarted, Ended, Shared
  <2>2. RunTypeOK'
    <3> DEFINE row == [syncRun[s] EXCEPT !.status = "RUNNING", !.ending = checkpoint]
    <3>1. row \in SyncRunRow
      BY DEF SyncRunRow, RunTypeOK, LockTypeOK
    <3>2. syncRun' = [syncRun EXCEPT ![s] = row]
      BY <1>4 DEF BeginSync
    <3> HIDE DEF row
    <3> QED BY <1>4, <3>1, <3>2 DEF RunTypeOK, BeginSync
  <2>3. ClaimTypeOK' /\ LockTypeOK'
    BY <1>4 DEF BeginSync, ClaimTypeOK, LockTypeOK
  <2> QED BY <2>1, <2>2, <2>3
<1>5. CASE FetchBatch(s)
  <2>1. RequestTypeOK'
    BY <1>5
       DEF FetchBatch, RequestTypeOK, Workers, Goto, SyncSteps, DemandSteps,
           NotStarted, Ended, Shared
  <2>2. ClaimTypeOK' /\ LockTypeOK' /\ RunTypeOK'
    BY <1>5 DEF FetchBatch, ClaimTypeOK, LockTypeOK, RunTypeOK
  <2> QED BY <2>1, <2>2
<1>6. CASE FinishEmpty(s)
  <2>1. RequestTypeOK'
    BY <1>6
       DEF FinishEmpty, RequestTypeOK, Goto, SyncSteps, DemandSteps, NotStarted,
           Ended, Shared
  <2>2. RunTypeOK'
    BY <1>6 DEF FinishEmpty, Finish, RequestTypeOK, RunTypeOK, SyncRunRow
  <2>3. ClaimTypeOK' /\ LockTypeOK'
    BY <1>6 DEF FinishEmpty, ClaimTypeOK, LockTypeOK
  <2> QED BY <2>1, <2>2, <2>3
<1>7. CASE UnlockEmpty(s)
  <2>1. RequestTypeOK'
    BY <1>7
       DEF UnlockEmpty, RequestTypeOK, Goto, SyncSteps, DemandSteps, NotStarted,
           Ended, Shared
  <2>2. LockTypeOK'
    BY <1>7 DEF UnlockEmpty, LockTypeOK, Unlocked, LockRow
  <2>3. ClaimTypeOK' /\ RunTypeOK'
    BY <1>7 DEF UnlockEmpty, ClaimTypeOK, RunTypeOK
  <2> QED BY <2>1, <2>2, <2>3
<1>8. CASE CommitBatch(s)
  <2>1. RequestTypeOK'
    BY <1>8
       DEF CommitBatch, RequestTypeOK, Goto, SyncSteps, DemandSteps, NotStarted,
           Ended, Shared
  <2>2. LockTypeOK'
    BY <1>8 DEF CommitBatch, RequestTypeOK, LockTypeOK, Unlocked, LockRow
  <2>3. RunTypeOK'
    BY <1>8 DEF CommitBatch, RequestTypeOK, RunTypeOK
  <2>4. ClaimTypeOK'
    BY <1>8 DEF CommitBatch, ClaimTypeOK
  <2> QED BY <2>1, <2>2, <2>3, <2>4
<1>9. CASE ReleaseSync(s)
  <2>1. ClaimTypeOK'
    BY <1>9, ReleaseClaimType DEF ReleaseSync
  <2>2. RequestTypeOK'
    BY <1>9
       DEF ReleaseSync, RequestTypeOK, Goto, SyncSteps, DemandSteps, NotStarted,
           Ended, Shared
  <2>3. LockTypeOK' /\ RunTypeOK'
    BY <1>9 DEF ReleaseSync, LockTypeOK, RunTypeOK
  <2> QED BY <2>1, <2>2, <2>3
<1>10. CASE MarkSuccess(s)
  <2>1. RequestTypeOK'
    BY <1>10
       DEF MarkSuccess, RequestTypeOK, Goto, SyncSteps, DemandSteps, NotStarted,
           Ended, Shared
  <2>2. RunTypeOK'
    BY <1>10 DEF MarkSuccess, Finish, RequestTypeOK, RunTypeOK, SyncRunRow
  <2>3. ClaimTypeOK' /\ LockTypeOK'
    BY <1>10 DEF MarkSuccess, ClaimTypeOK, LockTypeOK
  <2> QED BY <2>1, <2>2, <2>3
<1>11. CASE CatchSync(s)
  <2>1. RequestTypeOK'
    BY <1>11
       DEF CatchSync, RequestTypeOK, Goto, SyncSteps, DemandSteps, NotStarted,
           Ended, Shared
  <2>2. RunTypeOK'
    <3>1. CASE syncRun' = syncRun
      BY <1>11, <3>1 DEF CatchSync, RunTypeOK
    <3>2. CASE syncRun' = [syncRun EXCEPT ![s].status = "FAILED"]
      BY <1>11, <3>2 DEF CatchSync, RunTypeOK, SyncRunRow
    <3> QED BY <1>11, <3>1, <3>2 DEF CatchSync
  <2>3. ClaimTypeOK' /\ LockTypeOK'
    BY <1>11 DEF CatchSync, ClaimTypeOK, LockTypeOK
  <2> QED BY <2>1, <2>2, <2>3
<1>12. CASE UnwindSyncLock(s)
  <2>1. RequestTypeOK'
    BY <1>12
       DEF UnwindSyncLock, RequestTypeOK, Resource, Goto, SyncSteps, DemandSteps,
           NotStarted, Ended, Shared
  <2>2. LockTypeOK'
    BY <1>12, ReleasedByType, LockedByType DEF UnwindSyncLock, LockTypeOK
  <2>3. ClaimTypeOK' /\ RunTypeOK'
    BY <1>12 DEF UnwindSyncLock, ClaimTypeOK, RunTypeOK
  <2> QED BY <2>1, <2>2, <2>3
<1>13. CASE UnwindSyncClaim(s)
  <2>1. ClaimTypeOK'
    BY <1>13, ReleaseClaimType DEF UnwindSyncClaim, ClaimTypeOK
  <2>2. RequestTypeOK'
    BY <1>13
       DEF UnwindSyncClaim, RequestTypeOK, Resource, Goto, SyncSteps,
           DemandSteps, NotStarted, Ended, Shared
  <2>3. LockTypeOK' /\ RunTypeOK'
    BY <1>13 DEF UnwindSyncClaim, LockTypeOK, RunTypeOK
  <2> QED BY <2>1, <2>2, <2>3
<1> QED BY <1>1, <1>2, <1>3, <1>4, <1>5, <1>6, <1>7, <1>8, <1>9, <1>10, <1>11, <1>12, <1>13
        DEF SyncStep

(* The statements of a demand calculation. *)
LEMMA TypeDemandStep ==
    ASSUME TypeOK, NEW d \in Demands, DemandStep(d)
    PROVE  TypeOK'
<1> USE DEF TypeOK
<1> d \in Workers
  BY DEF Workers
<1>1. CASE LockDemand(d)
  <2>1. RequestTypeOK'
    BY <1>1
       DEF LockDemand, RequestTypeOK, Workers, Goto, SyncSteps, DemandSteps,
           NotStarted, Ended, Shared
  <2>2. LockTypeOK'
    BY <1>1, ReleasedByType, LockedByType DEF LockDemand, LockTypeOK
  <2>3. ClaimTypeOK' /\ RunTypeOK'
    BY <1>1 DEF LockDemand, ClaimTypeOK, RunTypeOK
  <2> QED BY <2>1, <2>2, <2>3
<1>2. CASE DemandBusy(d)
  <2>1. RequestTypeOK'
    BY <1>2
       DEF DemandBusy, RequestTypeOK, Goto, SyncSteps, DemandSteps, NotStarted,
           Ended, Shared
  <2>2. LockTypeOK'
    BY <1>2 DEF DemandBusy, LockTypeOK, ReleasedBy, LockedBy, Unlocked, LockRow
  <2>3. ClaimTypeOK' /\ RunTypeOK'
    BY <1>2 DEF DemandBusy, ClaimTypeOK, RunTypeOK
  <2> QED BY <2>1, <2>2, <2>3
<1>3. CASE BindRun(d)
  <2>1. RequestTypeOK'
    BY <1>3
       DEF BindRun, RequestTypeOK, Goto, SyncSteps, DemandSteps, NotStarted,
           Ended, Shared
  <2>2. RunTypeOK'
    <3>1. CASE \A r \in SyncRuns : syncRun[r].status # "SUCCESS"
      <4>1. demandRun' = [demandRun EXCEPT ![d].status = "RUNNING"]
        BY <1>3, <3>1 DEF BindRun, IsLatestSuccess
      <4> QED BY <1>3, <4>1 DEF BindRun, RunTypeOK, DemandRunRow
    <3>2. ASSUME NEW r \in SyncRuns,
                  demandRun' = [demandRun EXCEPT ![d] = [status |-> "RUNNING", bound |-> r,
                                  checkpoint |-> syncRun[r].ending, metrics |-> FALSE]]
          PROVE  RunTypeOK'
      <4>1. syncRun[r].ending \in Nat
        BY DEF RunTypeOK, SyncRunRow
      <4> QED BY <1>3, <3>2, <4>1 DEF BindRun, RunTypeOK, DemandRunRow
    <3> QED BY <1>3, <3>1, <3>2 DEF BindRun
  <2>3. ClaimTypeOK' /\ LockTypeOK'
    BY <1>3 DEF BindRun, ClaimTypeOK, LockTypeOK
  <2> QED BY <2>1, <2>2, <2>3
<1>4. CASE ReadSales(d)
  <2>1. RequestTypeOK'
    BY <1>4
       DEF ReadSales, RequestTypeOK, RunTypeOK, Goto, SyncSteps, DemandSteps,
           NotStarted, Ended, Shared
  <2>2. ClaimTypeOK' /\ LockTypeOK' /\ RunTypeOK'
    BY <1>4 DEF ReadSales, ClaimTypeOK, LockTypeOK, RunTypeOK
  <2> QED BY <2>1, <2>2
<1>5. CASE ReadStock(d)
  <2>1. RequestTypeOK'
    BY <1>5
       DEF ReadStock, RequestTypeOK, RunTypeOK, Goto, SyncSteps, DemandSteps,
           NotStarted, Ended, Shared
  <2>2. ClaimTypeOK' /\ LockTypeOK' /\ RunTypeOK'
    BY <1>5 DEF ReadStock, ClaimTypeOK, LockTypeOK, RunTypeOK
  <2> QED BY <2>1, <2>2
<1>6. CASE PublishMetrics(d)
  <2>1. RequestTypeOK'
    BY <1>6
       DEF PublishMetrics, RequestTypeOK, Goto, SyncSteps, DemandSteps,
           NotStarted, Ended, Shared
  <2>2. LockTypeOK'
    BY <1>6 DEF PublishMetrics, LockTypeOK, ReleasedBy, LockedBy, Unlocked, LockRow
  <2>3. RunTypeOK'
    BY <1>6 DEF PublishMetrics, RunTypeOK, DemandRunRow
  <2>4. ClaimTypeOK'
    BY <1>6 DEF PublishMetrics, ClaimTypeOK
  <2> QED BY <2>1, <2>2, <2>3, <2>4
<1>7. CASE ReleaseDemand(d)
  <2>1. ClaimTypeOK'
    BY <1>7, ReleaseClaimType DEF ReleaseDemand
  <2>2. RequestTypeOK'
    BY <1>7
       DEF ReleaseDemand, RequestTypeOK, Goto, SyncSteps, DemandSteps,
           NotStarted, Ended, Shared
  <2>3. LockTypeOK' /\ RunTypeOK'
    BY <1>7 DEF ReleaseDemand, LockTypeOK, RunTypeOK
  <2> QED BY <2>1, <2>2, <2>3
<1>8. CASE CatchDemand(d)
  <2>1. RequestTypeOK'
    BY <1>8
       DEF CatchDemand, RequestTypeOK, Goto, SyncSteps, DemandSteps, NotStarted,
           Ended, Shared
  <2>2. RunTypeOK'
    <3>1. CASE demandRun' = demandRun
      BY <1>8, <3>1 DEF CatchDemand, RunTypeOK
    <3>2. CASE demandRun' = [demandRun EXCEPT ![d].status = "FAILED"]
      BY <1>8, <3>2 DEF CatchDemand, RunTypeOK, DemandRunRow
    <3> QED BY <1>8, <3>1, <3>2 DEF CatchDemand
  <2>3. ClaimTypeOK' /\ LockTypeOK'
    BY <1>8 DEF CatchDemand, ClaimTypeOK, LockTypeOK
  <2> QED BY <2>1, <2>2, <2>3
<1>9. CASE UnwindDemandClaim(d)
  <2>1. ClaimTypeOK'
    BY <1>9, ReleaseClaimType DEF UnwindDemandClaim, ClaimTypeOK
  <2>2. RequestTypeOK'
    BY <1>9
       DEF UnwindDemandClaim, RequestTypeOK, Resource, Goto, SyncSteps,
           DemandSteps, NotStarted, Ended, Shared
  <2>3. LockTypeOK' /\ RunTypeOK'
    BY <1>9 DEF UnwindDemandClaim, LockTypeOK, RunTypeOK
  <2> QED BY <2>1, <2>2, <2>3
<1>10. CASE UnwindDemandLock(d)
  <2>1. RequestTypeOK'
    BY <1>10
       DEF UnwindDemandLock, RequestTypeOK, Resource, Goto, SyncSteps,
           DemandSteps, NotStarted, Ended, Shared
  <2>2. LockTypeOK'
    <3>1. CASE demandLock' = demandLock
      BY <1>10, <3>1 DEF UnwindDemandLock, LockTypeOK
    <3>2. CASE demandLock' = ReleasedBy(d, demandLock)
      BY <1>10, <3>2
         DEF UnwindDemandLock, LockTypeOK, ReleasedBy, LockedBy, Unlocked,
             LockRow
    <3> QED BY <1>10, <3>1, <3>2 DEF UnwindDemandLock
  <2>3. ClaimTypeOK' /\ RunTypeOK'
    BY <1>10 DEF UnwindDemandLock, ClaimTypeOK, RunTypeOK
  <2> QED BY <2>1, <2>2, <2>3
<1> QED BY <1>1, <1>2, <1>3, <1>4, <1>5, <1>6, <1>7, <1>8, <1>9, <1>10
        DEF DemandStep

(* Live imports, the administrator and the passing of time. *)
LEMMA TypeOtherStep ==
    ASSUME TypeOK, \/ \E r \in LiveRuns : LiveImportSucceeds(r)
                   \/ Admin \/ Leases \/ AllEnded \/ UNCHANGED vars
    PROVE  TypeOK'
<1> USE DEF TypeOK, ClaimTypeOK, RequestTypeOK, LockTypeOK, RunTypeOK
<1>1. CASE \E r \in LiveRuns : LiveImportSucceeds(r)
  BY <1>1 DEF LiveImportSucceeds, Finish, SyncRuns, SyncRunRow
<1>2. CASE AdminUnlock
  BY <1>2 DEF AdminUnlock, Unlocked, LockRow
<1>3. CASE AdminInspect
  BY <1>3 DEF AdminInspect
<1>4. CASE AdminForce
  BY <1>4 DEF AdminForce, ForceReleaseClaim, FreeRow, ClaimRow
<1>5. CASE LapseCanonicalClaim
  BY <1>5 DEF LapseCanonicalClaim, LapseClaim, ClaimRow, coordVars
<1>6. CASE LapseSyncLock
  BY <1>6 DEF LapseSyncLock, Lapse, LockRow
<1>7. CASE LapseDemandLock
  BY <1>7 DEF LapseDemandLock, Lapse, LockRow
<1>8. CASE AllEnded \/ UNCHANGED vars
  BY <1>8 DEF AllEnded, vars, coordVars
<1> QED BY <1>1, <1>2, <1>3, <1>4, <1>5, <1>6, <1>7, <1>8 DEF Admin, Leases

LEMMA TypeNext == TypeOK /\ [Next]_vars => TypeOK'
BY TypeWorkerStep, TypeSyncStep, TypeDemandStep, TypeOtherStep DEF Next

(* The variables keep their types, and the lock and claim rows the relations *)
(* between their columns, along every behaviour.                             *)
THEOREM TypeCorrect == Spec => []TypeOK
BY TypeInit, TypeNext, PTL DEF Spec

-----------------------------------------------------------------------------
(* The fencing version of the owner. *)

(* A release by v keeps the row for anybody else and leaves v without it.    *)
LEMMA ReleaseClaimOwner ==
    ASSUME ClaimTypeOK, NEW v \in Workers, ReleaseClaim(v)
    PROVE  /\ fence' = fence
           /\ claim'.owner # NoOwner => claim' = claim /\ claim.owner # v
           /\ claim'.owner # v
BY DEF ReleaseClaim, FreeRow, ClaimTypeOK, ClaimRow, Workers

(* Only ReadBackFence writes a fence, and only TakeClaim and a forced release a version. *)
LEMMA OwnerHasCurrentFenceWorker ==
    ASSUME TypeOK, OwnerHasCurrentFence, NEW v \in Workers, WorkerStep(v) \/ Fail(v) \/ Crash(v)
    PROVE  OwnerHasCurrentFence'
<1> USE DEF TypeOK, ClaimTypeOK, RequestTypeOK, OwnerHasCurrentFence, Holds, Working,
   Goto, Workers
<1>1. CASE ClaimState(v)
  BY <1>1 DEF ClaimState, TakeClaim
<1>2. CASE ReadBackFence(v)
  BY <1>2 DEF ReadBackFence, ReadFence
<1>3. CASE Fenced(v)
  BY <1>3 DEF Fenced, OwedAt
<1>4. CASE Fail(v)
  BY <1>4 DEF Fail, OwedAt, TrySteps
<1>5. CASE CheckClaim(v) \/ Crash(v)
  BY <1>5 DEF CheckClaim, Crash
<1> QED BY <1>1, <1>2, <1>3, <1>4, <1>5 DEF WorkerStep

LEMMA OwnerHasCurrentFenceSync ==
    ASSUME TypeOK, OwnerHasCurrentFence, NEW s \in Syncs, RetryClear(s) \/ SyncStep(s)
    PROVE  OwnerHasCurrentFence'
<1> USE DEF TypeOK, ClaimTypeOK, RequestTypeOK, OwnerHasCurrentFence, Holds, Working,
   Goto, Workers
<1>1. CASE ReleaseSync(s)
  BY <1>1, ReleaseClaimOwner DEF ReleaseSync
<1>2. CASE UnwindSyncLock(s)
  BY <1>2 DEF UnwindSyncLock
<1>3. CASE UnwindSyncClaim(s)
  BY <1>3, ReleaseClaimOwner DEF UnwindSyncClaim
<1>4. CASE RetryClear(s) \/ LockSync(s) \/ SyncBusy(s) \/ BeginSync(s) \/ FetchBatch(s) \/
   FinishEmpty(s) \/ UnlockEmpty(s) \/ CommitBatch(s) \/ MarkSuccess(s) \/ CatchSync(s)
  BY <1>4 DEF RetryClear, LockSync, SyncBusy, BeginSync, FetchBatch, FinishEmpty,
     UnlockEmpty, CommitBatch, MarkSuccess, CatchSync
<1> QED BY <1>1, <1>2, <1>3, <1>4 DEF SyncStep

LEMMA OwnerHasCurrentFenceDemand ==
    ASSUME TypeOK, OwnerHasCurrentFence, NEW d \in Demands, DemandStep(d)
    PROVE  OwnerHasCurrentFence'
<1> USE DEF TypeOK, ClaimTypeOK, RequestTypeOK, OwnerHasCurrentFence, Holds, Working,
   Goto, Workers
<1>1. CASE ReleaseDemand(d)
  BY <1>1, ReleaseClaimOwner DEF ReleaseDemand
<1>2. CASE UnwindDemandClaim(d)
  BY <1>2, ReleaseClaimOwner DEF UnwindDemandClaim
<1>3. CASE LockDemand(d) \/ DemandBusy(d) \/ BindRun(d) \/ ReadSales(d) \/ ReadStock(d) \/
   PublishMetrics(d) \/ CatchDemand(d) \/ UnwindDemandLock(d)
  BY <1>3 DEF LockDemand, DemandBusy, BindRun, ReadSales, ReadStock, PublishMetrics,
     CatchDemand, UnwindDemandLock
<1> QED BY <1>1, <1>2, <1>3 DEF DemandStep

LEMMA OwnerHasCurrentFenceOther ==
    ASSUME TypeOK, OwnerHasCurrentFence,
           \/ \E r \in LiveRuns : LiveImportSucceeds(r)
           \/ Admin \/ Leases \/ AllEnded \/ UNCHANGED vars
    PROVE  OwnerHasCurrentFence'
<1> USE DEF TypeOK, ClaimTypeOK, OwnerHasCurrentFence, Holds, Working
<1>1. CASE AdminForce
  BY <1>1 DEF AdminForce, ForceReleaseClaim, FreeRow, Workers
<1>2. CASE LapseCanonicalClaim
  BY <1>2 DEF LapseCanonicalClaim, LapseClaim, ClaimRow, coordVars
<1>3. CASE UNCHANGED <<claim, fence, pc, owes>>
  BY <1>3
<1> QED BY <1>1, <1>2, <1>3 DEF LiveImportSucceeds, Admin, AdminUnlock, AdminInspect,
           Leases, LapseSyncLock, LapseDemandLock, AllEnded, vars, coordVars

(* A request that owns the claim carries the version of the row, for any     *)
(* number of requests, lapsing leases and forced releases: reading the       *)
(* version back by a separate query cannot make isClaimStillHeld refuse the  *)
(* owner.                                                                    *)
THEOREM OwnerFenceCorrect == Spec => []OwnerHasCurrentFence
<1>1. Init => OwnerHasCurrentFence
  BY DEF Init, ClaimInit, FreeRow, OwnerHasCurrentFence, Holds, Working, Workers
<1>2. TypeOK /\ OwnerHasCurrentFence /\ [Next]_vars => OwnerHasCurrentFence'
  BY OwnerHasCurrentFenceWorker, OwnerHasCurrentFenceSync, OwnerHasCurrentFenceDemand,
     OwnerHasCurrentFenceOther DEF Next
<1> QED BY <1>1, <1>2, TypeCorrect, PTL DEF Spec

(* The statements that write the claim row. *)
LEMMA ClaimChanges ==
    ASSUME [Next]_vars
    PROVE  \/ claim' = claim
           \/ \E w \in Workers : ClaimState(w)
           \/ \E s \in Syncs : ReleaseSync(s) \/ UnwindSyncClaim(s)
           \/ \E d \in Demands : ReleaseDemand(d) \/ UnwindDemandClaim(d)
           \/ AdminForce \/ LapseCanonicalClaim
BY DEF Next, vars, coordVars, WorkerStep, SyncStep, DemandStep, Admin, Leases, AllEnded,
       LiveImportSucceeds, ReadBackFence, ReadFence, CheckClaim, Fenced, Fail, Crash,
       RetryClear, LockSync, SyncBusy, BeginSync, FetchBatch, FinishEmpty, UnlockEmpty,
       CommitBatch, MarkSuccess, CatchSync, UnwindSyncLock, LockDemand, DemandBusy,
       BindRun, ReadSales, ReadStock, PublishMetrics, CatchDemand, UnwindDemandLock,
       AdminUnlock, AdminInspect, LapseSyncLock, LapseDemandLock

-----------------------------------------------------------------------------
(* Who takes a claim or a lock away. *)

LEMMA ClaimLeaves ==
    ASSUME TypeOK, [Next]_vars, NEW w \in Workers,
           claim.owner = w, claim'.owner # w, ~claim.lapsed
    PROVE  StepOf(w) \/ admin' # admin
<1> USE DEF TypeOK, RequestTypeOK, Workers
<1>1. ASSUME NEW v \in Workers, ClaimState(v)
      PROVE  FALSE
  BY <1>1 DEF ClaimState, TakeClaim, Claimable
<1>2. ASSUME NEW v \in Workers, ReleaseClaim(v)
      PROVE  v = w
  BY <1>2 DEF ReleaseClaim
<1>3. ASSUME NEW s \in Syncs, ReleaseSync(s) \/ UnwindSyncClaim(s)
      PROVE  StepOf(w)
  BY <1>2, <1>3 DEF ReleaseSync, UnwindSyncClaim, Goto, StepOf
<1>4. ASSUME NEW d \in Demands, ReleaseDemand(d) \/ UnwindDemandClaim(d)
      PROVE  StepOf(w)
  BY <1>2, <1>4 DEF ReleaseDemand, UnwindDemandClaim, Goto, StepOf
<1>5. AdminForce => admin' # admin
  BY DEF AdminForce
<1>6. ~LapseCanonicalClaim
  BY DEF LapseCanonicalClaim, LapseClaim, ClaimTypeOK, ClaimRow
<1> QED BY <1>1, <1>3, <1>4, <1>5, <1>6, ClaimChanges

(* The statements that write DemandCalculationLock. *)
LEMMA DemandLockChanges ==
    ASSUME [Next]_vars
    PROVE  \/ demandLock' = demandLock
           \/ \E d \in Demands : LockDemand(d) \/ DemandBusy(d) \/ PublishMetrics(d)
                                   \/ UnwindDemandLock(d)
           \/ LapseDemandLock
BY DEF Next, vars, coordVars, WorkerStep, SyncStep, DemandStep, Admin, Leases, AllEnded,
       LiveImportSucceeds, ClaimState, ReadBackFence, CheckClaim, Fenced, Fail, Crash,
       RetryClear, LockSync, SyncBusy, BeginSync, FetchBatch, FinishEmpty, UnlockEmpty,
       CommitBatch, ReleaseSync, MarkSuccess, CatchSync, UnwindSyncLock, UnwindSyncClaim,
       BindRun, ReadSales, ReadStock, ReleaseDemand, CatchDemand, UnwindDemandClaim,
       AdminUnlock, AdminInspect, AdminForce, LapseCanonicalClaim, LapseSyncLock

LEMMA DemandLockLeaves ==
    ASSUME TypeOK, [Next]_vars, NEW d \in Demands,
           demandLock.token = d, demandLock'.token # d, ~demandLock.lapsed
    PROVE  StepOf(d)
<1> USE DEF TypeOK, RequestTypeOK, LockTypeOK, Workers
<1>1. ASSUME NEW e \in Demands, LockDemand(e)
      PROVE  FALSE
  BY <1>1 DEF LockDemand, LockFree
<1>2. ASSUME NEW e \in Demands, DemandBusy(e) \/ PublishMetrics(e) \/ UnwindDemandLock(e)
      PROVE  e = d
  BY <1>2 DEF DemandBusy, PublishMetrics, UnwindDemandLock, ReleasedBy
<1>3. ASSUME NEW e \in Demands, DemandBusy(e) \/ PublishMetrics(e) \/ UnwindDemandLock(e)
      PROVE  StepOf(d)
  BY <1>2, <1>3 DEF DemandBusy, PublishMetrics, UnwindDemandLock, Goto, StepOf
<1>4. ~LapseDemandLock
  BY DEF LapseDemandLock, Lapse, LockRow
<1> QED BY <1>1, <1>3, <1>4, DemandLockChanges

(* A claim whose lease has not run out is taken away from its owner by the   *)
(* owner or the administrator alone, however leases, crashes, retries and    *)
(* catch blocks of displaced requests interleave (releaseCanonicalState).    *)
THEOREM ClaimKept == Spec => ClaimReleasedByOwner
<1>1. TypeOK /\ [Next]_vars =>
        [\A w \in Workers :
           claim.owner = w /\ claim'.owner # w /\ ~claim.lapsed => StepOf(w) \/ admin' # admin]_vars
  BY ClaimLeaves
<1> QED BY <1>1, TypeCorrect, PTL DEF Spec, ClaimReleasedByOwner

(* The lock of a demand calculation is likewise its own until it lapses: the *)
(* release presents its token (demand-service.ts).                           *)
THEOREM DemandLockKept == Spec => DemandLockReleasedByOwner
<1>1. TypeOK /\ [Next]_vars =>
        [\A d \in Demands :
           demandLock.token = d /\ demandLock'.token # d /\ ~demandLock.lapsed => StepOf(d)]_vars
  BY DemandLockLeaves
<1> QED BY <1>1, TypeCorrect, PTL DEF Spec, DemandLockReleasedByOwner

-----------------------------------------------------------------------------
(* What a request that is over leaves behind. *)

Owing(w, resource) == pc[w] \in {"catch", "unwind"} /\ resource \in owes[w]

(* Whoever's token is in a row is at a step that releases it, still owes its *)
(* release, or crashed.                                                      *)
ClaimOwed == \A w \in Workers : claim.owner = w => Holds(w) \/ pc[w] = "crashed"

Locking == {"claim", "busy", "fence", "begin", "fetch", "finishEmpty", "unlockEmpty", "sales",
            "stock", "check", "commit", "publish", "crashed"}

SyncLockOwed ==
    \A w \in Workers : syncLock.token = w => w \in Syncs /\ (pc[w] \in Locking \/ Owing(w, "lock"))

DemandLockOwed ==
    \A w \in Workers : demandLock.token = w => w \in Demands /\ (pc[w] \in Locking \/ Owing(w, "lock"))

OwedInv == ClaimOwed /\ SyncLockOwed /\ DemandLockOwed

LEMMA OwedInit == Init => OwedInv
<1> SUFFICES ASSUME Init PROVE OwedInv
  OBVIOUS
<1>1. claim.owner = NoOwner /\ syncLock.token = NoOwner /\ demandLock.token = NoOwner
  BY DEF Init, ClaimInit, FreeRow, Unlocked
<1> QED BY <1>1 DEF OwedInv, ClaimOwed, SyncLockOwed, DemandLockOwed, Workers

LEMMA ReleasedByToken ==
    ASSUME NEW w \in Workers, NEW row, NEW v \in Workers, ReleasedBy(w, row).token = v
    PROVE  row.token = v /\ v # w
BY DEF ReleasedBy, Unlocked, Workers

LEMMA OwedWorker ==
    ASSUME TypeOK, OwedInv, NEW v \in Workers, WorkerStep(v) \/ Fail(v) \/ Crash(v)
    PROVE  OwedInv'
<1> USE DEF TypeOK, RequestTypeOK, OwedInv, ClaimOwed, SyncLockOwed, DemandLockOwed, Owing, Holds,
            Working, Locking, Goto
<1>1. CASE ClaimState(v)
  BY <1>1 DEF ClaimState, TakeClaim
<1>2. CASE ReadBackFence(v)
  BY <1>2 DEF ReadBackFence, ReadFence
<1>3. CASE CheckClaim(v)
  BY <1>3 DEF CheckClaim
<1>4. CASE Fenced(v)
  BY <1>4 DEF Fenced, OwedAt, Resource
<1>5. CASE Fail(v)
  BY <1>5 DEF Fail, OwedAt, TrySteps, Resource
<1>6. CASE Crash(v)
  BY <1>6 DEF Crash
<1> QED BY <1>1, <1>2, <1>3, <1>4, <1>5, <1>6 DEF WorkerStep

LEMMA OwedSync ==
    ASSUME TypeOK, OwedInv, ~SecondaryFailures, NEW s \in Syncs, RetryClear(s) \/ SyncStep(s)
    PROVE  OwedInv'
<1> USE DEF TypeOK, RequestTypeOK, OwedInv, ClaimOwed, SyncLockOwed, DemandLockOwed, Owing, Holds,
            Working, Locking, Goto
<1> s \in Workers
  BY DEF Workers
<1>1. CASE RetryClear(s)
  BY <1>1 DEF RetryClear, LockTypeOK, LockRow
<1>2. CASE LockSync(s)
  BY <1>2 DEF LockSync, LockedBy
<1>3. CASE SyncBusy(s)
  BY <1>3, ReleasedByToken DEF SyncBusy
<1>4. CASE BeginSync(s) \/ FetchBatch(s) \/ FinishEmpty(s) \/ MarkSuccess(s) \/ CatchSync(s)
  BY <1>4 DEF BeginSync, FetchBatch, FinishEmpty, MarkSuccess, CatchSync
<1>5. CASE UnlockEmpty(s) \/ CommitBatch(s)
  BY <1>5 DEF UnlockEmpty, CommitBatch, Unlocked, Workers
<1>6. CASE ReleaseSync(s)
  BY <1>6, ReleaseClaimOwner DEF ReleaseSync, Workers
<1>7. CASE UnwindSyncLock(s)
  BY <1>7, ReleasedByToken DEF UnwindSyncLock
<1>8. CASE UnwindSyncClaim(s)
  BY <1>8, ReleaseClaimOwner DEF UnwindSyncClaim, Workers
<1> QED BY <1>1, <1>2, <1>3, <1>4, <1>5, <1>6, <1>7, <1>8 DEF SyncStep

LEMMA OwedDemand ==
    ASSUME TypeOK, OwedInv, ~SecondaryFailures, NEW d \in Demands, DemandStep(d)
    PROVE  OwedInv'
<1> USE DEF TypeOK, RequestTypeOK, OwedInv, ClaimOwed, SyncLockOwed, DemandLockOwed, Owing, Holds,
            Working, Locking, Goto
<1> d \in Workers
  BY DEF Workers
<1>1. CASE LockDemand(d)
  BY <1>1 DEF LockDemand, LockedBy
<1>2. CASE DemandBusy(d)
  BY <1>2, ReleasedByToken DEF DemandBusy
<1>3. CASE BindRun(d) \/ ReadSales(d) \/ ReadStock(d) \/ CatchDemand(d)
  BY <1>3 DEF BindRun, ReadSales, ReadStock, CatchDemand
<1>4. CASE PublishMetrics(d)
  BY <1>4, ReleasedByToken DEF PublishMetrics
<1>5. CASE ReleaseDemand(d)
  BY <1>5, ReleaseClaimOwner DEF ReleaseDemand, Workers
<1>6. CASE UnwindDemandClaim(d)
  BY <1>6, ReleaseClaimOwner DEF UnwindDemandClaim, Workers
<1>7. CASE UnwindDemandLock(d)
  BY <1>7, ReleasedByToken DEF UnwindDemandLock
<1> QED BY <1>1, <1>2, <1>3, <1>4, <1>5, <1>6, <1>7 DEF DemandStep

LEMMA OwedOther ==
    ASSUME TypeOK, OwedInv,
           \/ \E r \in LiveRuns : LiveImportSucceeds(r)
           \/ Admin \/ Leases \/ AllEnded \/ UNCHANGED vars
    PROVE  OwedInv'
<1> USE DEF TypeOK, OwedInv, ClaimOwed, SyncLockOwed, DemandLockOwed, Owing, Holds, Working, Locking
<1>1. CASE AdminForce
  BY <1>1 DEF AdminForce, ForceReleaseClaim, FreeRow, Workers
<1>2. CASE AdminUnlock
  BY <1>2 DEF AdminUnlock, Unlocked, Workers
<1>3. CASE LapseCanonicalClaim
  BY <1>3 DEF LapseCanonicalClaim, LapseClaim, ClaimTypeOK, ClaimRow, coordVars
<1>4. CASE LapseSyncLock
  BY <1>4 DEF LapseSyncLock, Lapse, LockTypeOK, LockRow
<1>5. CASE LapseDemandLock
  BY <1>5 DEF LapseDemandLock, Lapse, LockTypeOK, LockRow
<1>6. CASE UNCHANGED <<claim, pc, owes, syncLock, demandLock>>
  BY <1>6
<1> QED BY <1>1, <1>2, <1>3, <1>4, <1>5, <1>6 DEF LiveImportSucceeds, Admin, AdminInspect, Leases,
           AllEnded, vars, coordVars

(* Whatever a request met with, its end leaves neither the claim nor a lock  *)
(* behind, provided the statements of its catch block work: only a crash     *)
(* makes others wait for a lease (runSynchronization, runDemandCalculation). *)
THEOREM FinishedReleased ==
    ASSUME ~SecondaryFailures
    PROVE  Spec => []FinishedHoldsNothing
<1>1. TypeOK /\ OwedInv /\ [Next]_vars => OwedInv'
  BY OwedWorker, OwedSync, OwedDemand, OwedOther DEF Next
<1>2. OwedInv => FinishedHoldsNothing
  BY DEF OwedInv, ClaimOwed, SyncLockOwed, DemandLockOwed, FinishedHoldsNothing, Owing, Holds,
         Working, Locking
<1> QED BY <1>1, <1>2, OwedInit, TypeCorrect, PTL DEF Spec

-----------------------------------------------------------------------------
(***************************************************************************)
(* In a deployment whose leases outlive its requests and whose claim is    *)
(* never forced, synchronization and demand calculation implement          *)
(* CanonicalSnapshot.                                                      *)
(***************************************************************************)

LEMMA SnapshotInit == Init => SnapshotInv
<1> SUFFICES ASSUME Init
             PROVE  SnapshotInv
  OBVIOUS
<1>1. \A w \in Workers : pc[w] \in {"clear", "lock"}
  BY DEF Init
<1>2. Exclusive /\ StartIsCurrent
  BY <1>1 DEF Exclusive, StartIsCurrent, Holds, Working, Workers
<1>3. ReadIsCurrent /\ OneSnapshot
  BY <1>1 DEF Init, ReadIsCurrent, OneSnapshot, Workers
<1>4. NoForcedRelease /\ AppliedInOrder
  BY DEF Init, NoForcedRelease, AppliedInOrder
<1> QED BY <1>2, <1>3, <1>4 DEF SnapshotInv

-----------------------------------------------------------------------------
(* Exclusive and NoForcedRelease. *)

(* The claim is taken only from an owner that is over, and given up only by its owner. *)
LEMMA ExclusiveWorker ==
    ASSUME TypeOK, Exclusive, NEW v \in Workers, WorkerStep(v) \/ Fail(v) \/ Crash(v)
    PROVE  Exclusive'
<1> USE DEF TypeOK, ClaimTypeOK, RequestTypeOK, Exclusive, Holds, Working, Goto, Workers
<1>1. CASE ClaimState(v)
  <2>1. owes' = owes
    BY <1>1 DEF ClaimState
  <2>2. CASE TakeClaim(v) /\ Goto(v, "fence")
    BY <2>1, <2>2 DEF TakeClaim, Claimable
  <2>3. CASE Goto(v, "busy") /\ UNCHANGED <<claim, fence>>
    BY <2>1, <2>3
  <2> QED BY <1>1, <2>2, <2>3 DEF ClaimState
<1>2. CASE ReadBackFence(v)
  BY <1>2 DEF ReadBackFence, ReadFence
<1>3. CASE Fenced(v)
  BY <1>3 DEF Fenced, OwedAt
<1>4. CASE Fail(v)
  BY <1>4 DEF Fail, OwedAt, TrySteps
<1>5. CASE CheckClaim(v) \/ Crash(v)
  BY <1>5 DEF CheckClaim, Crash
<1> QED BY <1>1, <1>2, <1>3, <1>4, <1>5 DEF WorkerStep

LEMMA ExclusiveSync ==
    ASSUME TypeOK, Exclusive, NEW s \in Syncs, RetryClear(s) \/ SyncStep(s)
    PROVE  Exclusive'
<1> USE DEF TypeOK, ClaimTypeOK, RequestTypeOK, Exclusive, Holds, Working, Goto, Workers
<1>1. CASE LockSync(s)
  BY <1>1 DEF LockSync
<1>2. CASE FetchBatch(s)
  BY <1>2 DEF FetchBatch
<1>3. CASE ReleaseSync(s)
  BY <1>3 DEF ReleaseSync, ReleaseClaim, FreeRow, ClaimRow
<1>4. CASE CatchSync(s)
  BY <1>4 DEF CatchSync
<1>5. CASE UnwindSyncLock(s)
  BY <1>5 DEF UnwindSyncLock
<1>6. CASE UnwindSyncClaim(s)
  BY <1>6 DEF UnwindSyncClaim, ReleaseClaim, FreeRow, ClaimRow
<1>7. CASE RetryClear(s) \/ SyncBusy(s) \/ BeginSync(s) \/ FinishEmpty(s) \/
   UnlockEmpty(s) \/ CommitBatch(s) \/ MarkSuccess(s)
  BY <1>7 DEF RetryClear, SyncBusy, BeginSync, FinishEmpty, UnlockEmpty, CommitBatch,
     MarkSuccess
<1> QED BY <1>1, <1>2, <1>3, <1>4, <1>5, <1>6, <1>7 DEF SyncStep

LEMMA ExclusiveDemand ==
    ASSUME TypeOK, Exclusive, NEW d \in Demands, DemandStep(d)
    PROVE  Exclusive'
<1> USE DEF TypeOK, ClaimTypeOK, RequestTypeOK, Exclusive, Holds, Working, Goto, Workers
<1>1. CASE ReleaseDemand(d)
  BY <1>1 DEF ReleaseDemand, ReleaseClaim, FreeRow, ClaimRow
<1>2. CASE UnwindDemandClaim(d)
  BY <1>2 DEF UnwindDemandClaim, ReleaseClaim, FreeRow, ClaimRow
<1>3. CASE LockDemand(d) \/ DemandBusy(d) \/ BindRun(d) \/ ReadSales(d) \/ ReadStock(d) \/
   PublishMetrics(d) \/ CatchDemand(d) \/ UnwindDemandLock(d)
  BY <1>3 DEF LockDemand, DemandBusy, BindRun, ReadSales, ReadStock, PublishMetrics,
     CatchDemand, UnwindDemandLock
<1> QED BY <1>1, <1>2, <1>3 DEF DemandStep

(* No forced release, no lease lapsing under a request: the two assumptions  *)
(* about the deployment are used here.                                       *)
LEMMA ExclusiveOther ==
    ASSUME SecureDeployment, TypeOK, Exclusive, NoForcedRelease,
           \/ \E r \in LiveRuns : LiveImportSucceeds(r)
           \/ Admin \/ Leases \/ AllEnded \/ UNCHANGED vars
    PROVE  Exclusive'
<1> USE DEF TypeOK, ClaimTypeOK, RequestTypeOK, Exclusive, Holds, Working
<1>1. CASE LapseCanonicalClaim
  <2>1. pc[claim.owner] \in Ended /\ UNCHANGED <<pc, owes>>
    BY <1>1 DEF LapseCanonicalClaim, MayLapse, SecureDeployment, coordVars
  <2> QED BY <1>1, <2>1 DEF LapseCanonicalClaim, LapseClaim, Ended, ClaimRow
<1>2. CASE UNCHANGED <<claim, pc, owes>>
  BY <1>2
<1> QED BY <1>1, <1>2 DEF LiveImportSucceeds, Admin, AdminUnlock, AdminInspect, AdminForce,
           NoForcedRelease, Leases, LapseSyncLock, LapseDemandLock, AllEnded, vars, coordVars

LEMMA ExclusiveNext ==
    ASSUME SecureDeployment, TypeOK, Exclusive, NoForcedRelease, [Next]_vars
    PROVE  Exclusive'
BY ExclusiveWorker, ExclusiveSync, ExclusiveDemand, ExclusiveOther DEF Next

LEMMA NoForcedReleaseNext ==
    ASSUME SecureDeployment, TypeOK, NoForcedRelease, [Next]_vars
    PROVE  NoForcedRelease'
<1>1. admin' = admin
  <2>1. ~AdminUnlock
    BY DEF AdminUnlock, SecureDeployment, TypeOK, RequestTypeOK
  <2> QED BY <2>1 DEF NoForcedRelease, Admin, AdminInspect, AdminForce, Next, vars, coordVars,

             WorkerStep, SyncStep, DemandStep, Leases, AllEnded,
                LiveImportSucceeds, ClaimState, ReadBackFence, CheckClaim,
                Fenced, Fail, Crash, RetryClear, LockSync, SyncBusy,
                BeginSync, FetchBatch, FinishEmpty, UnlockEmpty, CommitBatch,
                ReleaseSync, MarkSuccess, CatchSync, UnwindSyncLock,
                UnwindSyncClaim, LockDemand, DemandBusy, BindRun, ReadSales,
                ReadStock, PublishMetrics, ReleaseDemand, CatchDemand,
                UnwindDemandClaim, UnwindDemandLock, LapseCanonicalClaim,
                LapseSyncLock, LapseDemandLock
<1> QED BY <1>1 DEF NoForcedRelease

-----------------------------------------------------------------------------
(* AppliedInOrder and StartIsCurrent. *)

LEMMA OnlyCommitsApply ==
    ASSUME [Next]_vars
    PROVE  (\E s \in Syncs : CommitBatch(s)) \/ UNCHANGED <<applied, checkpoint>>
BY DEF Next, vars, coordVars, WorkerStep, SyncStep, DemandStep, Admin, Leases, AllEnded,
   LiveImportSucceeds, ClaimState, ReadBackFence, CheckClaim, Fenced, Fail, Crash,
   RetryClear, LockSync, SyncBusy, BeginSync, FetchBatch, FinishEmpty, UnlockEmpty,
   ReleaseSync, MarkSuccess, CatchSync, UnwindSyncLock, UnwindSyncClaim, LockDemand,
   DemandBusy, BindRun, ReadSales, ReadStock, PublishMetrics, ReleaseDemand, CatchDemand,
   UnwindDemandClaim, UnwindDemandLock, LapseCanonicalClaim, LapseSyncLock,
   LapseDemandLock, AdminUnlock, AdminInspect, AdminForce

LEMMA AppliedInOrderNext ==
    ASSUME TypeOK, AppliedInOrder, StartIsCurrent, [Next]_vars
    PROVE  AppliedInOrder'
<1>1. CASE UNCHANGED <<applied, checkpoint>>
  BY <1>1 DEF AppliedInOrder
<1>2. ASSUME NEW s \in Syncs, CommitBatch(s)
      PROVE  AppliedInOrder'
  BY <1>2 DEF CommitBatch, AppliedInOrder, StartIsCurrent, TypeOK, LockTypeOK, RunTypeOK
<1> QED BY <1>1, <1>2, OnlyCommitsApply

(* A commit excludes every other request between its read of the checkpoint and its end. *)
LEMMA StartIsCurrentWorker ==
    ASSUME TypeOK, Exclusive, AppliedInOrder, StartIsCurrent, NEW v \in Workers, WorkerStep(v) \/ Fail(v) \/ Crash(v)
    PROVE  StartIsCurrent'
<1> USE DEF TypeOK, RequestTypeOK, LockTypeOK, RunTypeOK, StartIsCurrent, Goto, Workers
<1>1. CASE Fail(v)
  BY <1>1 DEF Fail, TrySteps
<1>2. CASE ClaimState(v) \/ ReadBackFence(v) \/ CheckClaim(v) \/ Fenced(v) \/ Crash(v)
  BY <1>2 DEF ClaimState, ReadBackFence, CheckClaim, Fenced, Crash
<1> QED BY <1>1, <1>2 DEF WorkerStep

LEMMA StartIsCurrentSync ==
    ASSUME TypeOK, Exclusive, AppliedInOrder, StartIsCurrent, NEW s \in Syncs, RetryClear(s) \/ SyncStep(s)
    PROVE  StartIsCurrent'
<1> USE DEF TypeOK, RequestTypeOK, LockTypeOK, RunTypeOK, StartIsCurrent, Goto, Workers
<1>1. CASE RetryClear(s)
  BY <1>1 DEF RetryClear
<1>2. CASE BeginSync(s)
  BY <1>2 DEF BeginSync
<1>3. CASE FetchBatch(s)
  <2>1. PICK step \in SyncSteps : Goto(s, step) /\ UNCHANGED <<start, checkpoint>>
    BY <1>3 DEF FetchBatch, SyncSteps
  <2> QED BY <1>3, <2>1 DEF FetchBatch
<1>4. CASE CommitBatch(s)
  BY <1>4 DEF CommitBatch, Exclusive, Holds, Working
<1>5. CASE LockSync(s) \/ SyncBusy(s) \/ FinishEmpty(s) \/ UnlockEmpty(s) \/
   ReleaseSync(s) \/ MarkSuccess(s) \/ CatchSync(s) \/ UnwindSyncLock(s) \/
   UnwindSyncClaim(s)
  BY <1>5 DEF LockSync, SyncBusy, FinishEmpty, UnlockEmpty, ReleaseSync, MarkSuccess,
     CatchSync, UnwindSyncLock, UnwindSyncClaim
<1> QED BY <1>1, <1>2, <1>3, <1>4, <1>5 DEF SyncStep

LEMMA StartIsCurrentDemand ==
    ASSUME TypeOK, Exclusive, AppliedInOrder, StartIsCurrent, NEW d \in Demands, DemandStep(d)
    PROVE  StartIsCurrent'
<1> USE DEF TypeOK, RequestTypeOK, LockTypeOK, RunTypeOK, StartIsCurrent, Goto, Workers
<1>1. CASE BindRun(d)
  BY <1>1 DEF BindRun
<1>2. CASE LockDemand(d) \/ DemandBusy(d) \/ ReadSales(d) \/ ReadStock(d) \/
   PublishMetrics(d) \/ ReleaseDemand(d) \/ CatchDemand(d) \/ UnwindDemandClaim(d) \/
   UnwindDemandLock(d)
  BY <1>2 DEF LockDemand, DemandBusy, ReadSales, ReadStock, PublishMetrics,
     ReleaseDemand, CatchDemand, UnwindDemandClaim, UnwindDemandLock
<1> QED BY <1>1, <1>2 DEF DemandStep

LEMMA StartIsCurrentNext ==
    ASSUME TypeOK, Exclusive, AppliedInOrder, StartIsCurrent, [Next]_vars
    PROVE  StartIsCurrent'
<1>1. CASE UNCHANGED <<pc, start, checkpoint>>
  BY <1>1 DEF StartIsCurrent
<1> QED BY <1>1, StartIsCurrentWorker, StartIsCurrentSync, StartIsCurrentDemand
        DEF Next, LiveImportSucceeds, Admin, AdminUnlock, AdminInspect, AdminForce, Leases,
            LapseCanonicalClaim, LapseSyncLock, LapseDemandLock, AllEnded, vars, coordVars

-----------------------------------------------------------------------------
(* ReadIsCurrent and OneSnapshot. *)

LEMMA BindAddsNoMetrics ==
    ASSUME TypeOK, NEW d \in Demands, BindRun(d)
    PROVE  \A e \in Demands : demandRun'[e].metrics => demandRun[e].metrics
<1> USE DEF TypeOK, RunTypeOK, DemandRunRow
<1>1. CASE \A r \in SyncRuns : syncRun[r].status # "SUCCESS"
  <2>1. demandRun' = [demandRun EXCEPT ![d].status = "RUNNING"]
    BY <1>1 DEF BindRun, IsLatestSuccess
  <2> QED BY <2>1
<1>2. ASSUME NEW r \in SyncRuns,
             demandRun' = [demandRun EXCEPT ![d] = [status |-> "RUNNING", bound |-> r,
                             checkpoint |-> syncRun[r].ending, metrics |-> FALSE]]
      PROVE  \A e \in Demands : demandRun'[e].metrics => demandRun[e].metrics
  BY <1>2
<1> QED BY <1>1, <1>2 DEF BindRun

(* No batch is committed between a calculation's first read and its publication. *)
LEMMA ReadIsCurrentWorker ==
    ASSUME TypeOK, Exclusive, ReadIsCurrent, AppliedInOrder, NEW v \in Workers, WorkerStep(v) \/ Fail(v) \/ Crash(v)
    PROVE  ReadIsCurrent'
<1> USE DEF TypeOK, RequestTypeOK, RunTypeOK, DemandRunRow, ReadIsCurrent, Goto, Workers
<1>1. CASE Fail(v)
  BY <1>1 DEF Fail, TrySteps
<1>2. CASE ClaimState(v) \/ ReadBackFence(v) \/ CheckClaim(v) \/ Fenced(v) \/ Crash(v)
  BY <1>2 DEF ClaimState, ReadBackFence, CheckClaim, Fenced, Crash
<1> QED BY <1>1, <1>2 DEF WorkerStep

LEMMA ReadIsCurrentSync ==
    ASSUME TypeOK, Exclusive, ReadIsCurrent, AppliedInOrder, NEW s \in Syncs, RetryClear(s) \/ SyncStep(s)
    PROVE  ReadIsCurrent'
<1> USE DEF TypeOK, RequestTypeOK, RunTypeOK, DemandRunRow, ReadIsCurrent, Goto, Workers
<1>1. CASE LockSync(s)
  BY <1>1 DEF LockSync
<1>2. CASE FetchBatch(s)
  BY <1>2 DEF FetchBatch
<1>3. CASE CommitBatch(s)
  BY <1>3 DEF CommitBatch, Exclusive, Holds, Working, AppliedInOrder, LockTypeOK
<1>4. CASE CatchSync(s)
  BY <1>4 DEF CatchSync
<1>5. CASE UnwindSyncLock(s)
  BY <1>5 DEF UnwindSyncLock
<1>6. CASE UnwindSyncClaim(s)
  BY <1>6 DEF UnwindSyncClaim
<1>7. CASE RetryClear(s) \/ SyncBusy(s) \/ BeginSync(s) \/ FinishEmpty(s) \/
   UnlockEmpty(s) \/ ReleaseSync(s) \/ MarkSuccess(s)
  BY <1>7 DEF RetryClear, SyncBusy, BeginSync, FinishEmpty, UnlockEmpty, ReleaseSync,
     MarkSuccess
<1> QED BY <1>1, <1>2, <1>3, <1>4, <1>5, <1>6, <1>7 DEF SyncStep

LEMMA ReadIsCurrentDemand ==
    ASSUME TypeOK, Exclusive, ReadIsCurrent, AppliedInOrder, NEW d \in Demands, DemandStep(d)
    PROVE  ReadIsCurrent'
<1> USE DEF TypeOK, RequestTypeOK, RunTypeOK, DemandRunRow, ReadIsCurrent, Goto, Workers
<1>1. CASE BindRun(d)
  <2>1. \A e \in Demands : demandRun'[e].metrics => demandRun[e].metrics
    BY <1>1, BindAddsNoMetrics
  <2> QED BY <1>1, <2>1 DEF BindRun
<1>2. CASE ReadSales(d)
  BY <1>2 DEF ReadSales, AppliedInOrder, LockTypeOK
<1>3. CASE ReadStock(d)
  BY <1>3 DEF ReadStock, AppliedInOrder, LockTypeOK
<1>4. CASE PublishMetrics(d)
  BY <1>4 DEF PublishMetrics
<1>5. CASE CatchDemand(d)
  BY <1>5 DEF CatchDemand
<1>6. CASE LockDemand(d) \/ DemandBusy(d) \/ ReleaseDemand(d) \/ UnwindDemandClaim(d) \/
   UnwindDemandLock(d)
  BY <1>6 DEF LockDemand, DemandBusy, ReleaseDemand, UnwindDemandClaim, UnwindDemandLock
<1> QED BY <1>1, <1>2, <1>3, <1>4, <1>5, <1>6 DEF DemandStep

LEMMA ReadIsCurrentNext ==
    ASSUME TypeOK, Exclusive, AppliedInOrder, ReadIsCurrent, [Next]_vars
    PROVE  ReadIsCurrent'
<1>1. CASE UNCHANGED <<pc, seen, demandRun, applied>>
  BY <1>1 DEF ReadIsCurrent
<1> QED BY <1>1, ReadIsCurrentWorker, ReadIsCurrentSync, ReadIsCurrentDemand
        DEF Next, LiveImportSucceeds, Admin, AdminUnlock, AdminInspect, AdminForce, Leases,
            LapseCanonicalClaim, LapseSyncLock, LapseDemandLock, AllEnded, vars, coordVars

(* What was read and published changes only by the calculation's own steps.  *)
LEMMA FiguresSteps ==
    ASSUME TypeOK, ReadIsCurrent, [Next]_vars, NEW d \in Demands
    PROVE  \/ PublishMetrics(d)
           \/ demandRun[d].metrics /\ demandRun'[d].metrics /\ seen'[d] = seen[d]
           \/ ~demandRun[d].metrics /\ ~demandRun'[d].metrics
<1> USE DEF TypeOK, RunTypeOK, RequestTypeOK, DemandRunRow
<1>1. CASE UNCHANGED <<seen, demandRun>>
  BY <1>1
<1>2. ASSUME NEW e \in Demands, DemandStep(e), ~UNCHANGED <<seen, demandRun>>
      PROVE  \/ PublishMetrics(d)
             \/ demandRun[d].metrics /\ demandRun'[d].metrics /\ seen'[d] = seen[d]
             \/ ~demandRun[d].metrics /\ ~demandRun'[d].metrics
  <2>1. CASE BindRun(e)
    BY <2>1, BindAddsNoMetrics DEF BindRun, ReadIsCurrent
  <2>2. CASE ReadSales(e)
    BY <2>2 DEF ReadSales, ReadIsCurrent
  <2>3. CASE ReadStock(e)
    BY <2>3 DEF ReadStock, ReadIsCurrent
  <2>4. CASE PublishMetrics(e)
    BY <2>4 DEF PublishMetrics
  <2>5. CASE CatchDemand(e)
    <3>1. seen' = seen
      BY <2>5 DEF CatchDemand
    <3>2. CASE demandRun' = [demandRun EXCEPT ![e].status = "FAILED"]
      BY <3>1, <3>2
    <3> QED BY <2>5, <1>2, <3>1, <3>2 DEF CatchDemand
  <2> QED BY <1>2, <2>1, <2>2, <2>3, <2>4, <2>5
          DEF DemandStep, LockDemand, DemandBusy, ReleaseDemand, UnwindDemandClaim,
              UnwindDemandLock
<1> QED BY <1>1, <1>2 DEF Next, vars, coordVars, WorkerStep, SyncStep, Admin, Leases,
            AllEnded, LiveImportSucceeds, ClaimState, ReadBackFence,
               CheckClaim, Fenced, Fail, Crash, RetryClear, LockSync,
               SyncBusy, BeginSync, FetchBatch, FinishEmpty, UnlockEmpty,
               CommitBatch, ReleaseSync, MarkSuccess, CatchSync,
               UnwindSyncLock, UnwindSyncClaim, LapseCanonicalClaim,
               LapseSyncLock, LapseDemandLock, AdminUnlock, AdminInspect,
               AdminForce

LEMMA OneSnapshotNext ==
    ASSUME TypeOK, AppliedInOrder, AppliedInOrder', ReadIsCurrent, OneSnapshot, [Next]_vars
    PROVE  OneSnapshot'
<1>1. Len(applied) \in Nat /\ Len(applied') \in Nat /\ Len(applied) <= Len(applied')
  <2>1. CASE UNCHANGED <<applied, checkpoint>>
    BY <2>1 DEF TypeOK, RunTypeOK
  <2>2. ASSUME NEW s \in Syncs, CommitBatch(s)
        PROVE  Len(applied') = Len(applied) + 1
    BY <2>2 DEF CommitBatch, TypeOK, RunTypeOK
  <2> QED BY <2>1, <2>2, OnlyCommitsApply DEF TypeOK, RunTypeOK
<1>2. SUFFICES ASSUME NEW d \in Demands, demandRun'[d].metrics
               PROVE  \E v \in 0..Len(applied') : seen'[d] = {v}
  BY DEF OneSnapshot
<1>3. CASE PublishMetrics(d)
  BY <1>1, <1>3 DEF PublishMetrics, ReadIsCurrent
<1>4. CASE demandRun[d].metrics /\ seen'[d] = seen[d]
  <2>1. PICK v \in 0..Len(applied) : seen[d] = {v}
    BY <1>4 DEF OneSnapshot
  <2> QED BY <1>1, <1>4, <2>1
<1> QED BY <1>2, <1>3, <1>4, FiguresSteps
-----------------------------------------------------------------------------
LEMMA SnapshotNext ==
    ASSUME SecureDeployment, TypeOK, SnapshotInv, [Next]_vars
    PROVE  SnapshotInv'
<1>1. AppliedInOrder'
  BY AppliedInOrderNext DEF SnapshotInv
<1> QED BY <1>1, ExclusiveNext, NoForcedReleaseNext, StartIsCurrentNext, ReadIsCurrentNext,
           OneSnapshotNext DEF SnapshotInv

(* Under the two assumptions, for any number of requests and batches: the    *)
(* requests inside their protected sections exclude each other, each batch   *)
(* is applied once and in order, and no published figures mix two versions.  *)
THEOREM SnapshotCorrect ==
    ASSUME SecureDeployment
    PROVE  Spec => [](Exclusive /\ AppliedInOrder /\ OneSnapshot)
<1>1. TypeOK /\ SnapshotInv /\ [Next]_vars => SnapshotInv'
  BY SnapshotNext
<1>2. SnapshotInv => Exclusive /\ AppliedInOrder /\ OneSnapshot
  BY DEF SnapshotInv
<1> QED BY SnapshotInit, <1>1, <1>2, TypeCorrect, PTL DEF Spec

(* Nobody is inside its protected section without owning the claim           *)
(* (sync-service.ts:227 to 1072, demand-service.ts:255 to 1114).             *)
THEOREM ExclusiveCorrect ==
    ASSUME SecureDeployment
    PROVE  Spec => []Exclusive
BY SnapshotCorrect, PTL

(* No batch is applied twice, out of order, or without its checkpoint,       *)
(* whatever fails between the transaction and the run's own status           *)
(* (sync-service.ts:1042 to 1117).                                           *)
THEOREM AppliedCorrect ==
    ASSUME SecureDeployment
    PROVE  Spec => []AppliedInOrder
BY SnapshotCorrect, PTL

-----------------------------------------------------------------------------
(* Every step is a step of CanonicalSnapshot or leaves its variables alone. *)

(* The owner changes by taking a free or lapsed claim, or back to nobody.    *)
LEMMA OwnerSteps ==
    ASSUME TypeOK, [Next]_vars
    PROVE  \/ claim'.owner = claim.owner
           \/ claim'.owner = NoOwner /\ UNCHANGED <<applied, seen, demandRun>>
           \/ \E w \in Workers :
                claim'.owner = w /\ UNCHANGED <<applied, seen, demandRun>>
<1> USE DEF TypeOK, ClaimTypeOK, ClaimRow, FreeRow
<1>1. CASE claim' = claim
  BY <1>1
<1>2. ASSUME NEW w \in Workers, ClaimState(w)
      PROVE  \E v \in Workers : claim'.owner \in {v, claim.owner}
                                  /\ UNCHANGED <<applied, seen, demandRun>>
  BY <1>2 DEF ClaimState, TakeClaim
<1>3. ASSUME NEW w \in Workers, ReleaseClaim(w)
      PROVE  claim'.owner \in {claim.owner, NoOwner}
  BY <1>3 DEF ReleaseClaim
<1>4. ASSUME NEW s \in Syncs, ReleaseSync(s) \/ UnwindSyncClaim(s)
      PROVE  claim'.owner \in {claim.owner, NoOwner} /\ UNCHANGED <<applied, seen, demandRun>>
  BY <1>3, <1>4 DEF ReleaseSync, UnwindSyncClaim, Workers
<1>5. ASSUME NEW d \in Demands, ReleaseDemand(d) \/ UnwindDemandClaim(d)
      PROVE  claim'.owner \in {claim.owner, NoOwner} /\ UNCHANGED <<applied, seen, demandRun>>
  BY <1>3, <1>5 DEF ReleaseDemand, UnwindDemandClaim, Workers
<1>6. ASSUME AdminForce
      PROVE  claim'.owner = NoOwner /\ UNCHANGED <<applied, seen, demandRun>>
  BY <1>6 DEF AdminForce, ForceReleaseClaim
<1>7. ASSUME LapseCanonicalClaim
      PROVE  claim'.owner = claim.owner
  BY <1>7 DEF LapseCanonicalClaim, LapseClaim
<1> QED BY <1>1, <1>2, <1>4, <1>5, <1>6, <1>7, ClaimChanges

LEMMA FiguresUnchanged ==
    ASSUME TypeOK, ReadIsCurrent, [Next]_vars, \A d \in Demands : ~PublishMetrics(d)
    PROVE  Figures' = Figures
BY FiguresSteps DEF Figures

LEMMA CommitImplements ==
    ASSUME TypeOK, SnapshotInv, NEW s \in Syncs, CommitBatch(s)
    PROVE  Snapshot!Commit(s)
<1>1. claim.owner = s
  BY DEF CommitBatch, SnapshotInv, Exclusive, Holds, Working, Workers
<1>2. Len(applied') = Len(applied) + 1
  BY DEF CommitBatch, TypeOK, RunTypeOK
<1> QED BY <1>1, <1>2 DEF CommitBatch, Snapshot!Commit, Figures

LEMMA PublishImplements ==
    ASSUME TypeOK, SnapshotInv, NEW d \in Demands, PublishMetrics(d)
    PROVE  Snapshot!Publish(d)
<1>1. claim.owner = d
  BY DEF PublishMetrics, SnapshotInv, Exclusive, Holds, Working, Workers
<1>2. Figures[d] = {} /\ seen[d] = {Len(applied)}
  BY DEF PublishMetrics, SnapshotInv, ReadIsCurrent, Figures
<1>3. \A e \in Demands : demandRun'[e].metrics = (e = d \/ demandRun[e].metrics)
  BY DEF PublishMetrics, TypeOK, RunTypeOK, DemandRunRow
<1>4. Figures' = [Figures EXCEPT ![d] = {Len(applied)}]
  BY <1>2, <1>3 DEF PublishMetrics, Figures
<1> QED BY <1>1, <1>2, <1>4 DEF PublishMetrics, Snapshot!Publish

LEMMA StepImplements ==
    ASSUME TypeOK, SnapshotInv, [Next]_vars
    PROVE  [Snapshot!Next]_(Snapshot!vars)
<1>1. CASE \E s \in Syncs : CommitBatch(s)
  BY <1>1, CommitImplements DEF Snapshot!Next
<1>2. CASE \E d \in Demands : PublishMetrics(d)
  BY <1>2, PublishImplements DEF Snapshot!Next
<1>3. CASE ~(\E s \in Syncs : CommitBatch(s)) /\ ~(\E d \in Demands : PublishMetrics(d))
  <2>1. applied' = applied /\ Figures' = Figures
    BY <1>3, OnlyCommitsApply, FiguresUnchanged DEF SnapshotInv
  <2>2. CASE claim'.owner = claim.owner
    BY <2>1, <2>2 DEF Snapshot!vars
  <2>3. CASE claim'.owner # claim.owner /\ claim'.owner = NoOwner
    BY <2>1, <2>3 DEF Snapshot!Next, Snapshot!Yield
  <2>4. CASE claim'.owner # claim.owner /\ claim'.owner \in Workers
    BY <2>1, <2>4 DEF Snapshot!Next, Snapshot!Acquire, Snapshot!Workers, Workers
  <2> QED BY <2>2, <2>3, <2>4, OwnerSteps
<1> QED BY <1>1, <1>2, <1>3

(* Locks, leases, retries, crashes and catch blocks together implement the   *)
(* abstract specification: the canonical records change only by a batch of   *)
(* their owner, and a result is one version, current when it is published.   *)
THEOREM ImplementsSnapshotCorrect ==
    ASSUME SecureDeployment
    PROVE  Spec => ImplementsSnapshot
<1>1. Init => Snapshot!Init
  BY DEF Init, ClaimInit, FreeRow, Snapshot!Init, Figures
<1>2. TypeOK /\ SnapshotInv /\ [Next]_vars => SnapshotInv'
  BY SnapshotNext
<1>3. TypeOK /\ SnapshotInv /\ [Next]_vars => [Snapshot!Next]_(Snapshot!vars)
  BY StepImplements
<1> QED BY SnapshotInit, <1>1, <1>2, <1>3, TypeCorrect, PTL
        DEF Spec, ImplementsSnapshot, Snapshot!Spec
=============================================================================
