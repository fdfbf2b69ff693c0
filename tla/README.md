# Verification of the planning application

TLA+ models, TLC runs and TLAPS proofs for the `planning` application: a
Next.js service that synchronizes diamond stock from the Fantasy system into
canonical lot records, calculates demand from them, processes Sarin planning
workbooks, and serves analyses to users with scoped roles.

The models follow the source statement by statement where requests of several
actors meet, and abstract names, weights, categories, money and wording to what
the properties tell apart. Paths below are relative to the repository.

## 1. Inventory

The application keeps all its state in PostgreSQL and runs any number of
request handlers, plus one optional timer per process. Nothing is serialized by
the process: two requests interleave between any two database statements, and
transactions are READ COMMITTED unless the code says otherwise. Locks are rows
with an owner and an expiry, claimed by a conditional `updateMany` whose count
is the verdict.

| Component | State it keeps | Operations | Meets | What makes it hard, what makes it correct |
|---|---|---|---|---|
| Canonical state claim (`src/lib/fantasy/canonical-state-claim.ts`) | one row: owner token, holder, expiry, fencing version | claim, read version back, test, release, forced release | both users of the canonical records | claim and read-back are two statements; a lease may lapse under its owner; a displaced owner's late release must hit nobody |
| Synchronization (`src/lib/fantasy/sync-service.ts`, routes `sync`, `sync/retry`, `sync/unlock`) | checkpoint, lock, sync runs | lock, claim, fetch, one transaction per batch, release, mark, catch block, retry, unlock | claim; demand; provider | every batch once and in order, whatever fails between the transaction and the run's own status |
| Canonical lot ledger (`sync-service.ts` 320-1070, `classification-refresh.ts`) | master row, history rows, polished mirror per lot | per record: reject, skip, create, change, touch; per removal: skip, remove; refresh | the refresh takes no claim | versions unbroken, class beside its status, mirror as the last status says |
| Operational projection (`operational-projection.ts`) | category columns, mirrors | list, repair, test | refresh, demand | repairs from rows read earlier |
| Demand calculation (`src/lib/demand/demand-service.ts`) | demand lock, runs, metrics, traces | lock, claim, bind to a run, repair, read, publish, catch block | claim, sync runs, ledger | many reads outside a transaction must be of one version |
| Demand figures (`confirmed-sales.ts`, `demand-service.ts` 322-1050, `wip-classification.ts`, `planning-category.ts`, `quantity-weight.ts`) | none: category traces while a run lasts | rows of four reads become figures by category, totals, a status | demand, analyses | a row can fail in quantity, mapping, band or mirror on its own; each piece in one figure, each omission visible in the status |
| Live data import (`live-sync.ts`, `live-repository.ts`, `live-mapper.ts`) | live lots, its own lock | lock, open run, fetch, count, upsert in batches, guard, mark unseen, close, chain to a synchronization | sync runs | a lock without a token; count, upsert and marking apart |
| Scheduler (`scheduler.ts`, `instrumentation.ts`) | a state object with a timer and a flag | start, stop, tick, back off | live import | one timer, never none while it is to run |
| Fantasy client (`live-api.ts`) | a token in memory, a token in a table | page, retry, forced login | the remote service | two caches shared by concurrent fetches |
| Raw ingestion (`raw-ingestion.ts`, `raw-orchestration.ts`, `row-contract.ts`) | append-only captures and rows | ask, capture with retries | advisory lock of an identity | a retry of a committed capture is a replay |
| Sarin import, validation, output, mapping (`src/lib/sarin/*-service.ts`) | batches, attempts, findings, output versions, mapping snapshots | upload, claim, finalize, take over, generate, publish, archive | database triggers on status | a fenced worker must not finalize; one current output per batch |
| Sessions and sign-in (`src/lib/auth/session.ts`, `src/app/api/auth`, status and password of `admin/users`) | user row, sessions, attempts by user name | sign in, change password, log out, reset, suspend, disable | user administration | counters read and written apart; a revoke in a statement after the change it belongs to |
| Users, roles, access requests (`src/app/api/admin`, `src/lib/auth/role-service.ts`) | users, assignments, roles, requests | status, roles, create, role permissions, approve, reject, command line | each other | the last Super Admin stays; decisions are made once |
| Request pipeline (`src/lib/api/with-api.ts`, `rate-limit.ts`, `src/proxy.ts`) | in-memory counters | a fixed order of checks | every route | sequential |
| Analyses (`src/lib/analysis`, `src/lib/analytics`) | none | reads of published runs | demand | a filter in SQL repeats a decision of the code |
| Reference data, user interface, scripts, migrations | - | - | - | no protocol of their own |

`PROJECT.json` lists each of these with what is modelled of it, and under
`hazards` every place in the code where something can go wrong that a test
would hardly reach, with the properties that cover it.

## 2. Modules

```
CanonicalSnapshot          what the coordination promises (abstract)
      ^ implemented by
FantasyCoordination ---EXTENDS---> CanonicalStateClaim
      ^
      |-- MCFantasyCoordination           instances for TLC
      '-- FantasyCoordination_proofs      types, fencing version, release of claims and
                                          locks, exclusion, order, snapshot, refinement

LotLedger                  lots, batch, refresh, repair, stock read
      |-- MCLotLedger                     instances for TLC
      '-- LotLedger_proofs                types, history, classification, mirrors, stock

SarinPromise               what the Sarin services promise (abstract)
      ^ implemented by
SarinLifecycle             imports, validations, outputs, mapping catalogue
      ^
      |-- MCSarinLifecycle                instances for TLC
      '-- SarinLifecycle_proofs           types, catalogue, attempts, findings, outputs, archives,
                                          refinement

LiveImport                 lock, snapshot, stale marking of the live lots
      '-- LiveImport_proofs               lock, snapshot, stale marking

CaptureLog                 what the capture of raw batches promises (abstract)
      ^ implemented by
RawIngestion       BatchPreparation   (both ---> FantasyRowContract)
FantasyScheduler   FantasyClient
      '-- FantasyIntake_proofs            timer, requests, captures with their refinement,
                                          column contract (of these four)

ConfirmedSales     DemandFigures ---> PlanningCategories, Quantities
      '-- DemandFigures_proofs            sale episodes, figures, filters

MCLiveImport               LiveImport, RawIngestion, one part at a time
MCFantasyData              FantasyScheduler, FantasyClient, BatchPreparation, ConfirmedSales,
                           DemandFigures, one part at a time

SignIn   AccessAdministration
      ^
      |-- MCAccounts                      both, one part at a time
      |-- SignIn_proofs                   lock, end of sessions (of the first)
      '-- AccessAdministration_proofs     floor, requests, roles (of the second)
```

### CanonicalStateClaim and FantasyCoordination

`CanonicalStateClaim` is the claim row and the operations of
`canonical-state-claim.ts`. `FantasyCoordination` runs synchronizations, demand
calculations, retries, live imports and an administrator over it. One action is
one database statement or transaction of one request; `pc[w]` names the request's
next statement. `claim`, `checkpoint`, `syncLock`, `demandLock`, `syncRun`
and `demandRun` are the rows of the tables of the same names; `start`, `fence`,
`seen` and `owes` are local variables of a request (`seen` and `applied` record
which versions were read and committed, so that properties can speak of them).

| Statement | Action |
|---|---|
| `updateMany` claiming the lock / busy answer | `LockSync`, `LockDemand` / `SyncBusy`, `DemandBusy` |
| `claimCanonicalState`: update, then version read back | `ClaimState`, `ReadBackFence` |
| create the run, read the checkpoint / bind to the newest SUCCESS run | `BeginSync` / `BindRun` |
| `provider.getBatch` and its checks | `FetchBatch` |
| no new batch: mark, unlock | `FinishEmpty`, `UnlockEmpty` |
| `isClaimStillHeld`, held or not | `CheckClaim`, `Fenced` |
| transaction commit (records, checkpoint, lock) / (metrics, run, lock) | `CommitBatch` / `PublishMetrics` |
| release the claim, then mark the run | `ReleaseSync`, `MarkSuccess`, `ReleaseDemand` |
| any statement throws | `Fail`, then `CatchSync`/`CatchDemand` and `Unwind...` in the code's order |
| process dies | `Crash` |
| `retrySynchronization` / unlock route | `RetryClear` / `AdminUnlock`, `AdminInspect`, `AdminForce` |
| time passes an expiry | `LapseCanonicalClaim`, `LapseSyncLock`, `LapseDemandLock` |

Tokens and timestamps are abstracted: a token is its request, an expiry is
"lapsed" or not. `Crash` is also what becomes of a request whose statement
outside the try block throws.

### CanonicalSnapshot

The abstract promise, without locks, leases, retries or catch blocks: the
records have an owner, only an owning synchronization advances the version, and
an owning calculation publishes a result made of exactly the current version.
`ImplementsSnapshot` maps the claim's owner, the number of applied batches and
what a published run has read to its three variables.

### LotLedger

A lot is its `LotMasterRecord` row, its `LotHistoryRecord` rows and its
`PolishedStone` mirror. `ledger` is what is committed; the batch transaction's
own writes are in `work`, and the rows it wrote (`dirty`) are locked until it
ends, so the refresh waits for them. The batch reads a row (`ReadRecord`,
`ReadRemoval`) and writes in a later statement (`CreateLot`, `ChangeLot`,
`TouchLot`, `RemoveLot`, or one of the skips); the refresh may commit in
between. `Recorded` is the unique index on `(lotId, version)`: a batch that
would repeat a version throws and `AbortBatch` rolls it back.

| Code | Action |
|---|---|
| record loop of `runSynchronization` | `RejectRecord`, `ReadRecord`, `CreateLot`, `SkipOlder`, `ChangeLot`, `TouchLot` |
| removal loop | `StartRemovals`, `ReadRemoval`, `SkipRemoval`, `RemoveLot` |
| end of the transaction | `CommitBatch`, `AbortBatch` |
| `refreshFixtureClassification` | `StartRefresh`, `RefreshLot`, `RefreshSkip`, `EndRefresh` |
| `reconcileOperationalProjection`, `checkProjectionInvariant` | `ListPending`, `ReadPending`, `Repair`, `CheckProjection` |
| `runDemandCalculation`, stock part | `ReadStock`, `Publish`, `FailDemand` |

What is abstracted: SOLD stands for the terminal statuses and REMOVED_UNKNOWN
for the other excluded ones, RESERVED and WIP are left out; whether a lot is
polished is fixed; a change of any other attribute is the Boolean `edited`;
category approval and quantity provenance are taken as granted. The claim is not
modelled again: `ClaimFree` says that no batch and no calculation are under way
together, which is `Exclusive` of FantasyCoordination. A refresh handles one
candidate per transaction, atomically: its guarded update takes the row lock and
its history row is built from values read before. `ListPending` takes any subset
of what is pending, since the repair stops after a number of batches. The
reconciliation of historical categories, the dry run and the refusals of the
refresh for profiles other than the fixture's change no modelled state.

### SarinLifecycle

Everything that happens to the imports of one file identity: `import`,
`attempts`, `findings`, `outputs` and `catalog` are the tables
`SarinImportBatch`, `SarinValidationAttempt`, the open rows of
`SarinValidationIssue`, `SarinOutputVersion` and `SarinShapeMappingSet`. `pc`,
`target`, `seen`, `captured` and `change` are the local variables of a request;
`wanted` is what the committed catalog changes add up to, for a property.

| Code | Action |
|---|---|
| `ingestSarinSource` | `UploadNew`, or `UploadDuplicate` and then `UploadFind` |
| `deleteSarinImport`: read outside, update inside a transaction with the status trigger | `ArchiveRead`, then `ArchiveWrite` or `ArchiveRefused` |
| `claimSarinValidation`: read, capture the catalog `FOR SHARE`, reuse or claim | `ClaimRead`; `Capture`, or `CaptureWaits` and `CaptureResumes`; `ClaimReuse`, `Claim` or `ClaimRefused` |
| `runSarinValidationAttempt`: test of the claim, first write, verdict | `RunBegin`, `RunWrite`, `RunFinalize`; `RunStale`, `RunError` |
| `failSarinValidationAttempt`, process death, lease | `FailRecord`, `FailUnrecorded`, `Crash`, `Expire` |
| `generateSarinOutput`: `FOR UPDATE` and read, then the rest | `GenerateBegin` or `GenerateBusy`; `GenerateCommit`, `GenerateReuse`, `GenerateRefused` |
| `saveShapeMapping`, `removeShapeMapping`: advisory lock and read, mark SUPERSEDED, commit | `SaveBegin`, `SaveReplace`, `SaveCommit`, `SaveRefused` |

The transactions are READ COMMITTED, so a transaction is cut where another may
change what it has read and atomic where its locks forbid that. A row lock is not
a variable: who holds it follows from where the requests stand (`RowLocked`). The
share lock that a check takes when its claim is already lost is left out; it only
makes others wait, and its transaction rolls back. The writes of a check become
visible with its verdict, so `RunFinalize` performs them.

Triggers that decide something the statements do not (the status changes an
import may make, the attempt a finding must carry, the status that accepts
structure) are part of the actions they guard. Triggers that repeat what the code
has made sure of (the catalog is EFFECTIVE when an attempt is inserted, the
attempt of an output is the current one) are left out, so that
`AttemptsStartOnEffectiveCatalog` and `OutputLineage` rest on the row locks alone.

`AttemptsStartOnEffectiveCatalog` has no run of its own: it is proved, and
`ImplementsPromise` says as much of the catalog of a check.

Abstracted: the content of the file; what a check finds (nothing, warnings, or
something blocking); the rules of a catalog (the requests that saved them, without
overlaps, which are refusals); the validation profile version, fixed in one
deployment; access scope; audit entries. No code resolves or overrides a finding,
so a finding is open or superseded.

### SarinPromise

What is promised of the tables, without requests, claims, leases, fences and locks:
`Upload`, `Archive`, `Start`, `Finish`, `Fail`, `Publish`, `Amend`, each a whole
operation. A check starts under the catalog that is effective at that moment, and takes
the place of one under way; its verdict, its attempt and its findings appear together,
and only while it is the last one; an import has one output of a check; a change of the
catalog is made from the effective version. `ImplementsPromise` maps the committed
tables of SarinLifecycle to it (`status`, `checks`, `open`, `published`) and the rules
and number of the effective catalog (`rules`, `edition`): what a request has read, and a
change that is not committed, are not seen.

### LiveImport

`runLiveDataSync` with the statements of `live-repository.ts`. `lock` is its row
of `SyncCheckpoint`, `lot` the `FantasyLiveLot` rows, `run` the statuses in
`IntegrationSyncRun`, `work` what a request holds in memory.

| Code | Action |
|---|---|
| `acquireLock`, taken over when older than `STALE_LOCK_MS` / LOCKED | `Acquire` / `Refused` |
| create the run; if that throws, the lock is released | `OpenRun`, `OpenThrows` |
| `fetchLots` and the mapping of its rows | `Fetch` (any snapshot; `rejected` says whether a row was refused) |
| `count` of active lots | `CountActive` |
| `upsertLiveLots`: read a batch, write it | `ReadBatch`, `WriteBatch` |
| guard and `markStaleNotSeenSince` | `MarkStale` |
| close the run; the catch and the finally clause | `CloseRun`, `Throws`, `RecordFailure`, `Release` |
| the process dies; the lock ages | `Crash`, `LockAges` |

Identities and content hashes are model values; times are compared and never
measured, so `now` counts snapshots. `overlapped` and `takeovers` record, for
the properties, which runs met another one.

### FantasyScheduler and FantasyClient

`FantasyScheduler` is the state object of `scheduler.ts`: `StartScheduler`,
`StopScheduler`, `Tick` (a fired timer), `Finish` (the import of a tick ended, with
any answer), `RestartProcess`. A stopped scheduler leaves its object behind with
its import in flight, and a new start makes a new object.

`FantasyClient` is `get` and `getAccessToken` of `live-api.ts`, cut at the awaits:
`FromMemory`, `FromTable`, `Login`, `LoginFails`, `Save`, then the answers `Page`,
`Busy` (429, 5xx, no answer), `Unauthorized` (a first 401 clears both caches and
forces a login, a second one is a refusal), `Clear`, `Unanswered`. The server may
forget a token and a token may near its end at any moment (`Revoke`,
`NearsItsEnd`).

### RawIngestion, CaptureLog, FantasyRowContract and BatchPreparation

`FantasyRowContract` is a pure module: `HeaderIssues`, `RowIssues`, `RowOutcome`
and `BatchStatus` say what `validateFantasyHeaders`, `normalizeFantasyRow` and
`prepareBatch` decide. `BatchPreparation` is one call of `prepareBatch` with its
result, of which `AcceptedIsVerbatim` speaks. `RawIngestion` captures batches: `Ask`, `NothingUsable`,
`Deliver` are the orchestration; `LockIdentity`, `Replay`, `FindOriginal`,
`Commit`, `Rollback` the transaction under the advisory lock with its
`MaxPersistAttempts`. A rollback may be a serialization failure, a violated index
or any other error, and a commit may lose its answer.

`CaptureLog` is what a caller sees of it, without lock, index, retries and rollbacks: a
log that only grows, and requests that ask for a batch and are answered. A request
stores its batch (`Store`, an original or a conflict with the first of its identity) or
finds it (`Replay`) in one step; a dry run (`Show`) stores nothing; a refusal (`Refuse`)
neither, although a stored batch may also be answered with a failure.
`ImplementsCaptureLog` maps `captured` to the log, the delivered batch of a request to
`asked`, its answer to `answer`, and `prepareBatch`'s verdict and row count of a body to
the constants `StatusOf` and `RowsOf`. `AnswersAreStored` follows from it and is proved,
without a run of its own.

### ConfirmedSales, Quantities, PlanningCategories and DemandFigures

`ConfirmedSales` is the loop of `loadCanonicalSaleFacts`, a row at a time, over
histories chosen by `SalesInit`. `Quantities` (`resolveCanonicalQuantity`, weights,
and `confirmedQuantitySql`) and `PlanningCategories` (lab, shape, band, category
key, work-in-progress outcome) are pure. `DemandFigures` has one action for each loop
body of `runDemandCalculation` between its reads and its publication (`TakeSale`,
`TakeRemoval`, `TakeStock`, `TakeWip`, then `Total`), in any order of the rows, and the
states of the stockout and the excess list with the filters that restate them.

### SignIn and AccessAdministration

`SignIn` is one account and its sessions. A request reads the account
(`TypePassword`), compares (`ComparePassword`), and writes in later statements;
`ChangePassword`, `ResetPassword` and `SetStatus` commit and leave a revoke to
come (`RevokeAll`). The resolution of a session on a request is `Serve`. A password
is the number of its generation.

`AccessAdministration` is the users, their roles, the custom roles and the access
requests. `Ask...` is what a route reads and checks before its transaction;
`CheckFloors` and `CheckRolesFloor` take the advisory lock of `role-service.ts`
or wait for it; `Write...`, `Approve`, `Reject` commit; `Aborts` rolls back. An
update that names a version or a status compares it in the statement
(`RoleClaimed`, `RequestClaimed`). `UpsertOnServer` is the command line, which
takes no lock. It is never used here to take Super Admin from an account;
`overtaken` records that it granted it while a change begun before was under way.
A suspended account is treated as a disabled one: the code treats the two alike
wherever the model reads a status.

## 3. Runs

| Run | Instance | Shows |
|---|---|---|
| `coord_lapse` | 1 synchronization, 2 calculations, 1 batch, leases lapse at any moment, statements fail, requests crash | a finished request holds nothing; nobody but the owner or a lapse gives away a claim or the demand lock |
| `coord_secure` | 2 synchronizations (one a retry that clears a live lock), 1 calculation, 2 batches; leases outlive requests; catch-block statements may fail too | exclusion, batches once and in order, one version per result, the refinement |
| `coord_live` | 1 synchronization, 1 calculation, 1 live import, 1 forced unlock, lapses, with fairness | an owner is never fenced by its own version; every claim is handed back or lapses after a crash |
| `lot_ledger` | a legacy lot and a new one, 2 batches with 3 items in all, stamps 1..2, 1 refresh, 1 calculation | versions, classifications and mirrors stay in step; a COMPLETED calculation counts the stock |
| `sarin_imports` | 1 import, 1 upload, 2 validations, 2 outputs, 2 catalog changes; leases run out at any moment, checks fail or crash | import and attempts agree; findings of one check at a time; lineage of outputs; no lost catalog change; a displaced worker changes nothing; the tables change by whole operations, as SarinPromise says |
| `sarin_live` | 2 imports, 2 uploads, 1 archive, 1 validation, 1 output, 1 catalog change, with fairness | an archived import is frozen; every request is answered |
| `live_import` | 2 imports over 2 lots with 2 contents, batches of 1, any earlier state of the lots, takeovers, failures and crashes; 3 captures of 1 identity, 3 bodies | the lock keeps imports apart until it is taken over; a snapshot lands as a whole; what is marked stale is exactly what was missing; one original per identity; captures are steps of a log |
| `fantasy_data` | 2 scheduler objects, exponent 2; 2 fetches, 2 tokens, 1 retry, 2 pages; every delivery of at most 3 columns and 1 row; histories of at most 3 versions of 2 lots; at most 2 sales, 1 removal, 2 stock rows, 1 work in progress | one timer, and imports again and again; bounded requests and honest refusals; accepted means verbatim; sale facts are episodes; every piece in one figure; COMPLETED leaves nothing out; filters agree with the code |
| `accounts` | one account with 2 requests, 1 session row, lock after 2 failures, 1 attempt per window, 3 changes, 2 wrong passwords; 3 names, 2 of them Super Admins at first, 1 custom role, 1 access request, 2 workers | a lock is earned; a change of password or status ends the earlier sessions; a Super Admin remains; a request is decided once; a role holds what its editor chose |
| `found_live_guard` | 1 import over 5 lots, one batch | finding 1 below |
| `found_second_sale` | as `fantasy_data` | finding 2 |
| `found_excess_state` | as `fantasy_data` | finding 3 |

Why the bounds are enough. A claim conflict needs an owner, a displaced former
owner and nothing else; `coord_lapse` has three requests, so a successor can be
displaced as well. Order needs two batches, and a retry beside the original.
In the ledger the interesting case is a row read by a batch, changed by the
refresh, and written by the batch: one legacy lot, one refresh. The second lot
shows that work on one does not disturb the other, the second batch that what
the first left is a legal start, and three items allow a sale, a return from
memo and a new record for one lot. What the proofs cover (section 5) holds for
any bound. In the Sarin model a displaced worker needs one successor, a lost
update two savers, a superseded output two output requests; the second import of
`sarin_live` is the one a file gets after the first was archived. Archives are in
`sarin_live` only and two validations in `sarin_imports` only, to keep each state
space within minutes; the requests of both runs arrive in any order and at any
moment. `SourceMayLag` (the provider may answer with no batch although one is due)
is FALSE in `coord_lapse` for the same reason and TRUE in the other coordination
runs.

The live import needs two requests for an overlap and two lots in separate batches
for a lot read and a lot written by different ones; the guard alone needs five lots,
where a quarter and a half differ. `live_import`, `fantasy_data` and `accounts` hold
several components that share no state in the code: the variable `part`, chosen at the
start and never changed, says which of them a behaviour is about, so the state
space is their sum. A token needs a successor, a capture two rivals (an original, a
replay and a conflict), a contract of two columns three delivered ones (missing,
foreign, duplicated and reordered), two sale episodes three versions. In the
figures two stock rows of one category meet in one trace; the 14 stock rows are the
ways a row can fail, each alone. One session row is enough since rows are used
again once they are not live. One access request means that two requests for the
same name never collide on `pendingKey`; two workers are the two reviewers of one.
`Editable` lets a custom role gain and lose the permission to administer.

What some properties leave open. `Exclusive` and `AppliedInOrder` are checked and
proved where leases outlive work: they cover a retry that clears a live lock,
failures and crashes, not a synchronization that outlives its lease. Two may then
work at once, and the claim test before the commit turns the displaced one away.
`FinishedHoldsNothing` supposes that the statements of a catch block succeed; that
only an owner or a lapse gives away a claim or the demand lock is proved without
that assumption (`ClaimKept`, `DemandLockKept`). `LockNeedsFailures` compares the
counter with all the wrong passwords there ever were, so it shows that nobody is
locked out unearned, not that a counter written over a reset is harmless.

`lot_ledger`, `live_import`, `accounts` and `fantasy_data` (with the found runs of
the same modules) switch the deadlock check off because all their counters are
bounded, and the Sarin runs because each of their requests is
made once and the system then rests. In the coordination models a stuck request is
reported, since the end of all requests is an action of its own.

Fairness in `coord_live`. A request that has started
keeps executing statements: the runtime schedules it, and no statement waits for
another request (locks are refused, not awaited). Leases run out with time.
Nothing makes a request arrive, a statement fail, or an administrator act; a
crashed request is never resumed.

Fairness in `sarin_live`. Each request is weakly fair as a whole (`Progress`): a
running request is scheduled, and the database grants a lock once it is free.
Failures, crashes, lapses and refusals for reasons outside the model (`Trouble`,
`Expire`) are never forced. Every request of the instance arrives.

Fairness in `fantasy_data` (`SchedulerFairness`): a timer that is armed fires, and
an import ends, since its fetch is bounded in time and in attempts. Nobody has to
start or to stop the scheduler.

## 4. Findings

1. `found_live_guard`: the guard of a live import compares the active lots before
   the import with the lots of the snapshot that were stored already, inactive ones
   included. Lots that come back hide as many that went missing, and every active
   lot may be marked stale although a test says that nothing is staled when more
   than a quarter is missing.
2. `found_second_sale`: a test says that a second sale episode counts separately. Its
   rows have no source record id; those of a synchronization have one, which is the
   same for every version of a lot, and the event key is then that id alone: the
   second sale is excluded as a duplicate.
3. `found_excess_state`: a test says that the state of every row of the excess list
   is what its stored figures imply, excess before a missing target. The code looks
   at the target first: a category with stock and no sales is shown as "No target",
   is not found by the filter of that name, and is listed under "Excess".

Eight further disagreements are stated in the modules, under a heading of their own at
the end, as definitions that no configuration checks. Adding one to the named
configuration makes TLC print the behaviour.

- `BrokenClaimNeverFinalizes` (`coord_live`): `prisma/schema.prisma` says that a
  worker whose claim was broken cannot finalize afterwards. The test and the write
  are two statements that do not lock the claim row, so a forced release in between
  is not seen.
- `BoundToTheDataRead` (`coord_secure`): a synchronization releases the claim before
  it marks its run SUCCESS; a calculation in between reads the new records and is
  bound to the previous run, although a test says that a run records the exact sync
  it read.
- `BoundRunIsCanonical` (`coord_live`): a live-data import records a run with source
  "Fantasy", and the calculation binds to the newest such run, an import without
  canonical records included.
- `SyncLockReleasedByOwner` (`coord_lapse` with `TwoSyncs`): two releases of the
  synchronization lock present no token, so a synchronization that outlived its
  lease clears its successor's. The canonical claim, which does present its token,
  is what keeps them apart.
- `UnclassifiedIsUnavailable` (`lot_ledger`): `prisma/schema.prisma` says that a NULL
  classification is unavailable; the effective classification computes one from the
  status, and the lot is counted.
- `NotConfiguredIsTrue` (`sarin_imports`): the capture of the mapping catalog selects
  the row by its status `FOR SHARE`; when a save is committing it waits, finds on
  waking that the row is SUPERSEDED, and does not see the new one. The user is told
  "Shape mappings are not configured." although they always were.
- `WipCoversItsCategory` (`fantasy_data`): a test expects eligible work in progress to
  reduce the pipeline need of its category, with shape mappings in upper case. The
  confirmed reference shapes are in mixed case; work in progress is put under the
  upper-case spelling, sales and stock under the confirmed one, so that it covers a
  category nobody asks for.
- `RunningMeansRunning` (`coord_lapse`): the analysis pages say "A demand calculation is
  currently running. Results will appear when it finishes." while any run has the
  status RUNNING. The run of a crashed calculation keeps it for good: its claim and
  its lock lapse, and no statement ends the run, whatever is calculated later.

Five observations that contradict no document: a record synchronized with its own
`labNormalized` never reaches the review of an unknown laboratory for work in
progress (`labNormalized ?? labRes.normalized`); the classification of work in
progress recomputes the quantity and does not look at the stored
`quantityProvenance`; its weight band is taken whether or not the unit of the
weight is confirmed; two changes of one user's data access scope at once may leave the
union of both, since each deletes the rows it sees and adds its own
(`src/src/app/api/admin/users/route.ts`); and the stock ageing list filters by
`shapeNormalized` while it shows `shape` for a lot without one.

## 5. Proofs

Every safety property of the passing runs, action properties and the three refinements
included, is proved, for any sets of requests, lots,
rows, tokens and accounts and any bounds. The assumptions are the named
`ASSUME`s of the modules, which TLC evaluates in the runs, and the two conditions
named below that say which deployments a theorem is about.

`FantasyCoordination_proofs`, under no assumption on leases or administrators:
`TypeCorrect` (`Spec => []TypeOK`); `OwnerFenceCorrect`, which needs that a version
read back belongs to the row the request still owns, since the version changes only
together with the owner; `ClaimKept` and `DemandLockKept`, by going through the
statements that write the claim (`ClaimChanges`) and the lock (`DemandLockChanges`):
each presents its token, waits for a lapse, or is the administrator's.

`FinishedReleased` proves `FinishedHoldsNothing` from `~SecondaryFailures`: the
statements of a catch block themselves succeed. Without it a request may end with
its claim still held, as after a crash, and the lease is what frees it. The invariant
`OwedInv` says of each token in the claim and in the two locks that its request is at
a step that releases it, still has the release among `owes`, or crashed.

Under `SecureDeployment` (a lease outlives its request and nobody forces a release)
`ExclusiveCorrect`, `AppliedCorrect` and `SnapshotCorrect` prove exclusion, order and
one version per result, and `ImplementsSnapshotCorrect` the refinement. The inductive
invariant `SnapshotInv`, of which the three properties are conjuncts, adds that a
synchronization between its claim and its commit works from the checkpoint still
stored (`StartIsCurrent`), and that what a calculation has read is still the current
version (`ReadIsCurrent`); without them the commit and the publication could not be
shown to preserve order and snapshot. The sync lock plays no part: a retry breaks it,
and the claim alone carries the proof.

`LotLedger_proofs`: `LedgerTypeCorrect`, `HistoryCorrect` and `ClassCorrect`.
The inductive invariant `LedgerInv` says that uncommitted lots are consistent
too, that a batch has read at most the present version (`ReadIsBehind`: a
version that is still free is then the next one, lemma `FreeVersionIsNext`),
that a lot the batch left unclassified differs from the committed one in no
fact (`TouchedOnly`), and that a candidate of the refresh that is still
unclassified is as it was read (`CandidatesUnchanged`). The last two are why
the NULL guard of the refresh is enough although the refresh takes no claim.

`MirrorCorrect` and `CompletedCorrect` rest on `StockInv`, inductive under that
invariant: the mirrors of uncommitted lots agree as well (`MirrorsOK`), a batch and a
calculation are not under way together (`Apart`), the status and currency a repair
read are still those stored, and a class it read is that status's (`RowsCurrent`: a
refresh may have classified the lot since, which changes neither), and a calculation
about to publish without review has counted the stock that is there now
(`StockKnown`). `DebtsComeFromRefreshes` proves a property no run checks,
`MirrorOwedOnlyAfterRefresh`: a polished lot lacks its mirror only when its last
version was written by a refresh. So does `VersionsStand`, for
`CommittedVersionsStand`: no step drops a version, takes a row back to an earlier
one, or changes what a row says without a new version. A batch computes the next
version from a row it read before, so this rests on the refused duplicate versions
(`FreeVersionIsNext`, through `HistoryCorrect`) and on the lock that keeps a refresh
off a lot the batch has written (`DraftsKeepHistory`: the transaction's copy has
all that was committed).

`SarinLifecycle_proofs`: every safety property the runs
`sarin_imports` and `sarin_live` check, for any sets of imports, uploads,
validations, generations, archives and catalog changes. Only the refinement uses that the
kinds of requests are disjoint (`KindsAssumption`). The invariant has three parts.

- `TypeInv` gives `TypeCorrect`: types, that a request under way is about an
  import, and that it has captured a version of the catalog that exists.
- `CatalogInv` gives `CatalogCorrect` and `StartsCorrect`. At most one change of
  the catalog is between its lock and its commit, and works from the effective
  version; a claim that has captured a version captured the effective one, and no
  change has replaced it (`FOR SHARE` against the update that marks it
  superseded). So the effective version can only change when nobody is between
  capture and claim.
- `RecordsInv` gives `AttemptsAgreeCorrect`, `FindingsCorrect`,
  `LineageCorrect`, `StaleCorrect` and `ArchiveCorrect`. To what the properties
  say of the rows it adds that a running attempt has the import's catalog version
  (`Agrees`), that a worker's attempt number is its fence (so that holding the
  claim means checking the last attempt: lemma `HoldsLast`), that no claim starts
  from a row read as archived, and that the import of an output being generated
  is VALIDATED and as it was read (`WorkerOK`), which is what the row locks are
  for (`NotGenerating`). How the rows of one import change is proved once for
  each kind of change (`StatusRows`, `ClaimedRows`, `VerdictKeeps`,
  `FailureKeeps`, `OutputKeeps`), apart from who makes it.

`ImplementsPromiseCorrect` is the refinement: each action is shown to be an operation of
SarinPromise or to be unseen. It adds two facts about requests. `ReadInv`: what a request
has read of an import is its row or an earlier state of it (`Follows`): the fence never
falls, and a row with the fence that was read has the attempt and the catalog that were read. `ChangesOK`: a catalog change under way is one of the effective
version.

`LiveImport_proofs`: `TypeCorrect`, `OneImport`, `SnapshotIsStored`, `StaleExactly`.
While no lock was taken over, a busy import holds it (`Held`). An import that never
met another (`Progress`) has every delivered lot still to do, or in a batch it has
read as the table holds it, or `Landed`: active, with its content, seen at its own
time; every lot that was not delivered was seen earlier. So the comparison of times
in the stale marking selects the missing lots and no others.

`DemandFigures_proofs`, on `ConfirmedSales`: `SalesCounted`. The invariant relates the
local variables of the loop to the history: `inSale` says whether the row before was a
sale (`Place`), and a source record is among the event keys exactly when a synchronized
start in the window was read (`Keys`).

On `DemandFigures`: `PiecesCountedOnce`, `NothingLeftOut`, `QueriesAndCode`, for any
finite sets of rows read (`FigureRowsAssumption`: counts and pieces are what the columns
may hold; `PlannedKeysAssumption`: the planned categories are finitely many and have a
weight band, a required column). `FiguresInv` says that the figures of a category, and
of all, are the sums over the rows taken so far (`StockCounted`, `WorkCounted`), that a
row with an approval but no quantity, or the reverse, has its category under review
(`Flagged`), and that a run ends COMPLETED with nothing under review or blocked (`Judged`). That a sum
over a finite set gains one row's value with the row, and splits over the categories,
is proved from the smallest set for which it would fail (`WFMin` on proper subsets),
since the library's induction theorems are out of reach.

`FantasyIntake_proofs` has five parts.

- `OneTimerCorrect`: `SchedulerInv` adds that a running object is the one the process
  points at, so that what a stop left behind cannot arm a timer.
- `RequestsAreBounded` and `RefusalIsReal`: `ClientInv` relates the requests sent to
  the retries counted and the forced login, at each place `get` may stand, and says
  what the two caches may hold while a fetch counts as alone.
- `RawTypeCorrect`, `IdentityHasOneOriginal`, `IngestedIsStored`: `RawInv` says
  that between the advisory lock and the commit a request holds the lock of its
  identity, and that what it found there, an original or nothing, is still so
  (`Decided`), whatever other captures, rollbacks and lost answers did before.
  `RowsAssumption`: a body has a number of rows.
- `CapturesAreALog`, the refinement of CaptureLog under the same invariant: taking the
  lock, looking for the original and trying again are unseen; a commit is `Store`, since
  `Decided` still holds then and the original that was found is the first batch of its
  identity (lemmas `FirstIsOriginal`, `EntrySeen`).
- `OnlyVerbatimIsAccepted`: for every contract of different names (`ContractAssumption`)
  and any batches as `prepareBatch` is given them (`DeliveriesAssumption`). That
  delivered columns without a remark are the contract in order is a pigeonhole argument:
  as many different columns as names.

`SignIn_proofs`: `SignInTypeCorrect`, `LockEarned`, `SessionsEnded`. What a row shows was
earned by compared passwords, and so was every row that a request read and may still
write back (`ReadsEarned`). `ChangesEndSessions` is inductive together with the types.

`AccessAdministration_proofs`: `TypeCorrect`, `SuperAdminIsNeverLost`,
`DecidedOnce`, `RolesAreChosen`. `Floor`: a worker about to take a status away holds
the advisory lock since its check, and what it checked still holds; a change of roles
checks and commits under the lock after its writes. `RoleRows`: an update of a role
was computed from the version it names. `Approvals`: an approved request has its
account.

Model-checked only: liveness (`ClaimHandedBack`, `EveryRequestAnswered`,
`SchedulerKeepsImporting`), since fairness and ENABLED are outside the prover's
reach.
The three properties of the found runs, and the definitions of section 4 that no
configuration checks, are refuted and not proved.

## 6. Not modelled, and the plan

Not modelled and not planned: reference data, the user interface, scripts and
migrations, workbook layout, the mapping of columns and the validation of single
fields, the rendering of analyses (reasons in `PROJECT.json`): each is a function of
one row, one file or one request, keeps no state that another actor sees, and has its
cases enumerated by the repository's tests. `replayFixtureSynchronization` exists
only in development. Of the request pipeline only what decides a sign-in is modelled.

What a next step would add, most important first:

1. The synchronization chained after a live import as a step of a module that
   composes `LiveImport` and `FantasyCoordination`.
2. Two access requests for one name, and the data access scopes of users.
3. The rules a Sarin validation applies to a row, as operators with a reference
   definition.
