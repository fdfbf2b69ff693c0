------------------------------ MODULE LotLedger ------------------------------
(***************************************************************************)
(* The canonical lot records and everything that writes them: the batch    *)
(* transaction of src/lib/fantasy/sync-service.ts, the classification      *)
(* refresh (classification-refresh.ts), which takes no claim and runs      *)
(* beside it, and the projection repair a demand calculation starts with   *)
(* (operational-projection.ts, demand-service.ts).                         *)
(*                                                                         *)
(* A lot is its LotMasterRecord row, its LotHistoryRecord rows and its     *)
(* PolishedStone mirror.  Transactions are READ COMMITTED: `ledger` is what *)
(* is committed, `work` what the open batch transaction wrote, and a row   *)
(* in `dirty` is locked until that transaction ends.  The canonical claim  *)
(* is the fact, shown in FantasyCoordination, that no batch and no         *)
(* calculation are under way together.                                     *)
(***************************************************************************)
EXTENDS Naturals, FiniteSets

CONSTANTS Lots,
          Legacy,        \* lots written before classification columns existed
          Polished,      \* lots whose roughOrPolished is POLISHED
          Refreshers,    \* classification refresh requests
          Feed,          \* what a record may say: [status, current]
          MaxStamp,      \* the sourceUpdatedAt values of records are 1..MaxStamp
          MaxBatches,    \* bound on batches
          MaxItems,      \* bound on the records and removals of all batches
          MaxDemands     \* bound on demand calculations

(* The statuses that are classified differently: SOLD stands for every       *)
(* terminal status, REMOVED_UNKNOWN for every other excluded one.            *)
Statuses == {"STOCK", "MEMO", "SOLD", "REMOVED_UNKNOWN"}
RemovalReasons == {"EXPLICIT_SALE", "MEMO_RETURN", "SOURCE_DISAPPEARANCE_UNKNOWN"}
Classes == {"PHYSICAL_AVAILABLE", "MEMO", "EXCLUDED"}
PlanningClasses == {"PHYSICAL", "MEMO", "OTHER"}

ASSUME LotsAssumption == Legacy \subseteq Lots /\ Polished \subseteq Lots
ASSUME FeedAssumption == Feed \subseteq [status: Statuses, current: BOOLEAN]
ASSUME LimitsAssumption == /\ MaxStamp \in Nat /\ MaxBatches \in Nat
                           /\ MaxItems \in Nat /\ MaxDemands \in Nat

VARIABLES ledger,    \* committed lots
          work,      \* the batch transaction's uncommitted lots
          dirty,     \* lots the batch transaction has written
          sync,      \* the batch transaction
          read,      \* the item it works on, with the row it found
          refresh,   \* classification refresh requests
          demand     \* the demand calculation

vars == <<ledger, work, dirty, sync, read, refresh, demand>>

Row == [status: Statuses \cup {"NONE"}, current: BOOLEAN,
        reason: RemovalReasons \cup {"NONE"}, class: Classes \cup {"NULL"},
        categorized: BOOLEAN, version: Nat, at: Nat]
HistoryRow == [version: Nat, status: Statuses, current: BOOLEAN,
               class: Classes \cup {"NULL"}, by: {"SYNC", "REFRESH"}]
Lot == [row: Row, history: SUBSET HistoryRow, mirror: PlanningClasses \cup {"NONE"}]

(* A lot with version 0 has no row. *)
NoRow == [status |-> "NONE", current |-> FALSE, reason |-> "NONE", class |-> "NULL",
          categorized |-> FALSE, version |-> 0, at |-> 0]

NewLot == [row |-> NoRow, history |-> {}, mirror |-> "NONE"]

Records == {[status |-> f.status, current |-> f.current, at |-> at] :
               f \in Feed, at \in 1..MaxStamp}

Nothing == [lot |-> "none"]
Reading == {Nothing} \cup [lot: Lots, base: Row, record: Records]
                     \cup [lot: Lots, base: Row, reason: RemovalReasons]

(* classifyFantasyRecord under the fixture profile's mapping rows. *)
ClassOf(status) == CASE status = "STOCK" -> "PHYSICAL_AVAILABLE"
                     [] status = "MEMO"  -> "MEMO"
                     [] OTHER            -> "EXCLUDED"

IsMirrored(class) == class \in {"PHYSICAL_AVAILABLE", "MEMO"}

ToLegacyPlanningClass(class) == CASE class = "PHYSICAL_AVAILABLE" -> "PHYSICAL"
                                  [] class = "MEMO"               -> "MEMO"
                                  [] OTHER                        -> "OTHER"

(* resolveEffectiveClassification: an unclassified row is classified on the  *)
(* fly; the mirror may only restrict the result.                             *)
Restrictiveness(class) == CASE class = "PHYSICAL_AVAILABLE" -> 0
                            [] class = "MEMO"               -> 1
                            [] OTHER                        -> 4

MirrorClass(planningClass) == CASE planningClass = "PHYSICAL" -> "PHYSICAL_AVAILABLE"
                                [] planningClass = "MEMO"     -> "MEMO"
                                [] OTHER                      -> "EXCLUDED"

EffectiveClass(lot) ==
    LET base == IF lot.row.class = "NULL" THEN ClassOf(lot.row.status) ELSE lot.row.class
        mirror == MirrorClass(lot.mirror)
    IN  IF lot.mirror # "NONE" /\ Restrictiveness(mirror) > Restrictiveness(base)
        THEN mirror ELSE base

HistoryOf(row, by) == [version |-> row.version, status |-> row.status,
                       current |-> row.current, class |-> row.class, by |-> by]

NoWork == [l \in Lots |-> NewLot]

(* A legacy lot has one history row and, if it is polished, perhaps the      *)
(* mirror its status calls for.                                              *)
LegacyLots ==
    {[row |-> row, history |-> {HistoryOf(row, "SYNC")}, mirror |-> mirror] :
        row \in {[status |-> f.status, current |-> f.current, reason |-> "NONE",
                  class |-> "NULL", categorized |-> FALSE, version |-> 1, at |-> 1] : f \in Feed},
        mirror \in PlanningClasses \cup {"NONE"}}

LegacyMirror(l, lot) ==
    lot.mirror # "NONE" => /\ l \in Polished
                           /\ lot.row.current
                           /\ IsMirrored(ClassOf(lot.row.status))
                           /\ lot.mirror = ToLegacyPlanningClass(ClassOf(lot.row.status))

Init ==
    /\ ledger \in [Lots -> LegacyLots \cup {NewLot}]
    /\ \A l \in Lots : /\ ledger[l] = NewLot <=> l \notin Legacy
                       /\ LegacyMirror(l, ledger[l])
    /\ work = NoWork
    /\ dirty = {}
    /\ sync = [step |-> "idle", batches |-> 0, items |-> 0, seen |-> {}]
    /\ read = Nothing
    /\ refresh = [r \in Refreshers |-> [step |-> "idle", todo |-> {},
                                        copy |-> [l \in Lots |-> NoRow]]]
    /\ demand = [step |-> "idle", runs |-> 0, pending |-> {}, rows |-> [l \in Lots |-> NoRow],
                 complete |-> FALSE, available |-> {}, review |-> FALSE, status |-> "NONE"]

-----------------------------------------------------------------------------
(* The batch transaction. *)

(* What the transaction's own queries see. *)
View(l) == IF l \in dirty THEN work[l] ELSE ledger[l]

Write(l, lot) ==
    /\ work' = [work EXCEPT ![l] = lot]
    /\ dirty' = dirty \cup {l}

(* (lotId, version) is unique in LotHistoryRecord: a second row of a version *)
(* throws, and the transaction is rolled back.                               *)
Recorded(l, version) == \E h \in View(l).history : h.version = version

(* Mutant of MirrorAfter: the mirror of a lot that left the stock is kept. *)
MirrorNeverDeleted(l, row) ==
    IF l \in Polished /\ row.current /\ IsMirrored(row.class)
    THEN ToLegacyPlanningClass(row.class)
    ELSE View(l).mirror

(* The mirror after a record was written: upserted for current polished lots *)
(* of a mirrored class, deleted otherwise.                                   *)
MirrorAfter(l, row) ==
    IF l \in Polished /\ row.current /\ IsMirrored(row.class)
    THEN ToLegacyPlanningClass(row.class)
    ELSE "NONE"

ClaimFree == sync.step = "idle" /\ demand.step = "idle"

(* Mutant of StartBatch: a batch starts under a running calculation. *)
StartBatchUnclaimed ==
    /\ sync.step = "idle" /\ sync.batches < MaxBatches
    /\ sync' = [sync EXCEPT !.step = "records", !.batches = @ + 1]
    /\ UNCHANGED <<ledger, work, dirty, read, refresh, demand>>

StartBatch ==
    /\ ClaimFree /\ sync.batches < MaxBatches
    /\ sync' = [sync EXCEPT !.step = "records", !.batches = @ + 1]
    /\ UNCHANGED <<ledger, work, dirty, read, refresh, demand>>

(* A second record of the same lot, or an invalid one, is only reported. *)
RejectRecord ==
    /\ sync.step = "records" /\ sync.items < MaxItems
    /\ sync' = [sync EXCEPT !.items = @ + 1]
    /\ UNCHANGED <<ledger, work, dirty, read, refresh, demand>>

ReadRecord(l, rec) ==
    /\ sync.step = "records" /\ sync.items < MaxItems
    /\ l \notin sync.seen
    /\ sync' = [sync EXCEPT !.step = "record", !.items = @ + 1, !.seen = @ \cup {l}]
    /\ read' = [lot |-> l, base |-> View(l).row, record |-> rec]
    /\ UNCHANGED <<ledger, work, dirty, refresh, demand>>

ItemDone(step) == sync' = [sync EXCEPT !.step = step] /\ read' = Nothing

RowOf(rec, version) ==
    [status |-> rec.status, current |-> rec.current, reason |-> "NONE",
     class |-> ClassOf(rec.status), categorized |-> TRUE, version |-> version, at |-> rec.at]

WriteRow(l, row) ==
    Write(l, [row |-> row,
              history |-> View(l).history \cup {HistoryOf(row, "SYNC")},
              mirror |-> MirrorAfter(l, row)])

CreateLot ==
    /\ sync.step = "record"
    /\ read.base.version = 0
    /\ ~Recorded(read.lot, 1)
    /\ WriteRow(read.lot, RowOf(read.record, 1))
    /\ ItemDone("records")
    /\ UNCHANGED <<ledger, refresh, demand>>

IsOlder == read.record.at < read.base.at

SkipOlder ==
    /\ sync.step = "record"
    /\ read.base.version > 0 /\ IsOlder
    /\ ItemDone("records")
    /\ UNCHANGED <<ledger, work, dirty, refresh, demand>>

(* `edited`: a difference in an attribute that is not modelled. *)
IsMeaningfulChange(edited) ==
    \/ edited
    \/ read.record.status # read.base.status
    \/ read.record.current # read.base.current
    \/ read.base.reason # "NONE"

ChangeLot ==
    /\ sync.step = "record"
    /\ read.base.version > 0 /\ ~IsOlder
    /\ \E edited \in BOOLEAN : IsMeaningfulChange(edited)
    /\ ~Recorded(read.lot, read.base.version + 1)
    /\ WriteRow(read.lot, RowOf(read.record, read.base.version + 1))
    /\ ItemDone("records")
    /\ UNCHANGED <<ledger, refresh, demand>>

Stamped(row, at) == [row EXCEPT !.at = at]

(* Nothing changed: only sourceUpdatedAt is written. *)
TouchLot ==
    /\ sync.step = "record"
    /\ read.base.version > 0 /\ ~IsOlder
    /\ \E edited \in BOOLEAN : ~IsMeaningfulChange(edited)
    /\ Write(read.lot, [View(read.lot) EXCEPT !.row = Stamped(@, read.record.at)])
    /\ ItemDone("records")
    /\ UNCHANGED <<ledger, refresh, demand>>

StartRemovals ==
    /\ sync.step = "records"
    /\ sync' = [sync EXCEPT !.step = "removals"]
    /\ UNCHANGED <<ledger, work, dirty, read, refresh, demand>>

ReadRemoval(l, reason) ==
    /\ sync.step = "removals" /\ sync.items < MaxItems
    /\ sync' = [sync EXCEPT !.step = "removal", !.items = @ + 1]
    /\ read' = [lot |-> l, base |-> View(l).row, reason |-> reason]
    /\ UNCHANGED <<ledger, work, dirty, refresh, demand>>

AlreadyRemoved ==
    read.base.version = 0 \/ (~read.base.current /\ read.base.reason = read.reason)

SkipRemoval ==
    /\ sync.step = "removal"
    /\ AlreadyRemoved
    /\ ItemDone("removals")
    /\ UNCHANGED <<ledger, work, dirty, refresh, demand>>

StatusAfter(reason) == CASE reason = "EXPLICIT_SALE" -> "SOLD"
                         [] reason = "MEMO_RETURN"   -> "STOCK"
                         [] OTHER                    -> "REMOVED_UNKNOWN"

RemovedRow(row, reason) ==
    [row EXCEPT !.status = StatusAfter(reason), !.current = (reason = "MEMO_RETURN"),
                !.reason = reason, !.class = ClassOf(StatusAfter(reason)),
                !.version = read.base.version + 1]

(* The stamp and the category of the row are not part of the update.  A      *)
(* return from memo puts the mirror back, whatever the lot is.               *)
RemoveLot ==
    /\ sync.step = "removal"
    /\ ~AlreadyRemoved
    /\ ~Recorded(read.lot, read.base.version + 1)
    /\ LET row == RemovedRow(View(read.lot).row, read.reason)
       IN  Write(read.lot,
                 [row |-> row,
                  history |-> View(read.lot).history \cup {HistoryOf(row, "SYNC")},
                  mirror |-> IF row.current THEN ToLegacyPlanningClass(row.class) ELSE "NONE"])
    /\ ItemDone("removals")
    /\ UNCHANGED <<ledger, refresh, demand>>

EndBatch(committed) ==
    /\ ledger' = committed
    /\ work' = NoWork
    /\ dirty' = {}
    /\ sync' = [sync EXCEPT !.step = "idle", !.seen = {}]
    /\ read' = Nothing
    /\ UNCHANGED <<refresh, demand>>

CommitBatch == sync.step = "removals" /\ EndBatch([l \in Lots |-> View(l)])

(* Any statement may fail, a repeated history version always does. *)
AbortBatch == sync.step # "idle" /\ EndBatch(ledger)
-----------------------------------------------------------------------------
(* refreshFixtureClassification.  It takes no claim; per candidate one       *)
(* transaction of a guarded update and a history row built from what the     *)
(* candidate query returned.  A row locked by the batch makes it wait.       *)

Unclassified(row) == row.current /\ row.class = "NULL"

StartRefresh(r) ==
    /\ refresh[r].step = "idle"
    /\ refresh' = [refresh EXCEPT ![r] =
            [step |-> "run", todo |-> {l \in Lots : Unclassified(ledger[l].row)},
             copy |-> [l \in Lots |-> IF Unclassified(ledger[l].row) THEN ledger[l].row ELSE NoRow]]]
    /\ UNCHANGED <<ledger, work, dirty, sync, read, demand>>

Handled(r, l) == refresh' = [refresh EXCEPT ![r].todo = @ \ {l}, ![r].copy[l] = NoRow]

(* The columns the guarded update writes, and the history row built from the *)
(* candidate.                                                                *)
Refreshed(lot, candidate) ==
    LET class == ClassOf(candidate.status)
        row == [lot.row EXCEPT !.class = class, !.version = @ + 1]
        entry == [version |-> candidate.version + 1, status |-> candidate.status,
                  current |-> TRUE, class |-> class, by |-> "REFRESH"]
    IN  [lot EXCEPT !.row = row, !.history = @ \cup {entry}]

(* Mutant of RefreshLot: the update is not guarded by the class being NULL. *)
RefreshLotUnguarded(r, l) ==
    /\ refresh[r].step = "run" /\ l \in refresh[r].todo /\ l \notin dirty
    /\ ledger' = [ledger EXCEPT ![l] = Refreshed(ledger[l], refresh[r].copy[l])]
    /\ Handled(r, l)
    /\ UNCHANGED <<work, dirty, sync, read, demand>>

RefreshLot(r, l) ==
    /\ refresh[r].step = "run" /\ l \in refresh[r].todo /\ l \notin dirty
    /\ ledger[l].row.class = "NULL"
    /\ ledger' = [ledger EXCEPT ![l] = Refreshed(ledger[l], refresh[r].copy[l])]
    /\ Handled(r, l)
    /\ UNCHANGED <<work, dirty, sync, read, demand>>

RefreshSkip(r, l) ==
    /\ refresh[r].step = "run" /\ l \in refresh[r].todo /\ l \notin dirty
    /\ ledger[l].row.class # "NULL"
    /\ Handled(r, l)
    /\ UNCHANGED <<ledger, work, dirty, sync, read, demand>>

(* Done, or stopped by an error with candidates left. *)
EndRefresh(r) ==
    /\ refresh[r].step = "run"
    /\ refresh' = [refresh EXCEPT ![r] = [step |-> "done", todo |-> {},
                                          copy |-> [l \in Lots |-> NoRow]]]
    /\ UNCHANGED <<ledger, work, dirty, sync, read, demand>>
-----------------------------------------------------------------------------
(* The demand calculation: repair the projection, test that it is complete,  *)
(* read the stock, publish.                                                  *)

RequiresMirror(l, row) == row.current /\ l \in Polished /\ IsMirrored(row.class)

Owed(l) == RequiresMirror(l, ledger[l].row) /\ ledger[l].mirror = "NONE"

PendingRepair == {l \in Lots : ledger[l].row.current /\ (~ledger[l].row.categorized \/ Owed(l))}

(* A repair handles RECONCILIATION_MAX_BATCHES batches, perhaps not all.     *)
ListPending ==
    /\ ClaimFree /\ demand.runs < MaxDemands
    /\ \E part \in SUBSET PendingRepair :
          demand' = [demand EXCEPT !.step = "read", !.runs = @ + 1, !.pending = part,
                                   !.complete = FALSE, !.available = {}, !.review = FALSE,
                                   !.status = "NONE"]
    /\ UNCHANGED <<ledger, work, dirty, sync, read, refresh>>

ReadPending ==
    /\ demand.step = "read"
    /\ demand' = [demand EXCEPT !.step = "repair",
                                !.rows = [l \in Lots |-> IF l \in demand.pending
                                                         THEN ledger[l].row ELSE NoRow]]
    /\ UNCHANGED <<ledger, work, dirty, sync, read, refresh>>

(* reconcileBatch works on the rows read before its transaction. *)
Repaired(l) ==
    [ledger[l] EXCEPT
        !.row = [@ EXCEPT !.categorized = TRUE],
        !.mirror = IF RequiresMirror(l, demand.rows[l])
                   THEN ToLegacyPlanningClass(demand.rows[l].class) ELSE @]

Repair ==
    /\ demand.step = "repair"
    /\ ledger' = [l \in Lots |-> IF l \in demand.pending THEN Repaired(l) ELSE ledger[l]]
    /\ demand' = [demand EXCEPT !.step = "check", !.pending = {},
                                !.rows = [l \in Lots |-> NoRow]]
    /\ UNCHANGED <<work, dirty, sync, read, refresh>>

CheckProjection ==
    /\ demand.step = "check"
    /\ demand' = [demand EXCEPT !.step = "stock", !.complete = (PendingRepair = {})]
    /\ UNCHANGED <<ledger, work, dirty, sync, read, refresh>>

Inventory == {l \in Polished : /\ ledger[l].row.current
                               /\ ledger[l].row.status \notin {"SOLD", "REMOVED_UNKNOWN"}}

MissingMirror(l) == IsMirrored(EffectiveClass(ledger[l])) /\ ledger[l].mirror = "NONE"

Available(l) == ~MissingMirror(l) /\ EffectiveClass(ledger[l]) = "PHYSICAL_AVAILABLE"

ReadStock ==
    /\ demand.step = "stock"
    /\ demand' = [demand EXCEPT !.step = "publish",
            !.available = {l \in Inventory : Available(l)},
            !.review = \E l \in Inventory :
                          MissingMirror(l) \/ EffectiveClass(ledger[l]) = "EXCLUDED"]
    /\ UNCHANGED <<ledger, work, dirty, sync, read, refresh>>

(* What a calculation has worked out, but for the lots it counted and the   *)
(* status it stored, ends with it.                                           *)
Publish ==
    /\ demand.step = "publish"
    /\ demand' = [demand EXCEPT !.step = "idle",
            !.status = IF demand.review \/ ~demand.complete THEN "REVIEW_REQUIRED" ELSE "COMPLETED",
            !.complete = FALSE, !.review = FALSE]
    /\ UNCHANGED <<ledger, work, dirty, sync, read, refresh>>

FailDemand ==
    /\ demand.step # "idle"
    /\ demand' = [demand EXCEPT !.step = "idle", !.status = "FAILED", !.pending = {},
                                !.rows = [l \in Lots |-> NoRow], !.available = {},
                                !.complete = FALSE, !.review = FALSE]
    /\ UNCHANGED <<ledger, work, dirty, sync, read, refresh>>
-----------------------------------------------------------------------------
Batch ==
    \/ StartBatch \/ RejectRecord \/ CreateLot \/ SkipOlder \/ ChangeLot \/ TouchLot
    \/ StartRemovals \/ SkipRemoval \/ RemoveLot \/ CommitBatch \/ AbortBatch
    \/ \E l \in Lots, rec \in Records : ReadRecord(l, rec)
    \/ \E l \in Lots, reason \in RemovalReasons : ReadRemoval(l, reason)

Refresh == \E r \in Refreshers :
              \/ StartRefresh(r) \/ EndRefresh(r)
              \/ \E l \in Lots : RefreshLot(r, l) \/ RefreshSkip(r, l)

Demand == ListPending \/ ReadPending \/ Repair \/ CheckProjection \/ ReadStock \/ Publish \/ FailDemand

Next == Batch \/ Refresh \/ Demand

Spec == Init /\ [][Next]_vars
-----------------------------------------------------------------------------
(* Properties. *)

RowTypeOK ==
    /\ ledger \in [Lots -> Lot]
    /\ work \in [Lots -> Lot]
    /\ dirty \subseteq Lots

(* A current lot has a row and carries no removal reason but that of its     *)
(* return.                                                                   *)
CurrentRow(row) == row.current => row.status # "NONE" /\ row.reason \in {"NONE", "MEMO_RETURN"}

ReasonTypeOK == \A l \in Lots : CurrentRow(ledger[l].row) /\ CurrentRow(work[l].row)

SyncRow == [step: {"idle", "records", "record", "removals", "removal"},
            batches: Nat, items: Nat, seen: SUBSET Lots]
RefreshRow == [step: {"idle", "run", "done"}, todo: SUBSET Lots, copy: [Lots -> Row]]
DemandRow == [step: {"idle", "read", "repair", "check", "stock", "publish"},
              runs: Nat, pending: SUBSET Lots, rows: [Lots -> Row], complete: BOOLEAN,
              available: SUBSET Lots, review: BOOLEAN,
              status: {"NONE", "REVIEW_REQUIRED", "COMPLETED", "FAILED"}]

RequestTypeOK ==
    /\ sync \in SyncRow
    /\ read \in Reading
    /\ sync.step = "record" => read \in [lot: Lots, base: Row, record: Records]
    /\ sync.step = "removal" => read \in [lot: Lots, base: Row, reason: RemovalReasons]
    /\ refresh \in [Refreshers -> RefreshRow]
    /\ demand \in DemandRow

(* Types of the variables, and the removal reason a current lot may carry. *)
LedgerTypeOK == RowTypeOK /\ ReasonTypeOK /\ RequestTypeOK

(* The history of a lot is an unbroken run of versions, one row each, whose  *)
(* last row says what the master row says.                                   *)
Chained(lot) ==
    /\ {h.version : h \in lot.history} = 1..lot.row.version
    /\ \A g, h \in lot.history : g.version = h.version => g = h
    /\ \A h \in lot.history : h.version = lot.row.version =>
          /\ h.status = lot.row.status
          /\ h.current = lot.row.current
          /\ h.class = lot.row.class

(* However a refresh, which takes no claim, interleaves with the statements  *)
(* of a batch, no committed lot loses, repeats or misstates a version.       *)
HistoryFollowsMaster == \A l \in Lots : Chained(ledger[l])

(* A classification is that of the status it stands beside, although the     *)
(* refresh computes it from a status it read before.                         *)
ClassFollowsStatus ==
    \A l \in Lots : ledger[l].row.class # "NULL" => ledger[l].row.class = ClassOf(ledger[l].row.status)

(* Why these hold, as an inductive invariant.  They hold of the uncommitted  *)
(* lots too.  A batch may have read a lot before a refresh changed it: what  *)
(* it read is at most older, so a version that is still free is the next     *)
(* one.  A batch that only touched a lot left the rest of its row alone, and *)
(* a candidate of a refresh that is still unclassified is as it was read.    *)
Consistent(lot) ==
    /\ Chained(lot)
    /\ lot.row.class # "NULL" => lot.row.class = ClassOf(lot.row.status)

LotsConsistent == \A l \in Lots : Consistent(ledger[l]) /\ Consistent(work[l])

ReadIsBehind ==
    sync.step \in {"record", "removal"} => read.base.version <= View(read.lot).row.version

SameFacts(a, b) == a.status = b.status /\ a.current = b.current /\ a.version = b.version

TouchedOnly ==
    \A l \in dirty : work[l].row.class = "NULL" =>
        SameFacts(work[l].row, ledger[l].row) /\ ledger[l].row.class = "NULL"

CandidatesUnchanged ==
    \A r \in Refreshers : \A l \in refresh[r].todo :
        ledger[l].row.class = "NULL" =>
            SameFacts(refresh[r].copy[l], ledger[l].row) /\ ledger[l].row.current

LedgerInv == LotsConsistent /\ ReadIsBehind /\ TouchedOnly /\ CandidatesUnchanged

(* A mirror exists only for current lots, with the planning class of the     *)
(* status the lot has now, whoever wrote it: batch, return or repair.        *)
MirrorAgrees ==
    \A l \in Lots : ledger[l].mirror # "NONE" =>
        /\ ledger[l].row.current
        /\ ledger[l].mirror = ToLegacyPlanningClass(ClassOf(ledger[l].row.status))

(* A mirror is owed only by a lot whose latest version is a refresh: batches *)
(* leave no debt for the repair of the next calculation.                     *)
MirrorOwedOnlyAfterRefresh ==
    \A l \in Lots : Owed(l) =>
        \E h \in ledger[l].history : h.version = ledger[l].row.version /\ h.by = "REFRESH"

(* What was committed of a lot stands: a commit, although its transaction    *)
(* may have read the lot before a refresh changed it, drops no version and   *)
(* takes the row back to none, and the row changes what it says only with a  *)
(* version that was not there before.                                        *)
CommittedVersionsStand ==
    [][\A l \in Lots :
          /\ ledger[l].history \subseteq ledger'[l].history
          /\ ledger[l].row.version <= ledger'[l].row.version
          /\ ledger[l].row.version = ledger'[l].row.version /\ ledger[l].row.version > 0 =>
                /\ SameFacts(ledger[l].row, ledger'[l].row)
                /\ ledger[l].row.class = ledger'[l].row.class]_vars

(* A calculation that reports COMPLETED counted as available exactly the     *)
(* polished lots that are in stock when it is published, although it reads   *)
(* the lots, their mirrors and the completeness of the projection apart.     *)
CompletedCountsStock ==
    [][demand.status = "NONE" /\ demand'.status = "COMPLETED" =>
          demand'.available = {l \in Polished : ledger[l].row.current /\ ledger[l].row.status = "STOCK"}]_vars

-----------------------------------------------------------------------------
(* schema.prisma: a null classification is treated as unclassified and       *)
(* therefore unavailable.  The effective classification computes one instead. *)
UnclassifiedIsUnavailable ==
    [][\A l \in demand'.available \ demand.available : ledger[l].row.class # "NULL"]_vars
=============================================================================
