--------------------------- MODULE LotLedger_proofs ---------------------------
(***************************************************************************)
(* LotLedger for any lots, feed, refresh requests and bounds: the types,   *)
(* that the history of a lot follows its master row, that mirrors agree    *)
(* with it, what a calculation counts, and that what was committed stands. *)
(* The inductive invariant is LedgerTypeOK with LedgerInv; StockInv,       *)
(* DebtsOK and DraftsKeepHistory are inductive under it.                   *)
(***************************************************************************)
EXTENDS LotLedger, TLAPS

IInv == LedgerTypeOK /\ LedgerInv

-----------------------------------------------------------------------------
(* The operators. *)

(* Every status has a class. *)
LEMMA ClassOfType == \A status : ClassOf(status) \in Classes
  BY DEF ClassOf, Classes

(* Every class has a planning class. *)
LEMMA PlanningClassType == \A class : ToLegacyPlanningClass(class) \in PlanningClasses
  BY DEF ToLegacyPlanningClass, PlanningClasses

(* What a record says can be stored in a row. *)
LEMMA RecordType == Records \subseteq [status: Statuses, current: BOOLEAN, at: Nat]
  BY FeedAssumption, LimitsAssumption DEF Records

(* An absent lot is a lot, and consistent. *)
LEMMA NewLotType == NewLot \in Lot /\ Consistent(NewLot) /\ CurrentRow(NewLot.row)
  BY DEF NewLot, NoRow, Lot, Row, Consistent, Chained, CurrentRow

(* The transaction's view of a lot is a consistent lot. *)
LEMMA ViewType ==
  ASSUME RowTypeOK, ReasonTypeOK, LotsConsistent, NEW l \in Lots
  PROVE  View(l) \in Lot /\ Consistent(View(l)) /\ CurrentRow(View(l).row)
  BY DEF RowTypeOK, ReasonTypeOK, LotsConsistent, View

(* A row of a lot makes a history row. *)
LEMMA HistoryRowType ==
  ASSUME NEW row \in Row, row.status # "NONE", NEW by \in {"SYNC", "REFRESH"}
  PROVE  /\ HistoryOf(row, by) \in HistoryRow
         /\ HistoryOf(row, by).version = row.version
         /\ HistoryOf(row, by).status = row.status
         /\ HistoryOf(row, by).current = row.current
         /\ HistoryOf(row, by).class = row.class
  BY DEF HistoryOf, HistoryRow, Row

(* A history grows by the next version, which states the new row. *)
LEMMA ChainExtend ==
  ASSUME NEW lot \in Lot, Chained(lot), NEW next \in Lot, NEW entry \in HistoryRow,
         next.history = lot.history \cup {entry},
         next.row.version = lot.row.version + 1,
         entry.version = next.row.version, entry.status = next.row.status,
         entry.current = next.row.current, entry.class = next.row.class
  PROVE  Chained(next)
<1>1. /\ lot.row.version \in Nat
      /\ lot.history \subseteq HistoryRow
      /\ \A h \in lot.history : h.version \in Nat
  BY DEF Lot, Row, HistoryRow
<1>2. \A h \in lot.history : h.version \in 1..lot.row.version
  BY DEF Chained
<1>3. {h.version : h \in next.history} = {h.version : h \in lot.history} \cup {entry.version}
  OBVIOUS
<1>4. {h.version : h \in next.history} = 1..next.row.version
  <2>1. {h.version : h \in lot.history} = 1..lot.row.version
    BY DEF Chained
  <2> QED BY <1>1, <1>3, <2>1
<1>5. \A g, h \in next.history : g.version = h.version => g = h
  BY <1>1, <1>2 DEF Chained
<1>6. \A h \in next.history : h.version = next.row.version => h = entry
  BY <1>1, <1>2
<1> QED BY <1>4, <1>5, <1>6 DEF Chained

(* A lot whose row changes in other columns only stays consistent. *)
LEMMA SameChain ==
  ASSUME NEW lot, Consistent(lot), NEW next,
         next.history = lot.history, SameFacts(next.row, lot.row),
         next.row.class = lot.row.class
  PROVE  Consistent(next)
  BY DEF Consistent, Chained, SameFacts

(* A version that is free in the history of a lot read earlier is the next   *)
(* one: nothing was written since.                                           *)
LEMMA FreeVersionIsNext ==
  ASSUME IInv, sync.step \in {"record", "removal"},
         ~Recorded(read.lot, read.base.version + 1)
  PROVE  read.base.version = View(read.lot).row.version
<1>1. read.lot \in Lots /\ read.base.version \in Nat
  BY DEF IInv, LedgerTypeOK, RequestTypeOK, Row
<1>2. View(read.lot) \in Lot /\ Chained(View(read.lot))
  BY <1>1, ViewType DEF IInv, LedgerTypeOK, LedgerInv, Consistent
<1>3. View(read.lot).row.version \in Nat
  BY <1>2 DEF Lot, Row
<1>4. read.base.version <= View(read.lot).row.version
  BY DEF IInv, LedgerInv, ReadIsBehind
<1>5. read.base.version + 1 \notin {h.version : h \in View(read.lot).history}
  BY DEF Recorded
<1>6. read.base.version + 1 \notin 1..View(read.lot).row.version
  BY <1>2, <1>5 DEF Chained
<1> QED BY <1>1, <1>3, <1>4, <1>6

-----------------------------------------------------------------------------
(* Steps of the batch transaction. *)

(* What the invariant says of everything but the batch's own progress. *)
LotsInv == RowTypeOK /\ ReasonTypeOK /\ LotsConsistent /\ TouchedOnly /\ CandidatesUnchanged

(* Writing a consistent lot into the transaction keeps the lots consistent,  *)
(* provided that a lot left unclassified differs in no fact from the         *)
(* committed one.                                                            *)
LEMMA WriteKeepsLots ==
  ASSUME LotsInv, NEW l \in Lots, NEW lot \in Lot, Consistent(lot), CurrentRow(lot.row),
         lot.row.class = "NULL" =>
            SameFacts(lot.row, ledger[l].row) /\ ledger[l].row.class = "NULL",
         Write(l, lot), UNCHANGED <<ledger, refresh>>
  PROVE  LotsInv'
<1>1. /\ work' = [work EXCEPT ![l] = lot]
      /\ dirty' = dirty \cup {l}
      /\ work \in [Lots -> Lot]
  BY DEF Write, LotsInv, RowTypeOK
<1>2. RowTypeOK' BY <1>1 DEF LotsInv, RowTypeOK
<1>3. ReasonTypeOK' BY <1>1 DEF LotsInv, ReasonTypeOK
<1>4. LotsConsistent' BY <1>1 DEF LotsInv, LotsConsistent
<1>5. TouchedOnly' BY <1>1 DEF LotsInv, TouchedOnly
<1>6. CandidatesUnchanged' BY DEF LotsInv, CandidatesUnchanged
<1> QED BY <1>2, <1>3, <1>4, <1>5, <1>6 DEF LotsInv

(* A step that leaves lots and candidates alone keeps what is known of them. *)
LEMMA LotsUnchanged ==
  ASSUME LotsInv, UNCHANGED <<ledger, work, dirty, refresh>>
  PROVE  LotsInv'
  BY DEF LotsInv, RowTypeOK, ReasonTypeOK, LotsConsistent, TouchedOnly, CandidatesUnchanged

(* The progress of a batch and of a calculation. *)
ProgressOK == RequestTypeOK /\ ReadIsBehind

LEMMA InvParts ==
  (IInv <=> LotsInv /\ ProgressOK) /\ (IInv' <=> LotsInv' /\ ProgressOK')
  BY DEF IInv, LotsInv, ProgressOK, LedgerTypeOK, LedgerInv

LEMMA SyncTyped == ProgressOK => sync \in SyncRow
  BY DEF ProgressOK, RequestTypeOK

(* The batch moves to a step, with one more item. *)
LEMMA SyncMoves ==
  ASSUME sync \in SyncRow, NEW l \in Lots, NEW step \in {"record", "removal"}
  PROVE  /\ [sync EXCEPT !.step = step, !.items = @ + 1] \in SyncRow
         /\ [sync EXCEPT !.step = step, !.items = @ + 1, !.seen = @ \cup {l}] \in SyncRow
<1>1. sync.items + 1 \in Nat
  BY DEF SyncRow
<1> DEFINE i == sync.items + 1
<1>2. i \in Nat BY <1>1
<1> HIDE DEF i
<1>3. [sync EXCEPT !.step = step, !.items = i] \in SyncRow
  BY <1>2 DEF SyncRow
<1>4. sync.seen \cup {l} \in SUBSET Lots
  BY DEF SyncRow
<1>5. [sync EXCEPT !.step = step, !.items = i, !.seen = @ \cup {l}] \in SyncRow
  BY <1>2, <1>4 DEF SyncRow
<1> QED BY <1>3, <1>5 DEF i

(* What a batch may hold between reading an item and writing it. *)
LEMMA ReadingParts ==
  /\ Nothing \in Reading
  /\ [lot: Lots, base: Row, record: Records] \subseteq Reading
  /\ [lot: Lots, base: Row, reason: RemovalReasons] \subseteq Reading
  BY ZenonT(20) DEF Reading

(* Going on to the next item. *)
LEMMA ItemDoneKeeps ==
  ASSUME ProgressOK, NEW step \in {"records", "removals"}, ItemDone(step), UNCHANGED <<refresh, demand>>
  PROVE  ProgressOK'
<1>1. sync' \in SyncRow /\ sync'.step = step
  BY SyncTyped DEF SyncRow, ItemDone
<1>2. read' \in Reading
  BY ReadingParts DEF ItemDone
<1>3. RequestTypeOK'
  BY <1>1, <1>2 DEF ProgressOK, RequestTypeOK
<1>4. ReadIsBehind'
  BY <1>1 DEF ReadIsBehind
<1> QED BY <1>3, <1>4 DEF ProgressOK

LEMMA StartBatchKeeps == IInv /\ StartBatch => IInv'
<1> SUFFICES ASSUME IInv, StartBatch PROVE IInv' OBVIOUS
<1>0. LotsInv /\ ProgressOK BY InvParts
<1>1. LotsInv' BY <1>0, LotsUnchanged DEF StartBatch
<1>a. sync \in SyncRow BY <1>0, SyncTyped
<1>b. sync' = [sync EXCEPT !.step = "records", !.batches = @ + 1] BY DEF StartBatch
<1>c. sync.batches + 1 \in Nat BY <1>a DEF SyncRow
<1>d. sync' \in SyncRow
  <2> DEFINE b == sync.batches + 1
  <2>1. sync' = [sync EXCEPT !.step = "records", !.batches = b] BY <1>b
  <2>2. b \in Nat BY <1>c
  <2> HIDE DEF b
  <2> QED BY <1>a, <2>1, <2>2 DEF SyncRow
<1>2. sync' \in SyncRow /\ sync'.step = "records"
  BY <1>a, <1>b, <1>d DEF SyncRow
<1>3. ProgressOK'
  BY <1>0, <1>2 DEF StartBatch, ProgressOK, RequestTypeOK, ReadIsBehind
<1> QED BY <1>1, <1>3, InvParts

LEMMA RejectRecordKeeps == IInv /\ RejectRecord => IInv'
<1> SUFFICES ASSUME IInv, RejectRecord PROVE IInv' OBVIOUS
<1>0. LotsInv /\ ProgressOK BY InvParts
<1>1. LotsInv' BY <1>0, LotsUnchanged DEF RejectRecord
<1>2. /\ sync' \in SyncRow
      /\ sync'.step = "records"
  BY <1>0, SyncTyped DEF RejectRecord, SyncRow
<1>3. ProgressOK'
  BY <1>0, <1>2 DEF RejectRecord, ProgressOK, RequestTypeOK, ReadIsBehind
<1> QED BY <1>1, <1>3, InvParts

LEMMA StartRemovalsKeeps == IInv /\ StartRemovals => IInv'
<1> SUFFICES ASSUME IInv, StartRemovals PROVE IInv' OBVIOUS
<1>0. LotsInv /\ ProgressOK BY InvParts
<1>1. LotsInv' BY <1>0, LotsUnchanged DEF StartRemovals
<1>2. /\ sync' \in SyncRow
      /\ sync'.step = "removals"
  BY <1>0, SyncTyped DEF StartRemovals, SyncRow
<1>3. ProgressOK'
  BY <1>0, <1>2 DEF StartRemovals, ProgressOK, RequestTypeOK, ReadIsBehind
<1> QED BY <1>1, <1>3, InvParts

LEMMA ReadRecordKeeps ==
  ASSUME IInv, NEW l \in Lots, NEW rec \in Records, ReadRecord(l, rec)
  PROVE  IInv'
<1>0. LotsInv /\ ProgressOK BY InvParts
<1>1. LotsInv' BY <1>0, LotsUnchanged DEF ReadRecord
<1>2. View(l) \in Lot BY InvParts, ViewType DEF LotsInv
<1>3. View(l).row \in Row /\ View(l).row.version \in Nat BY <1>2 DEF Lot, Row
<1>4. View(l)' = View(l) BY DEF View, ReadRecord
<1>5. read' = [lot |-> l, base |-> View(l).row, record |-> rec] BY DEF ReadRecord
<1>a. sync \in SyncRow BY <1>0, SyncTyped
<1>b. sync' = [sync EXCEPT !.step = "record", !.items = @ + 1, !.seen = @ \cup {l}]
  BY DEF ReadRecord
<1>c. sync' \in SyncRow BY <1>a, <1>b, SyncMoves
<1>8. sync' \in SyncRow /\ sync'.step = "record"
  BY <1>a, <1>b, <1>c DEF SyncRow
<1>9. read' \in [lot: Lots, base: Row, record: Records]
  BY <1>3, <1>5
<1>6. RequestTypeOK'
  BY <1>0, <1>8, <1>9, ReadingParts DEF ReadRecord, ProgressOK, RequestTypeOK
<1>7. ReadIsBehind' BY <1>3, <1>4, <1>5 DEF ReadIsBehind
<1> QED BY <1>1, <1>6, <1>7, InvParts DEF ProgressOK

LEMMA ReadRemovalKeeps ==
  ASSUME IInv, NEW l \in Lots, NEW reason \in RemovalReasons, ReadRemoval(l, reason)
  PROVE  IInv'
<1>0. LotsInv /\ ProgressOK BY InvParts
<1>1. LotsInv' BY <1>0, LotsUnchanged DEF ReadRemoval
<1>2. View(l) \in Lot BY InvParts, ViewType DEF LotsInv
<1>3. View(l).row \in Row /\ View(l).row.version \in Nat BY <1>2 DEF Lot, Row
<1>4. View(l)' = View(l) BY DEF View, ReadRemoval
<1>5. read' = [lot |-> l, base |-> View(l).row, reason |-> reason] BY DEF ReadRemoval
<1>a. sync \in SyncRow BY <1>0, SyncTyped
<1>b. sync' = [sync EXCEPT !.step = "removal", !.items = @ + 1]
  BY DEF ReadRemoval
<1>c. sync' \in SyncRow BY <1>a, <1>b, SyncMoves
<1>8. sync' \in SyncRow /\ sync'.step = "removal"
  BY <1>a, <1>b, <1>c DEF SyncRow
<1>9. read' \in [lot: Lots, base: Row, reason: RemovalReasons]
  BY <1>3, <1>5
<1>6. RequestTypeOK'
  BY <1>0, <1>8, <1>9, ReadingParts DEF ReadRemoval, ProgressOK, RequestTypeOK
<1>7. ReadIsBehind' BY <1>3, <1>4, <1>5 DEF ReadIsBehind
<1> QED BY <1>1, <1>6, <1>7, InvParts DEF ProgressOK

LEMMA SkipKeeps == IInv /\ (SkipOlder \/ SkipRemoval) => IInv'
<1>1. ASSUME IInv, SkipOlder PROVE IInv'
  BY <1>1, InvParts, LotsUnchanged, ItemDoneKeeps DEF SkipOlder
<1>2. ASSUME IInv, SkipRemoval PROVE IInv'
  BY <1>2, InvParts, LotsUnchanged, ItemDoneKeeps DEF SkipRemoval
<1> QED BY <1>1, <1>2

(* A lot whose row and history both go on to the next version, with the      *)
(* classification of its status, is consistent.                              *)
LEMMA NextVersion ==
  ASSUME NEW lot \in Lot, Consistent(lot), NEW row \in Row, row.status \in Statuses,
         row.version = lot.row.version + 1, row.class = ClassOf(row.status),
         NEW mirror \in PlanningClasses \cup {"NONE"},
         NEW next, next = [row |-> row,
                           history |-> lot.history \cup {HistoryOf(row, "SYNC")},
                           mirror |-> mirror]
  PROVE  next \in Lot /\ Consistent(next) /\ next.row = row /\ next.row.class # "NULL"
<1> DEFINE entry == HistoryOf(row, "SYNC")
<1>0. row.status # "NONE" BY DEF Statuses
<1>1. entry \in HistoryRow /\ entry.version = row.version /\ entry.status = row.status
      /\ entry.current = row.current /\ entry.class = row.class
  BY <1>0, HistoryRowType
<1> HIDE DEF entry
<1>2. next.row = row /\ next.history = lot.history \cup {entry} /\ next.mirror = mirror
  BY DEF entry
<1>3. next \in Lot
  BY <1>1 DEF Lot, entry
<1>4. Chained(lot) BY DEF Consistent
<1>5. Chained(next) BY <1>1, <1>2, <1>3, <1>4, ChainExtend
<1>6. row.class # "NULL" BY ClassOfType DEF Classes
<1> QED BY <1>2, <1>3, <1>5, <1>6 DEF Consistent

(* The row a record is stored as. *)
LEMMA RowOfType ==
  ASSUME NEW rec \in Records, NEW version \in Nat
  PROVE  LET row == RowOf(rec, version)
         IN  /\ row \in Row /\ row.status \in Statuses /\ row.version = version
             /\ row.class = ClassOf(row.status) /\ CurrentRow(row)
<1>1. rec.status \in Statuses /\ rec.current \in BOOLEAN /\ rec.at \in Nat
  BY RecordType
<1>2. ClassOf(rec.status) \in Classes BY ClassOfType
<1>3. RowOf(rec, version) \in Row BY <1>1, <1>2 DEF RowOf, Row
<1>4. CurrentRow(RowOf(rec, version)) BY <1>1 DEF RowOf, CurrentRow, Statuses
<1> QED BY <1>1, <1>3, <1>4 DEF RowOf

(* Writing the next version of a lot, as a record or a removal does. *)
LEMMA NextVersionKeepsLots ==
  ASSUME LotsInv, NEW l \in Lots, NEW row \in Row, row.status \in Statuses,
         row.version = View(l).row.version + 1, row.class = ClassOf(row.status),
         CurrentRow(row), NEW mirror \in PlanningClasses \cup {"NONE"},
         Write(l, [row |-> row, history |-> View(l).history \cup {HistoryOf(row, "SYNC")},
                   mirror |-> mirror]),
         UNCHANGED <<ledger, refresh>>
  PROVE  LotsInv'
<1> DEFINE next == [row |-> row, history |-> View(l).history \cup {HistoryOf(row, "SYNC")},
                    mirror |-> mirror]
<1>1. View(l) \in Lot /\ Consistent(View(l)) BY ViewType DEF LotsInv
<1>2. next \in Lot /\ Consistent(next) /\ next.row = row /\ next.row.class # "NULL"
  BY <1>1, NextVersion
<1>3. Write(l, next) OBVIOUS
<1> HIDE DEF next
<1> QED BY <1>2, <1>3, WriteKeepsLots

LEMMA WriteRowKeepsLots ==
  ASSUME LotsInv, NEW l \in Lots, NEW row \in Row, row.status \in Statuses,
         row.version = View(l).row.version + 1, row.class = ClassOf(row.status),
         CurrentRow(row), WriteRow(l, row), UNCHANGED <<ledger, refresh>>
  PROVE  LotsInv'
<1>1. MirrorAfter(l, row) \in PlanningClasses \cup {"NONE"}
  BY PlanningClassType DEF MirrorAfter
<1> QED BY <1>1, NextVersionKeepsLots DEF WriteRow

(* What a batch holds while it works on a record. *)
LEMMA RecordRead ==
  ASSUME ProgressOK, sync.step = "record"
  PROVE  read.lot \in Lots /\ read.base \in Row /\ read.base.version \in Nat /\ read.record \in Records
<1>1. read \in [lot: Lots, base: Row, record: Records]
  BY DEF ProgressOK, RequestTypeOK
<1> QED BY <1>1 DEF Row

LEMMA CreateLotKeeps == IInv /\ CreateLot => IInv'
<1> SUFFICES ASSUME IInv, CreateLot PROVE IInv' OBVIOUS
<1>0. LotsInv /\ ProgressOK BY InvParts
<1>1. read.lot \in Lots /\ read.record \in Records BY <1>0, RecordRead DEF CreateLot
<1>2. View(read.lot).row.version = 0
  <2>1. sync.step \in {"record", "removal"} /\ read.base.version = 0 BY DEF CreateLot
  <2>2. ~Recorded(read.lot, read.base.version + 1) BY <2>1 DEF CreateLot
  <2> QED BY <2>1, <2>2, FreeVersionIsNext
<1> DEFINE row == RowOf(read.record, 1)
<1>3. /\ row \in Row /\ row.status \in Statuses /\ row.version = 1
      /\ row.class = ClassOf(row.status) /\ CurrentRow(row)
  BY <1>1, RowOfType
<1>4. WriteRow(read.lot, row) /\ UNCHANGED <<ledger, refresh>> BY DEF CreateLot
<1> HIDE DEF row
<1>5. row.version = View(read.lot).row.version + 1 BY <1>2, <1>3
<1>6. LotsInv' BY <1>0, <1>1, <1>3, <1>4, <1>5, WriteRowKeepsLots
<1>7. ProgressOK' BY <1>0, ItemDoneKeeps DEF CreateLot
<1> QED BY <1>6, <1>7, InvParts

LEMMA ChangeLotKeeps == IInv /\ ChangeLot => IInv'
<1> SUFFICES ASSUME IInv, ChangeLot PROVE IInv' OBVIOUS
<1>0. LotsInv /\ ProgressOK BY InvParts
<1>1. read.lot \in Lots /\ read.base.version \in Nat /\ read.record \in Records
  BY <1>0, RecordRead DEF ChangeLot
<1>2. read.base.version = View(read.lot).row.version
  BY FreeVersionIsNext DEF ChangeLot
<1> DEFINE row == RowOf(read.record, read.base.version + 1)
<1>3. /\ row \in Row /\ row.status \in Statuses /\ row.version = read.base.version + 1
      /\ row.class = ClassOf(row.status) /\ CurrentRow(row)
  BY <1>1, RowOfType
<1>4. WriteRow(read.lot, row) /\ UNCHANGED <<ledger, refresh>> BY DEF ChangeLot
<1> HIDE DEF row
<1>5. row.version = View(read.lot).row.version + 1 BY <1>2, <1>3
<1>6. LotsInv' BY <1>0, <1>1, <1>3, <1>4, <1>5, WriteRowKeepsLots
<1>7. ProgressOK' BY <1>0, ItemDoneKeeps DEF ChangeLot
<1> QED BY <1>6, <1>7, InvParts

LEMMA TouchLotKeeps == IInv /\ TouchLot => IInv'
<1> SUFFICES ASSUME IInv, TouchLot PROVE IInv' OBVIOUS
<1>0. LotsInv /\ ProgressOK BY InvParts
<1>1. read.lot \in Lots /\ read.record \in Records
  BY <1>0, RecordRead DEF TouchLot
<1> DEFINE l == read.lot
           at == read.record.at
           next == [View(l) EXCEPT !.row = Stamped(@, at)]
<1>2. View(l) \in Lot /\ Consistent(View(l)) /\ CurrentRow(View(l).row)
  BY <1>0, <1>1, ViewType DEF LotsInv
<1>3. at \in Nat BY <1>1, RecordType
<1>4. Stamped(View(l).row, at) \in Row
  BY <1>2, <1>3 DEF Stamped, Lot, Row
<1>5. next \in Lot /\ next.row = Stamped(View(l).row, at) /\ next.history = View(l).history
  BY <1>2, <1>4 DEF Lot
<1>6. /\ SameFacts(next.row, View(l).row) /\ next.row.class = View(l).row.class
      /\ next.row.reason = View(l).row.reason
  BY <1>2, <1>5 DEF Stamped, SameFacts, Lot, Row
<1>7. Consistent(next) BY <1>2, <1>5, <1>6, SameChain
<1>8. CurrentRow(next.row) BY <1>2, <1>6 DEF CurrentRow, SameFacts
<1>9. next.row.class = "NULL" => SameFacts(next.row, ledger[l].row) /\ ledger[l].row.class = "NULL"
  BY <1>0, <1>6 DEF LotsInv, TouchedOnly, View, SameFacts
<1>10. Write(l, next) /\ UNCHANGED <<ledger, refresh>> BY DEF TouchLot
<1> HIDE DEF l, next
<1>11. l \in Lots BY <1>1 DEF l
<1>12. LotsInv' BY <1>0, <1>5, <1>7, <1>8, <1>9, <1>10, <1>11, WriteKeepsLots
<1>13. ProgressOK' BY <1>0, ItemDoneKeeps DEF TouchLot
<1> QED BY <1>12, <1>13, InvParts

(* What a batch holds while it works on a removal. *)
LEMMA RemovalRead ==
  ASSUME ProgressOK, sync.step = "removal"
  PROVE  /\ read.lot \in Lots /\ read.base \in Row /\ read.base.version \in Nat
         /\ read.reason \in RemovalReasons
<1>1. read \in [lot: Lots, base: Row, reason: RemovalReasons]
  BY DEF ProgressOK, RequestTypeOK
<1> QED BY <1>1 DEF Row

(* The row a removal leaves. *)
LEMMA RemovedRowType ==
  ASSUME NEW row \in Row, NEW reason \in RemovalReasons, read.base.version \in Nat
  PROVE  LET next == RemovedRow(row, reason)
         IN  /\ next \in Row /\ next.status \in Statuses
             /\ next.version = read.base.version + 1
             /\ next.class = ClassOf(next.status) /\ CurrentRow(next)
<1>1. StatusAfter(reason) \in Statuses BY DEF StatusAfter, Statuses
<1>2. ClassOf(StatusAfter(reason)) \in Classes BY ClassOfType
<1> DEFINE next == RemovedRow(row, reason)
<1>3. /\ next.status = StatusAfter(reason) /\ next.current = (reason = "MEMO_RETURN")
      /\ next.reason = reason /\ next.class = ClassOf(StatusAfter(reason))
      /\ next.version = read.base.version + 1
  BY DEF RemovedRow, Row
<1>4. read.base.version + 1 \in Nat OBVIOUS
<1>5. next \in Row BY <1>1, <1>2, <1>4 DEF RemovedRow, Row
<1>6. CurrentRow(next) BY <1>1, <1>3 DEF CurrentRow, Statuses
<1> QED BY <1>1, <1>3, <1>5, <1>6

LEMMA RemoveLotKeeps == IInv /\ RemoveLot => IInv'
<1> SUFFICES ASSUME IInv, RemoveLot PROVE IInv' OBVIOUS
<1>0. LotsInv /\ ProgressOK BY InvParts
<1>1. read.lot \in Lots /\ read.base.version \in Nat /\ read.reason \in RemovalReasons
  BY <1>0, RemovalRead DEF RemoveLot
<1>2. read.base.version = View(read.lot).row.version
  BY FreeVersionIsNext DEF RemoveLot
<1>3. View(read.lot).row \in Row BY <1>0, <1>1, ViewType DEF LotsInv, Lot
<1> DEFINE row == RemovedRow(View(read.lot).row, read.reason)
           mirror == IF row.current THEN ToLegacyPlanningClass(row.class) ELSE "NONE"
<1>4. /\ row \in Row /\ row.status \in Statuses /\ row.version = read.base.version + 1
      /\ row.class = ClassOf(row.status) /\ CurrentRow(row)
  BY <1>1, <1>3, RemovedRowType
<1>5. mirror \in PlanningClasses \cup {"NONE"} BY PlanningClassType
<1>6. /\ Write(read.lot, [row |-> row,
                          history |-> View(read.lot).history \cup {HistoryOf(row, "SYNC")},
                          mirror |-> mirror])
      /\ UNCHANGED <<ledger, refresh>>
  BY DEF RemoveLot
<1> HIDE DEF row, mirror
<1>7. LotsInv' BY <1>0, <1>1, <1>2, <1>4, <1>5, <1>6, NextVersionKeepsLots
<1>8. ProgressOK' BY <1>0, ItemDoneKeeps DEF RemoveLot
<1> QED BY <1>7, <1>8, InvParts

(* The end of a batch, whatever it leaves of each lot. *)
LEMMA EndBatchKeeps ==
  ASSUME IInv, NEW committed \in [Lots -> Lot],
         \A l \in Lots : Consistent(committed[l]) /\ CurrentRow(committed[l].row),
         \A l \in Lots : committed[l].row.class = "NULL" =>
            SameFacts(committed[l].row, ledger[l].row) /\ ledger[l].row.class = "NULL",
         EndBatch(committed)
  PROVE  IInv'
<1>0. LotsInv /\ ProgressOK BY InvParts
<1>1. /\ ledger' = committed /\ work' = NoWork /\ dirty' = {}
      /\ sync' = [sync EXCEPT !.step = "idle", !.seen = {}]
      /\ read' = Nothing /\ refresh' = refresh /\ demand' = demand
  BY DEF EndBatch
<1>2. \A l \in Lots : work'[l] \in Lot /\ Consistent(work'[l]) /\ CurrentRow(work'[l].row)
  BY <1>1, NewLotType DEF NoWork
<1>3. work' \in [Lots -> Lot] BY <1>1, NewLotType DEF NoWork
<1>4. RowTypeOK' BY <1>1, <1>3 DEF RowTypeOK
<1>5. ReasonTypeOK' BY <1>1, <1>2 DEF ReasonTypeOK
<1>6. LotsConsistent' BY <1>1, <1>2 DEF LotsConsistent
<1>7. TouchedOnly' BY <1>1 DEF TouchedOnly
<1>8. CandidatesUnchanged'
  <2> SUFFICES ASSUME NEW r \in Refreshers, NEW l \in refresh[r].todo,
                      committed[l].row.class = "NULL"
               PROVE  SameFacts(refresh[r].copy[l], committed[l].row) /\ committed[l].row.current
    BY <1>1 DEF CandidatesUnchanged
  <2>1. l \in Lots
    BY <1>0 DEF ProgressOK, RequestTypeOK, RefreshRow
  <2>2. SameFacts(committed[l].row, ledger[l].row) /\ ledger[l].row.class = "NULL"
    BY <2>1
  <2>3. SameFacts(refresh[r].copy[l], ledger[l].row) /\ ledger[l].row.current
    BY <1>0, <2>2 DEF LotsInv, CandidatesUnchanged
  <2> QED BY <2>2, <2>3 DEF SameFacts
<1>9. LotsInv' BY <1>4, <1>5, <1>6, <1>7, <1>8 DEF LotsInv
<1>10. sync \in SyncRow BY <1>0, SyncTyped
<1>11. sync' \in SyncRow /\ sync'.step = "idle" BY <1>1, <1>10 DEF SyncRow
<1>12. RequestTypeOK'
  BY <1>0, <1>1, <1>11, ReadingParts DEF ProgressOK, RequestTypeOK
<1>13. ReadIsBehind' BY <1>11 DEF ReadIsBehind
<1> QED BY <1>9, <1>12, <1>13, InvParts DEF ProgressOK

LEMMA CommitBatchKeeps == IInv /\ CommitBatch => IInv'
<1> SUFFICES ASSUME IInv, CommitBatch PROVE IInv' OBVIOUS
<1>0. LotsInv /\ ProgressOK BY InvParts
<1> DEFINE committed == [l \in Lots |-> View(l)]
<1>1. \A l \in Lots : View(l) \in Lot /\ Consistent(View(l)) /\ CurrentRow(View(l).row)
  BY <1>0, ViewType DEF LotsInv
<1>2. \A l \in Lots : View(l).row.class = "NULL" =>
         SameFacts(View(l).row, ledger[l].row) /\ ledger[l].row.class = "NULL"
  BY <1>0 DEF LotsInv, TouchedOnly, View, SameFacts
<1>3. /\ committed \in [Lots -> Lot]
      /\ \A l \in Lots : committed[l] = View(l)
  BY <1>1
<1>4. EndBatch(committed) BY DEF CommitBatch
<1> HIDE DEF committed
<1> QED BY <1>1, <1>2, <1>3, <1>4, EndBatchKeeps

LEMMA AbortBatchKeeps == IInv /\ AbortBatch => IInv'
<1> SUFFICES ASSUME IInv, AbortBatch PROVE IInv' OBVIOUS
<1>0. LotsInv BY InvParts
<1>1. /\ ledger \in [Lots -> Lot]
      /\ \A l \in Lots : Consistent(ledger[l]) /\ CurrentRow(ledger[l].row)
  BY <1>0 DEF LotsInv, RowTypeOK, ReasonTypeOK, LotsConsistent
<1>2. \A l \in Lots : SameFacts(ledger[l].row, ledger[l].row) BY DEF SameFacts
<1> QED BY <1>1, <1>2, EndBatchKeeps DEF AbortBatch

-----------------------------------------------------------------------------
(* Steps of the classification refresh. *)

(* A step of the refresh requests alone, whose candidates are still as they  *)
(* were read. *)
LEMMA RefreshOnlyKeeps ==
  ASSUME IInv, UNCHANGED <<ledger, work, dirty, sync, read, demand>>,
         refresh' \in [Refreshers -> RefreshRow], CandidatesUnchanged'
  PROVE  IInv'
<1>0. LotsInv /\ ProgressOK BY InvParts
<1>1. LotsInv'
  BY <1>0 DEF LotsInv, RowTypeOK, ReasonTypeOK, LotsConsistent, TouchedOnly
<1>2. RequestTypeOK' BY <1>0 DEF ProgressOK, RequestTypeOK
<1>3. ReadIsBehind' BY <1>0 DEF ProgressOK, ReadIsBehind, View
<1> QED BY <1>1, <1>2, <1>3, InvParts DEF ProgressOK

LEMMA StartRefreshKeeps ==
  ASSUME IInv, NEW r \in Refreshers, StartRefresh(r)
  PROVE  IInv'
<1>0. LotsInv /\ ProgressOK BY InvParts
<1> DEFINE todo == {l \in Lots : Unclassified(ledger[l].row)}
           copy == [l \in Lots |-> IF Unclassified(ledger[l].row) THEN ledger[l].row ELSE NoRow]
<1>1. refresh \in [Refreshers -> RefreshRow]
  BY <1>0 DEF ProgressOK, RequestTypeOK
<1>2. \A l \in Lots : ledger[l].row \in Row BY <1>0 DEF LotsInv, RowTypeOK, Lot
<1>3. NoRow \in Row BY DEF NoRow, Row
<1>4. copy \in [Lots -> Row] BY <1>2, <1>3
<1>5. refresh' = [refresh EXCEPT ![r] = [step |-> "run", todo |-> todo, copy |-> copy]]
  BY DEF StartRefresh
<1>6. \A l \in todo : copy[l] = ledger[l].row /\ ledger[l].row.current /\ l \in Lots
  BY DEF Unclassified
<1>7. todo \in SUBSET Lots OBVIOUS
<1> HIDE DEF todo, copy
<1>8. refresh' \in [Refreshers -> RefreshRow]
  BY <1>1, <1>4, <1>5, <1>7 DEF RefreshRow
<1>9. CandidatesUnchanged'
  BY <1>0, <1>1, <1>5, <1>6 DEF StartRefresh, LotsInv, CandidatesUnchanged, SameFacts
<1> QED BY <1>8, <1>9, RefreshOnlyKeeps DEF StartRefresh

(* A candidate dealt with leaves the others as they are. *)
LEMMA HandledType ==
  ASSUME refresh \in [Refreshers -> RefreshRow], NEW r \in Refreshers, NEW l \in Lots,
         Handled(r, l)
  PROVE  /\ refresh' \in [Refreshers -> RefreshRow]
         /\ \A s \in Refreshers : \A m \in refresh'[s].todo :
               /\ m \in refresh[s].todo
               /\ refresh'[s].copy[m] = refresh[s].copy[m]
<1>1. NoRow \in Row BY DEF NoRow, Row
<1> DEFINE todo == refresh[r].todo \ {l}
           copy == [refresh[r].copy EXCEPT ![l] = NoRow]
<1>2. refresh[r] \in RefreshRow OBVIOUS
<1>3. refresh' = [refresh EXCEPT ![r] = [[refresh[r] EXCEPT !.todo = todo] EXCEPT !.copy = copy]]
  BY <1>2 DEF Handled, RefreshRow
<1>4. todo \in SUBSET Lots BY <1>2 DEF RefreshRow
<1>5. copy \in [Lots -> Row] BY <1>1, <1>2 DEF RefreshRow
<1>6. \A m \in todo : m \in refresh[r].todo /\ copy[m] = refresh[r].copy[m]
  BY <1>2 DEF RefreshRow
<1> HIDE DEF todo, copy
<1>7. /\ refresh'[r] \in RefreshRow /\ refresh'[r].todo = todo /\ refresh'[r].copy = copy
  BY <1>2, <1>3, <1>4, <1>5 DEF RefreshRow
<1>8. \A s \in Refreshers : s # r => refresh'[s] = refresh[s] BY <1>3
<1>9. refresh' \in [Refreshers -> RefreshRow] BY <1>2, <1>3, <1>7, <1>8
<1> QED BY <1>6, <1>7, <1>8, <1>9

LEMMA RefreshSkipKeeps ==
  ASSUME IInv, NEW r \in Refreshers, NEW l \in Lots, RefreshSkip(r, l)
  PROVE  IInv'
<1>0. LotsInv /\ ProgressOK BY InvParts
<1>1. refresh \in [Refreshers -> RefreshRow]
  BY <1>0 DEF ProgressOK, RequestTypeOK
<1>2. Handled(r, l) BY DEF RefreshSkip
<1>3. CandidatesUnchanged'
  BY <1>0, <1>1, <1>2, HandledType DEF RefreshSkip, LotsInv, CandidatesUnchanged
<1> QED BY <1>1, <1>2, <1>3, HandledType, RefreshOnlyKeeps DEF RefreshSkip

LEMMA EndRefreshKeeps ==
  ASSUME IInv, NEW r \in Refreshers, EndRefresh(r)
  PROVE  IInv'
<1>0. LotsInv /\ ProgressOK BY InvParts
<1> DEFINE copy == [l \in Lots |-> NoRow]
<1>1. refresh \in [Refreshers -> RefreshRow]
  BY <1>0 DEF ProgressOK, RequestTypeOK
<1>2. copy \in [Lots -> Row] BY DEF NoRow, Row
<1>3. refresh' = [refresh EXCEPT ![r] = [step |-> "done", todo |-> {}, copy |-> copy]]
  BY DEF EndRefresh
<1> HIDE DEF copy
<1>4. refresh' \in [Refreshers -> RefreshRow] BY <1>1, <1>2, <1>3 DEF RefreshRow
<1>5. CandidatesUnchanged'
  BY <1>0, <1>1, <1>3 DEF EndRefresh, LotsInv, CandidatesUnchanged
<1> QED BY <1>4, <1>5, RefreshOnlyKeeps DEF EndRefresh

(* The lot a refresh leaves is the next version of the one it found.         *)
LEMMA RefreshedType ==
  ASSUME NEW lot \in Lot, Consistent(lot), lot.row.class = "NULL", lot.row.current,
         CurrentRow(lot.row), NEW candidate \in Row, SameFacts(candidate, lot.row)
  PROVE  LET next == Refreshed(lot, candidate)
         IN  /\ next \in Lot /\ Consistent(next) /\ CurrentRow(next.row)
             /\ next.row.class # "NULL" /\ lot.row.version <= next.row.version
<1> DEFINE class == ClassOf(candidate.status)
           row == [lot.row EXCEPT !.class = class, !.version = @ + 1]
           entry == [version |-> candidate.version + 1, status |-> candidate.status,
                     current |-> TRUE, class |-> class, by |-> "REFRESH"]
           next == Refreshed(lot, candidate)
<1>1. lot.row \in Row /\ lot.row.version \in Nat /\ lot.history \subseteq HistoryRow
  BY DEF Lot, Row
<1>2. /\ candidate.version = lot.row.version /\ candidate.status = lot.row.status
      /\ candidate.status \in Statuses
  BY <1>1 DEF SameFacts, CurrentRow, Row
<1>3. class \in Classes /\ class # "NULL" BY ClassOfType DEF Classes
<1>4. next.row = row /\ next.history = lot.history \cup {entry} /\ next = [lot EXCEPT !.row = row, !.history = @ \cup {entry}]
  BY DEF Refreshed, Lot
<1>5. /\ row.class = class /\ row.version = lot.row.version + 1 /\ row.status = lot.row.status
      /\ row.current = lot.row.current /\ row.reason = lot.row.reason
  BY <1>1 DEF Row
<1>6. row \in Row
  <2> DEFINE v == lot.row.version + 1
  <2>1. v \in Nat BY <1>1
  <2>2. row = [lot.row EXCEPT !.class = class, !.version = v] OBVIOUS
  <2>3. class \in Classes \cup {"NULL"} BY <1>3
  <2> HIDE DEF v, class, row
  <2> QED BY <1>1, <2>1, <2>2, <2>3 DEF Row
<1>7. /\ entry \in HistoryRow /\ entry.version = row.version /\ entry.status = row.status
      /\ entry.current = row.current /\ entry.class = row.class
  <2>1. entry.version = row.version /\ entry.status = row.status /\ entry.current = TRUE
        /\ entry.class = row.class /\ entry.by = "REFRESH"
    BY <1>2, <1>5
  <2>2. entry.version \in Nat BY <1>1, <1>2
  <2>3. lot.row.current = TRUE BY <1>1 DEF Row
  <2>4. entry \in HistoryRow BY <1>2, <1>3, <2>2 DEF HistoryRow
  <2> QED BY <1>5, <2>1, <2>3, <2>4
<1> HIDE DEF row, entry, class, next
<1>8. next \in Lot BY <1>4, <1>6, <1>7 DEF Lot
<1>9. Chained(lot) BY DEF Consistent
<1>10. Chained(next) BY <1>4, <1>5, <1>7, <1>8, <1>9, ChainExtend
<1>11. next.row.class = ClassOf(next.row.status) BY <1>2, <1>4, <1>5 DEF class
<1>12. CurrentRow(next.row) BY <1>4, <1>5 DEF CurrentRow
<1> QED BY <1>1, <1>3, <1>4, <1>5, <1>8, <1>10, <1>11, <1>12 DEF Consistent, next

LEMMA RefreshLotKeeps ==
  ASSUME IInv, NEW r \in Refreshers, NEW l \in Lots, RefreshLot(r, l)
  PROVE  IInv'
<1>0. LotsInv /\ ProgressOK BY InvParts
<1>1. /\ refresh \in [Refreshers -> RefreshRow]
      /\ ledger \in [Lots -> Lot] /\ work \in [Lots -> Lot]
  BY <1>0 DEF ProgressOK, RequestTypeOK, LotsInv, RowTypeOK
<1>2. l \in refresh[r].todo /\ l \notin dirty /\ ledger[l].row.class = "NULL" /\ Handled(r, l)
  BY DEF RefreshLot
<1> DEFINE next == Refreshed(ledger[l], refresh[r].copy[l])
<1>3. SameFacts(refresh[r].copy[l], ledger[l].row) /\ ledger[l].row.current
  BY <1>0, <1>2 DEF LotsInv, CandidatesUnchanged
<1>4. refresh[r].copy[l] \in Row BY <1>1 DEF RefreshRow
<1>5. ledger[l] \in Lot /\ Consistent(ledger[l]) /\ CurrentRow(ledger[l].row)
  BY <1>0, <1>1 DEF LotsInv, LotsConsistent, ReasonTypeOK
<1>6. /\ next \in Lot /\ Consistent(next) /\ CurrentRow(next.row)
      /\ next.row.class # "NULL" /\ ledger[l].row.version <= next.row.version
  BY <1>2, <1>3, <1>4, <1>5, RefreshedType
<1>7. ledger' = [ledger EXCEPT ![l] = next] /\ UNCHANGED <<work, dirty, sync, read, demand>>
  BY DEF RefreshLot
<1> HIDE DEF next
<1>8. ledger'[l] = next /\ \A m \in Lots : m # l => ledger'[m] = ledger[m]
  BY <1>1, <1>7
<1>9. RowTypeOK' BY <1>0, <1>6, <1>7 DEF LotsInv, RowTypeOK
<1>10. ReasonTypeOK' BY <1>0, <1>6, <1>7, <1>8 DEF LotsInv, ReasonTypeOK
<1>11. LotsConsistent' BY <1>0, <1>6, <1>7, <1>8 DEF LotsInv, LotsConsistent
<1>12. TouchedOnly'
  <2>1. dirty \subseteq Lots BY <1>0 DEF LotsInv, RowTypeOK
  <2> QED BY <1>0, <1>2, <1>7, <1>8, <2>1 DEF LotsInv, TouchedOnly
<1>13. refresh' \in [Refreshers -> RefreshRow] BY <1>1, <1>2, HandledType
<1>14. CandidatesUnchanged'
  <2> SUFFICES ASSUME NEW s \in Refreshers, NEW m \in refresh'[s].todo,
                      ledger'[m].row.class = "NULL"
               PROVE  SameFacts(refresh'[s].copy[m], ledger'[m].row) /\ ledger'[m].row.current
    BY DEF CandidatesUnchanged
  <2>1. m \in refresh[s].todo /\ refresh'[s].copy[m] = refresh[s].copy[m]
    BY <1>1, <1>2, HandledType
  <2>2. m \in Lots BY <1>13 DEF RefreshRow
  <2>3. m # l BY <1>6, <1>8
  <2>4. ledger'[m] = ledger[m] BY <1>8, <2>2, <2>3
  <2> QED BY <1>0, <2>1, <2>4 DEF LotsInv, CandidatesUnchanged
<1>15. LotsInv' BY <1>9, <1>10, <1>11, <1>12, <1>14 DEF LotsInv
<1>16. RequestTypeOK' BY <1>0, <1>7, <1>13 DEF ProgressOK, RequestTypeOK
<1>17. ReadIsBehind'
  <2> SUFFICES ASSUME sync.step \in {"record", "removal"}
               PROVE  read.base.version <= View(read.lot)'.row.version
    BY <1>7 DEF ReadIsBehind
  <2>1. read.lot \in Lots /\ read.base.version \in Nat BY <1>0, RecordRead, RemovalRead
  <2>2. read.base.version <= View(read.lot).row.version
    BY <1>0 DEF ProgressOK, ReadIsBehind
  <2>3. CASE read.lot = l
    <3>1. View(read.lot) = ledger[l] BY <1>2, <2>3 DEF View
    <3>2. View(read.lot)' = next BY <1>2, <1>7, <1>8, <2>3 DEF View
    <3>3. ledger[l].row.version \in Nat /\ next.row.version \in Nat BY <1>5, <1>6 DEF Lot, Row
    <3> QED BY <1>6, <2>1, <2>2, <3>1, <3>2, <3>3
  <2>4. CASE read.lot # l
    BY <1>7, <1>8, <2>1, <2>2, <2>4 DEF View
  <2> QED BY <2>3, <2>4
<1> QED BY <1>15, <1>16, <1>17, InvParts DEF ProgressOK

-----------------------------------------------------------------------------
(* Steps of the demand calculation. *)

(* A step of the calculation that writes no lot. *)
LEMMA DemandOnlyKeeps ==
  ASSUME IInv, UNCHANGED <<ledger, work, dirty, sync, read, refresh>>, demand' \in DemandRow
  PROVE  IInv'
<1>0. LotsInv /\ ProgressOK BY InvParts
<1>1. LotsInv' BY <1>0, LotsUnchanged
<1>2. RequestTypeOK' BY <1>0 DEF ProgressOK, RequestTypeOK
<1>3. ReadIsBehind' BY <1>0 DEF ProgressOK, ReadIsBehind, View
<1> QED BY <1>1, <1>2, <1>3, InvParts DEF ProgressOK

LEMMA DemandTyped ==
  ASSUME IInv
  PROVE  demand \in DemandRow /\ \A l \in Lots : ledger[l].row \in Row
  BY DEF IInv, LedgerTypeOK, RequestTypeOK, RowTypeOK, Lot

LEMMA NoRows == [l \in Lots |-> NoRow] \in [Lots -> Row]
  BY DEF NoRow, Row

LEMMA ListPendingKeeps == IInv /\ ListPending => IInv'
<1> SUFFICES ASSUME IInv, ListPending PROVE IInv' OBVIOUS
<1>1. demand \in DemandRow BY DemandTyped
<1>2. PICK part \in SUBSET PendingRepair :
         demand' = [demand EXCEPT !.step = "read", !.runs = @ + 1, !.pending = part,
                                  !.complete = FALSE, !.available = {}, !.review = FALSE,
                                  !.status = "NONE"]
  BY DEF ListPending
<1>3. part \in SUBSET Lots BY DEF PendingRepair
<1> DEFINE n == demand.runs + 1
<1>4. n \in Nat BY <1>1 DEF DemandRow
<1>5. demand' = [demand EXCEPT !.step = "read", !.runs = n, !.pending = part,
                               !.complete = FALSE, !.available = {}, !.review = FALSE,
                               !.status = "NONE"]
  BY <1>2
<1> HIDE DEF n
<1>6. demand' \in DemandRow BY <1>1, <1>3, <1>4, <1>5 DEF DemandRow
<1> QED BY <1>6, DemandOnlyKeeps DEF ListPending

LEMMA ReadPendingKeeps == IInv /\ ReadPending => IInv'
<1> SUFFICES ASSUME IInv, ReadPending PROVE IInv' OBVIOUS
<1>1. demand \in DemandRow /\ \A l \in Lots : ledger[l].row \in Row BY DemandTyped
<1> DEFINE rows == [l \in Lots |-> IF l \in demand.pending THEN ledger[l].row ELSE NoRow]
<1>2. NoRow \in Row BY DEF NoRow, Row
<1>3. rows \in [Lots -> Row] BY <1>1, <1>2
<1>4. demand' = [demand EXCEPT !.step = "repair", !.rows = rows] BY DEF ReadPending
<1> HIDE DEF rows
<1>5. demand' \in DemandRow BY <1>1, <1>3, <1>4 DEF DemandRow
<1> QED BY <1>5, DemandOnlyKeeps DEF ReadPending

LEMMA CheckProjectionKeeps == IInv /\ CheckProjection => IInv'
<1> SUFFICES ASSUME IInv, CheckProjection PROVE IInv' OBVIOUS
<1>1. demand' \in DemandRow BY DemandTyped DEF CheckProjection, DemandRow
<1> QED BY <1>1, DemandOnlyKeeps DEF CheckProjection

LEMMA ReadStockKeeps == IInv /\ ReadStock => IInv'
<1> SUFFICES ASSUME IInv, ReadStock PROVE IInv' OBVIOUS
<1> DEFINE available == {l \in Inventory : Available(l)}
           review == \E l \in Inventory : MissingMirror(l) \/ EffectiveClass(ledger[l]) = "EXCLUDED"
<1>1. available \in SUBSET Lots BY LotsAssumption DEF Inventory
<1>2. review \in BOOLEAN OBVIOUS
<1>3. demand' = [demand EXCEPT !.step = "publish", !.available = available, !.review = review]
  BY DEF ReadStock
<1> HIDE DEF available, review
<1>4. demand' \in DemandRow BY <1>1, <1>2, <1>3, DemandTyped DEF DemandRow
<1> QED BY <1>4, DemandOnlyKeeps DEF ReadStock

LEMMA PublishKeeps == IInv /\ Publish => IInv'
<1> SUFFICES ASSUME IInv, Publish PROVE IInv' OBVIOUS
<1>1. demand' \in DemandRow BY DemandTyped DEF Publish, DemandRow
<1> QED BY <1>1, DemandOnlyKeeps DEF Publish

LEMMA FailDemandKeeps == IInv /\ FailDemand => IInv'
<1> SUFFICES ASSUME IInv, FailDemand PROVE IInv' OBVIOUS
<1> DEFINE rows == [l \in Lots |-> NoRow]
<1>1. rows \in [Lots -> Row] BY NoRows
<1>2. demand' = [demand EXCEPT !.step = "idle", !.status = "FAILED", !.pending = {},
                               !.rows = rows, !.available = {},
                               !.complete = FALSE, !.review = FALSE]
  BY DEF FailDemand
<1> HIDE DEF rows
<1>3. demand' \in DemandRow BY <1>1, <1>2, DemandTyped DEF DemandRow
<1> QED BY <1>3, DemandOnlyKeeps DEF FailDemand

(* A repair leaves every fact of a lot and its history as they were.         *)
LEMMA RepairedType ==
  ASSUME NEW l \in Lots, ledger[l] \in Lot
  PROVE  /\ Repaired(l) \in Lot /\ Repaired(l).history = ledger[l].history
         /\ SameFacts(Repaired(l).row, ledger[l].row)
         /\ Repaired(l).row.class = ledger[l].row.class
         /\ Repaired(l).row.reason = ledger[l].row.reason
<1> DEFINE row == [ledger[l].row EXCEPT !.categorized = TRUE]
           mirror == IF RequiresMirror(l, demand.rows[l])
                     THEN ToLegacyPlanningClass(demand.rows[l].class) ELSE ledger[l].mirror
<1>1. ledger[l].row \in Row BY DEF Lot
<1>2. row \in Row BY <1>1 DEF Row
<1>3. mirror \in PlanningClasses \cup {"NONE"} BY PlanningClassType DEF Lot
<1>4. /\ row.status = ledger[l].row.status /\ row.current = ledger[l].row.current
      /\ row.version = ledger[l].row.version /\ row.class = ledger[l].row.class
      /\ row.reason = ledger[l].row.reason
  BY <1>1 DEF Row
<1>5. Repaired(l) = [ledger[l] EXCEPT !.row = row, !.mirror = mirror]
  BY DEF Repaired, Lot
<1> HIDE DEF row, mirror
<1>6. Repaired(l) \in Lot /\ Repaired(l).row = row /\ Repaired(l).history = ledger[l].history
  BY <1>2, <1>3, <1>5 DEF Lot
<1> QED BY <1>4, <1>6 DEF SameFacts

LEMMA RepairKeeps == IInv /\ Repair => IInv'
<1> SUFFICES ASSUME IInv, Repair PROVE IInv' OBVIOUS
<1>0. LotsInv /\ ProgressOK BY InvParts
<1>1. /\ ledger' = [l \in Lots |-> IF l \in demand.pending THEN Repaired(l) ELSE ledger[l]]
      /\ UNCHANGED <<work, dirty, sync, read, refresh>>
  BY DEF Repair
<1>2. \A l \in Lots : ledger[l] \in Lot /\ Consistent(ledger[l]) /\ CurrentRow(ledger[l].row)
  BY <1>0 DEF LotsInv, RowTypeOK, LotsConsistent, ReasonTypeOK
<1>3. \A l \in Lots : /\ ledger'[l] \in Lot /\ ledger'[l].history = ledger[l].history
                      /\ SameFacts(ledger'[l].row, ledger[l].row)
                      /\ ledger'[l].row.class = ledger[l].row.class
                      /\ ledger'[l].row.reason = ledger[l].row.reason
  BY <1>1, <1>2, RepairedType DEF SameFacts
<1>4. \A l \in Lots : Consistent(ledger'[l]) BY <1>2, <1>3, SameChain
<1>5. \A l \in Lots : CurrentRow(ledger'[l].row)
  BY <1>2, <1>3 DEF CurrentRow, SameFacts
<1>6. ledger' \in [Lots -> Lot] BY <1>1, <1>3
<1>7. RowTypeOK' BY <1>0, <1>1, <1>6 DEF LotsInv, RowTypeOK
<1>8. ReasonTypeOK' BY <1>0, <1>1, <1>5 DEF LotsInv, ReasonTypeOK
<1>9. LotsConsistent' BY <1>0, <1>1, <1>4 DEF LotsInv, LotsConsistent
<1>10. TouchedOnly'
  <2>1. dirty \subseteq Lots BY <1>0 DEF LotsInv, RowTypeOK
  <2> QED BY <1>0, <1>1, <1>3, <2>1 DEF LotsInv, TouchedOnly, SameFacts
<1>11. CandidatesUnchanged'
  <2>1. \A r \in Refreshers : refresh[r].todo \subseteq Lots
    BY <1>0 DEF ProgressOK, RequestTypeOK, RefreshRow
  <2> QED BY <1>0, <1>1, <1>3, <2>1 DEF LotsInv, CandidatesUnchanged, SameFacts
<1>12. LotsInv' BY <1>7, <1>8, <1>9, <1>10, <1>11 DEF LotsInv
<1>13. demand' \in DemandRow
  <2> DEFINE rows == [l \in Lots |-> NoRow]
  <2>1. rows \in [Lots -> Row] BY NoRows
  <2>2. demand' = [demand EXCEPT !.step = "check", !.pending = {}, !.rows = rows]
    BY DEF Repair
  <2> HIDE DEF rows
  <2> QED BY <2>1, <2>2, DemandTyped DEF DemandRow
<1>14. RequestTypeOK' BY <1>0, <1>1, <1>13 DEF ProgressOK, RequestTypeOK
<1>15. ReadIsBehind'
  <2> SUFFICES ASSUME sync.step \in {"record", "removal"}
               PROVE  read.base.version <= View(read.lot)'.row.version
    BY <1>1 DEF ReadIsBehind
  <2>1. read.lot \in Lots BY <1>0, RecordRead, RemovalRead
  <2>2. View(read.lot)'.row.version = View(read.lot).row.version
    BY <1>1, <1>3, <2>1 DEF View, SameFacts
  <2> QED BY <1>0, <2>2 DEF ProgressOK, ReadIsBehind
<1> QED BY <1>12, <1>14, <1>15, InvParts DEF ProgressOK

-----------------------------------------------------------------------------
(* The specification. *)

(* A lot written before the classification columns existed is consistent.   *)
LEMMA LegacyLotType ==
  ASSUME NEW lot \in LegacyLots
  PROVE  lot \in Lot /\ Consistent(lot) /\ CurrentRow(lot.row)
<1>a. PICK row \in {[status |-> f.status, current |-> f.current, reason |-> "NONE",
                      class |-> "NULL", categorized |-> FALSE, version |-> 1, at |-> 1] : f \in Feed},
           mirror \in PlanningClasses \cup {"NONE"} :
         lot = [row |-> row, history |-> {HistoryOf(row, "SYNC")}, mirror |-> mirror]
  BY DEF LegacyLots
<1>1. PICK f \in Feed :
         row = [status |-> f.status, current |-> f.current, reason |-> "NONE",
                class |-> "NULL", categorized |-> FALSE, version |-> 1, at |-> 1]
  OBVIOUS
<1> DEFINE entry == HistoryOf(row, "SYNC")
<1>2. f.status \in Statuses /\ f.current \in BOOLEAN BY FeedAssumption
<1>3. row \in Row /\ row.status \in Statuses /\ row.version = 1 /\ row.class = "NULL"
      /\ row.reason = "NONE"
  BY <1>1, <1>2 DEF Row
<1>4. lot = [row |-> row, history |-> {entry}, mirror |-> mirror] BY <1>a
<1>5. row.status # "NONE" BY <1>3 DEF Statuses
<1>6. entry \in HistoryRow /\ entry.version = 1 /\ entry.status = row.status
      /\ entry.current = row.current /\ entry.class = row.class
  BY <1>3, <1>5, HistoryRowType
<1> HIDE DEF entry
<1>7. lot \in Lot BY <1>3, <1>4, <1>6 DEF Lot
<1>8. lot.row = row /\ lot.history = {entry} BY <1>4
<1>9. Chained(lot)
  <2>1. {h.version : h \in lot.history} = {1} BY <1>6, <1>8
  <2>2. 1..lot.row.version = {1} BY <1>3, <1>8
  <2> QED BY <1>6, <1>8, <2>1, <2>2 DEF Chained
<1>10. CurrentRow(lot.row) BY <1>3, <1>5, <1>8 DEF CurrentRow
<1> QED BY <1>3, <1>7, <1>8, <1>9, <1>10 DEF Consistent

LEMMA InitInv == Init => IInv
<1> SUFFICES ASSUME Init PROVE IInv OBVIOUS
<1>1. /\ ledger \in [Lots -> LegacyLots \cup {NewLot}] /\ work = NoWork /\ dirty = {}
      /\ sync = [step |-> "idle", batches |-> 0, items |-> 0, seen |-> {}] /\ read = Nothing
  BY DEF Init
<1>2. \A l \in Lots : ledger[l] \in Lot /\ Consistent(ledger[l]) /\ CurrentRow(ledger[l].row)
  BY <1>1, LegacyLotType, NewLotType
<1>3. \A l \in Lots : work[l] \in Lot /\ Consistent(work[l]) /\ CurrentRow(work[l].row)
  BY <1>1, NewLotType DEF NoWork
<1>4. RowTypeOK
  <2>1. ledger \in [Lots -> Lot] BY <1>1, <1>2
  <2>2. work \in [Lots -> Lot] BY <1>1, NewLotType DEF NoWork
  <2> QED BY <1>1, <2>1, <2>2 DEF RowTypeOK
<1>5. ReasonTypeOK /\ LotsConsistent /\ TouchedOnly
  BY <1>1, <1>2, <1>3 DEF ReasonTypeOK, LotsConsistent, TouchedOnly
<1> DEFINE rows == [l \in Lots |-> NoRow]
<1>6. rows \in [Lots -> Row] BY NoRows
<1>7. refresh = [r \in Refreshers |-> [step |-> "idle", todo |-> {}, copy |-> rows]]
  BY DEF Init
<1>8. demand = [step |-> "idle", runs |-> 0, pending |-> {}, rows |-> rows,
                complete |-> FALSE, available |-> {}, review |-> FALSE, status |-> "NONE"]
  BY DEF Init
<1> HIDE DEF rows
<1>9. refresh \in [Refreshers -> RefreshRow] BY <1>6, <1>7 DEF RefreshRow
<1>10. demand \in DemandRow BY <1>6, <1>8 DEF DemandRow
<1>11. CandidatesUnchanged BY <1>7 DEF CandidatesUnchanged
<1>12. sync \in SyncRow BY <1>1 DEF SyncRow
<1>13. RequestTypeOK
  <2>1. sync.step = "idle" BY <1>1
  <2> QED BY <1>1, <1>9, <1>10, <1>12, <2>1, ReadingParts DEF RequestTypeOK
<1>14. ReadIsBehind BY <1>1 DEF ReadIsBehind
<1> QED BY <1>4, <1>5, <1>11, <1>13, <1>14 DEF IInv, LedgerTypeOK, LedgerInv

LEMMA BatchKeeps == IInv /\ Batch => IInv'
  BY StartBatchKeeps, RejectRecordKeeps, CreateLotKeeps, SkipKeeps, ChangeLotKeeps, TouchLotKeeps,
     StartRemovalsKeeps, RemoveLotKeeps, CommitBatchKeeps, AbortBatchKeeps,
     ReadRecordKeeps, ReadRemovalKeeps, Zenon DEF Batch

LEMMA RefreshKeeps == IInv /\ Refresh => IInv'
  BY StartRefreshKeeps, EndRefreshKeeps, RefreshLotKeeps, RefreshSkipKeeps, Zenon DEF Refresh

LEMMA DemandKeeps == IInv /\ Demand => IInv'
  BY ListPendingKeeps, ReadPendingKeeps, RepairKeeps, CheckProjectionKeeps, ReadStockKeeps,
     PublishKeeps, FailDemandKeeps, Zenon DEF Demand

LEMMA StutterKeeps == IInv /\ UNCHANGED vars => IInv'
<1> SUFFICES ASSUME IInv, UNCHANGED vars PROVE IInv' OBVIOUS
<1>1. UNCHANGED <<ledger, work, dirty, sync, read, refresh>> /\ demand' = demand BY DEF vars
<1>2. demand' \in DemandRow BY <1>1, DemandTyped
<1> QED BY <1>1, <1>2, DemandOnlyKeeps

(* The invariant holds in every reachable state. *)
THEOREM InvariantCorrect == Spec => []IInv
<1>1. Init => IInv BY InitInv
<1>2. IInv /\ [Next]_vars => IInv'
  BY BatchKeeps, RefreshKeeps, DemandKeeps, StutterKeeps, Zenon DEF Next
<1> QED BY <1>1, <1>2, PTL DEF Spec

(* The variables have their types, and a current lot its removal reason. *)
THEOREM LedgerTypeCorrect == Spec => []LedgerTypeOK
<1>1. IInv => LedgerTypeOK BY DEF IInv
<1> QED BY <1>1, InvariantCorrect, PTL

(* For any number of lots, refreshes and batches: no version of a committed  *)
(* lot is lost, repeated or misstated.                                       *)
THEOREM HistoryCorrect == Spec => []HistoryFollowsMaster
<1>1. IInv => HistoryFollowsMaster
  BY DEF IInv, LedgerInv, LotsConsistent, Consistent, HistoryFollowsMaster
<1> QED BY <1>1, InvariantCorrect, PTL

(* For any number of lots, refreshes and batches: a classification is that   *)
(* of the status it stands beside.                                           *)
THEOREM ClassCorrect == Spec => []ClassFollowsStatus
<1>1. IInv => ClassFollowsStatus
  BY DEF IInv, LedgerInv, LotsConsistent, Consistent, ClassFollowsStatus
<1> QED BY <1>1, InvariantCorrect, PTL

-----------------------------------------------------------------------------
(* Mirrors, and the stock a calculation counts.                              *)

Mirrored(lot) ==
    lot.mirror # "NONE" => /\ lot.row.current
                           /\ lot.mirror = ToLegacyPlanningClass(ClassOf(lot.row.status))

MirrorsOK == \A l \in Lots : Mirrored(ledger[l]) /\ Mirrored(work[l])

(* The canonical claim. *)
Apart == sync.step = "idle" \/ demand.step = "idle"

(* What a repair read is still so when it writes, but for classifications.   *)
RowsCurrent ==
    demand.step = "repair" => \A l \in demand.pending :
        /\ demand.rows[l].status = ledger[l].row.status
        /\ demand.rows[l].current = ledger[l].row.current
        /\ demand.rows[l].class # "NULL" => demand.rows[l].class = ClassOf(demand.rows[l].status)

InStock == {l \in Polished : ledger[l].row.current /\ ledger[l].row.status = "STOCK"}

StockKnown == demand.step = "publish" /\ ~demand.review => demand.available = InStock

StockInv == MirrorsOK /\ Apart /\ RowsCurrent /\ StockKnown

LEMMA LotTypes ==
  ASSUME IInv, NEW l \in Lots
  PROVE  /\ ledger[l] \in Lot /\ ledger[l].row \in Row
         /\ View(l) \in Lot /\ View(l).row \in Row
         /\ Consistent(ledger[l]) /\ CurrentRow(ledger[l].row)
<1>1. LotsInv BY InvParts
<1>2. ledger[l] \in Lot /\ Consistent(ledger[l]) /\ CurrentRow(ledger[l].row)
  BY <1>1 DEF LotsInv, RowTypeOK, LotsConsistent, ReasonTypeOK
<1>3. View(l) \in Lot BY <1>1, ViewType DEF LotsInv
<1> QED BY <1>2, <1>3 DEF Lot

LEMMA StockInit == Init => StockInv
<1> SUFFICES ASSUME Init PROVE StockInv OBVIOUS
<1>1. /\ ledger \in [Lots -> LegacyLots \cup {NewLot}] /\ work = NoWork
      /\ \A l \in Lots : LegacyMirror(l, ledger[l])
      /\ sync.step = "idle" /\ demand.step = "idle"
  BY DEF Init
<1>2. MirrorsOK
  BY <1>1 DEF MirrorsOK, Mirrored, LegacyMirror, NoWork, NewLot
<1> QED BY <1>1, <1>2 DEF StockInv, Apart, RowsCurrent, StockKnown

(* A batch is under way alone. *)
LEMMA BatchIsAlone ==
  ASSUME Apart, Batch
  PROVE  demand' = demand /\ demand.step = "idle"
  BY DEF Apart, Batch, StartBatch, RejectRecord, CreateLot, SkipOlder, ChangeLot, TouchLot,
         StartRemovals, SkipRemoval, RemoveLot, CommitBatch, AbortBatch, ReadRecord, ReadRemoval,
         EndBatch, ClaimFree

LEMMA WriteKeepsMirrors ==
  ASSUME IInv, MirrorsOK, NEW l \in Lots, NEW lot, Mirrored(lot), Write(l, lot), ledger' = ledger
  PROVE  MirrorsOK'
<1>1. work \in [Lots -> Lot] BY DEF IInv, LedgerTypeOK, RowTypeOK
<1>2. \A m \in Lots : work'[m] = IF m = l THEN lot ELSE work[m] BY <1>1 DEF Write
<1> QED BY <1>2 DEF MirrorsOK

(* A record is mirrored as it is classified. *)
LEMMA WriteRowMirrors ==
  ASSUME IInv, MirrorsOK, NEW l \in Lots, NEW row, row.class = ClassOf(row.status),
         WriteRow(l, row), ledger' = ledger
  PROVE  MirrorsOK'
<1> DEFINE lot == [row |-> row, history |-> View(l).history \cup {HistoryOf(row, "SYNC")},
                   mirror |-> MirrorAfter(l, row)]
<1>1. Mirrored(lot) BY DEF Mirrored, MirrorAfter
<1>2. Write(l, lot) BY DEF WriteRow
<1> HIDE DEF lot
<1> QED BY <1>1, <1>2, WriteKeepsMirrors

LEMMA RecordMirrors ==
  ASSUME IInv, MirrorsOK, CreateLot \/ ChangeLot
  PROVE  MirrorsOK'
<1>1. read.lot \in Lots /\ read.record \in Records /\ read.base.version \in Nat
  BY InvParts, RecordRead DEF CreateLot, ChangeLot
<1>2. PICK version \in Nat : WriteRow(read.lot, RowOf(read.record, version)) /\ ledger' = ledger
  <2>1. read.base.version + 1 \in Nat BY <1>1
  <2> QED BY <2>1 DEF CreateLot, ChangeLot
<1>3. RowOf(read.record, version).class = ClassOf(RowOf(read.record, version).status)
  BY DEF RowOf
<1> QED BY <1>1, <1>2, <1>3, WriteRowMirrors

LEMMA TouchMirrors ==
  ASSUME IInv, MirrorsOK, TouchLot
  PROVE  MirrorsOK'
<1>1. PICK l \in Lots : l = read.lot BY InvParts, RecordRead DEF TouchLot
<1> DEFINE row == Stamped(View(l).row, read.record.at)
           lot == [View(l) EXCEPT !.row = row]
<1>2. View(l) \in Lot /\ View(l).row \in Row BY LotTypes
<1>3. row.status = View(l).row.status /\ row.current = View(l).row.current
  BY <1>2 DEF Stamped, Row
<1> HIDE DEF row
<1>4. lot.row = row /\ lot.mirror = View(l).mirror BY <1>2 DEF Lot
<1>5. Mirrored(View(l)) BY DEF MirrorsOK, View
<1>6. Mirrored(lot) BY <1>3, <1>4, <1>5 DEF Mirrored
<1>7. Write(l, lot) /\ ledger' = ledger BY <1>1 DEF TouchLot, row
<1> HIDE DEF lot
<1> QED BY <1>6, <1>7, WriteKeepsMirrors

LEMMA RemovalMirrors ==
  ASSUME IInv, MirrorsOK, RemoveLot
  PROVE  MirrorsOK'
<1>1. read.lot \in Lots /\ read.reason \in RemovalReasons /\ read.base.version \in Nat
  BY InvParts, RemovalRead DEF RemoveLot
<1>2. PICK l \in Lots : l = read.lot BY <1>1
<1> DEFINE row == RemovedRow(View(l).row, read.reason)
           lot == [row |-> row, history |-> View(l).history \cup {HistoryOf(row, "SYNC")},
                   mirror |-> IF row.current THEN ToLegacyPlanningClass(row.class) ELSE "NONE"]
<1>3. View(l).row \in Row BY LotTypes
<1>4. row.class = ClassOf(row.status) BY <1>1, <1>3, RemovedRowType
<1>5. Write(l, lot) /\ ledger' = ledger BY <1>2 DEF RemoveLot
<1> HIDE DEF row
<1>6. Mirrored(lot) BY <1>4 DEF Mirrored
<1> HIDE DEF lot
<1> QED BY <1>5, <1>6, WriteKeepsMirrors

LEMMA EndBatchMirrors ==
  ASSUME MirrorsOK, CommitBatch \/ AbortBatch
  PROVE  MirrorsOK'
<1>1. work' = NoWork /\ \A l \in Lots : ledger'[l] \in {ledger[l], work[l]}
  BY DEF CommitBatch, AbortBatch, EndBatch, View
<1> QED BY <1>1 DEF MirrorsOK, Mirrored, NoWork, NewLot

LEMMA BatchKeepsStock == IInv /\ StockInv /\ Batch => StockInv'
<1> SUFFICES ASSUME IInv, StockInv, Batch PROVE StockInv' OBVIOUS
<1>1. demand' = demand /\ demand.step = "idle" BY BatchIsAlone DEF StockInv
<1>2. Apart' /\ RowsCurrent' /\ StockKnown' BY <1>1 DEF Apart, RowsCurrent, StockKnown
<1>3. MirrorsOK'
  <2>1. \/ UNCHANGED <<ledger, work>>
        \/ CreateLot \/ ChangeLot \/ TouchLot \/ RemoveLot \/ CommitBatch \/ AbortBatch
    BY DEF Batch, StartBatch, RejectRecord, SkipOlder, StartRemovals, SkipRemoval, ReadRecord,
           ReadRemoval
  <2>2. CASE UNCHANGED <<ledger, work>> BY <2>2 DEF StockInv, MirrorsOK
  <2> QED BY <2>1, <2>2, RecordMirrors, TouchMirrors, RemovalMirrors, EndBatchMirrors DEF StockInv
<1> QED BY <1>2, <1>3 DEF StockInv

(* A refresh changes neither what a lot is nor its mirror. *)
LEMMA RefreshKeepsStock == IInv /\ StockInv /\ Refresh => StockInv'
<1> SUFFICES ASSUME IInv, StockInv, Refresh PROVE StockInv' OBVIOUS
<1>1. UNCHANGED <<work, sync, demand>>
  BY DEF Refresh, StartRefresh, EndRefresh, RefreshLot, RefreshSkip
<1>2. \A l \in Lots : /\ ledger'[l].row.status = ledger[l].row.status
                      /\ ledger'[l].row.current = ledger[l].row.current
                      /\ ledger'[l].mirror = ledger[l].mirror
  <2>1. ledger \in [Lots -> Lot] BY DEF IInv, LedgerTypeOK, RowTypeOK
  <2>2. ASSUME NEW r \in Refreshers, NEW m \in Lots, RefreshLot(r, m)
        PROVE  \A l \in Lots : /\ ledger'[l].row.status = ledger[l].row.status
                               /\ ledger'[l].row.current = ledger[l].row.current
                               /\ ledger'[l].mirror = ledger[l].mirror
    <3>1. ledger[m] \in Lot /\ ledger[m].row \in Row BY LotTypes
    <3> DEFINE next == Refreshed(ledger[m], refresh[r].copy[m])
    <3>2. /\ next.row.status = ledger[m].row.status /\ next.row.current = ledger[m].row.current
          /\ next.mirror = ledger[m].mirror
      BY <3>1 DEF Refreshed, Lot, Row
    <3>3. ledger' = [ledger EXCEPT ![m] = next] BY <2>2 DEF RefreshLot
    <3> HIDE DEF next
    <3> QED BY <2>1, <3>2, <3>3
  <2>3. ledger' = ledger \/ \E r \in Refreshers, m \in Lots : RefreshLot(r, m)
    BY DEF Refresh, StartRefresh, EndRefresh, RefreshSkip
  <2> QED BY <2>2, <2>3
<1>3. MirrorsOK' BY <1>1, <1>2 DEF StockInv, MirrorsOK, Mirrored
<1>4. RowsCurrent'
  <2>1. demand.pending \subseteq Lots BY DemandTyped DEF DemandRow
  <2> QED BY <1>1, <1>2, <2>1 DEF StockInv, RowsCurrent
<1>5. StockKnown'
  <2>1. InStock' = InStock BY <1>2, LotsAssumption DEF InStock
  <2> QED BY <1>1, <2>1 DEF StockInv, StockKnown
<1>6. Apart' BY <1>1 DEF StockInv, Apart
<1> QED BY <1>3, <1>4, <1>5, <1>6 DEF StockInv

LEMMA ReadPendingKeepsStock == IInv /\ StockInv /\ ReadPending => StockInv'
<1> SUFFICES ASSUME IInv, StockInv, ReadPending PROVE StockInv' OBVIOUS
<1>1. /\ demand \in DemandRow /\ UNCHANGED <<ledger, work, sync>> /\ demand.step = "read"
  BY DemandTyped DEF ReadPending
<1> DEFINE rows == [l \in Lots |-> IF l \in demand.pending THEN ledger[l].row ELSE NoRow]
<1>2. \A l \in demand.pending : rows[l] = ledger[l].row /\ l \in Lots BY <1>1 DEF DemandRow
<1>3. demand' = [demand EXCEPT !.step = "repair", !.rows = rows] BY DEF ReadPending
<1> HIDE DEF rows
<1>4. demand'.step = "repair" /\ demand'.pending = demand.pending /\ demand'.rows = rows
  BY <1>1, <1>3 DEF DemandRow
<1>5. RowsCurrent' BY <1>1, <1>2, <1>4, LotTypes DEF RowsCurrent, Consistent
<1>6. MirrorsOK' BY <1>1 DEF StockInv, MirrorsOK
<1>7. Apart' BY <1>1 DEF StockInv, Apart
<1> QED BY <1>4, <1>5, <1>6, <1>7 DEF StockInv, StockKnown

(* What a repair mirrors is still as it read it. *)
LEMMA RepairKeepsStock == IInv /\ StockInv /\ Repair => StockInv'
<1> SUFFICES ASSUME IInv, StockInv, Repair PROVE StockInv' OBVIOUS
<1>1. /\ demand \in DemandRow /\ UNCHANGED <<work, sync>> /\ demand.step = "repair"
      /\ ledger' = [l \in Lots |-> IF l \in demand.pending THEN Repaired(l) ELSE ledger[l]]
  BY DemandTyped DEF Repair
<1> DEFINE rows == [l \in Lots |-> NoRow]
<1>2. demand' = [demand EXCEPT !.step = "check", !.pending = {}, !.rows = rows] BY DEF Repair
<1> HIDE DEF rows
<1>3. demand'.step = "check" BY <1>1, <1>2 DEF DemandRow
<1>4. ASSUME NEW l \in Lots
      PROVE  Mirrored(ledger'[l])
  <2>1. ledger[l] \in Lot /\ ledger[l].row \in Row BY LotTypes
  <2>2. Mirrored(ledger[l]) BY DEF StockInv, MirrorsOK
  <2>3. CASE l \in demand.pending
    <3> DEFINE mirror == IF RequiresMirror(l, demand.rows[l])
                         THEN ToLegacyPlanningClass(demand.rows[l].class) ELSE ledger[l].mirror
               row == [ledger[l].row EXCEPT !.categorized = TRUE]
    <3>1. ledger'[l] = Repaired(l) BY <1>1, <2>3
    <3>2. row.status = ledger[l].row.status /\ row.current = ledger[l].row.current
      BY <2>1 DEF Row
    <3>3. Repaired(l) = [ledger[l] EXCEPT !.row = row, !.mirror = mirror]
      BY <2>1 DEF Repaired, Lot
    <3>4. RequiresMirror(l, demand.rows[l]) =>
              /\ ledger[l].row.current
              /\ mirror = ToLegacyPlanningClass(ClassOf(ledger[l].row.status))
      BY <1>1, <2>3 DEF StockInv, RowsCurrent, RequiresMirror, IsMirrored
    <3>5. ~RequiresMirror(l, demand.rows[l]) => mirror = ledger[l].mirror OBVIOUS
    <3> HIDE DEF mirror, row
    <3>6. Repaired(l).row = row /\ Repaired(l).mirror = mirror BY <2>1, <3>3 DEF Lot
    <3> QED BY <2>2, <3>1, <3>2, <3>4, <3>5, <3>6 DEF Mirrored
  <2>4. CASE l \notin demand.pending BY <1>1, <2>2, <2>4
  <2> QED BY <2>3, <2>4
<1>5. MirrorsOK' BY <1>1, <1>4 DEF StockInv, MirrorsOK, Mirrored
<1>6. Apart' BY <1>1 DEF StockInv, Apart
<1> QED BY <1>3, <1>5, <1>6 DEF StockInv, RowsCurrent, StockKnown

(* A mirror that agrees with the status does not restrict the class. *)
LEMMA EffectiveIsCurrent ==
  ASSUME IInv, MirrorsOK, NEW l \in Lots
  PROVE  EffectiveClass(ledger[l]) = ClassOf(ledger[l].row.status)
<1>1. ledger[l].row.class # "NULL" => ledger[l].row.class = ClassOf(ledger[l].row.status)
  BY LotTypes DEF Consistent
<1>2. ledger[l].mirror # "NONE" =>
          MirrorClass(ledger[l].mirror) = ClassOf(ledger[l].row.status)
  BY DEF MirrorsOK, Mirrored, MirrorClass, ToLegacyPlanningClass, ClassOf
<1> QED BY <1>1, <1>2 DEF EffectiveClass

LEMMA ReadStockKeepsStock == IInv /\ StockInv /\ ReadStock => StockInv'
<1> SUFFICES ASSUME IInv, StockInv, ReadStock PROVE StockInv' OBVIOUS
<1>1. demand \in DemandRow /\ UNCHANGED <<ledger, work, sync>> /\ demand.step = "stock"
  BY DemandTyped DEF ReadStock
<1> DEFINE available == {l \in Inventory : Available(l)}
           review == \E l \in Inventory : MissingMirror(l) \/ EffectiveClass(ledger[l]) = "EXCLUDED"
<1>2. review \in BOOLEAN OBVIOUS
<1>3. demand' = [demand EXCEPT !.step = "publish", !.available = available, !.review = review]
  BY DEF ReadStock
<1>4. ASSUME ~review
      PROVE  available = InStock
  <2>1. ASSUME NEW l \in Polished
        PROVE  l \in available <=> ledger[l].row.current /\ ledger[l].row.status = "STOCK"
    <3>1. l \in Lots BY LotsAssumption
    <3>2. EffectiveClass(ledger[l]) = ClassOf(ledger[l].row.status)
      BY <3>1, EffectiveIsCurrent DEF StockInv
    <3>3. l \in available <=>
            /\ ledger[l].row.current /\ ledger[l].row.status \notin {"SOLD", "REMOVED_UNKNOWN"}
            /\ Available(l)
      BY DEF Inventory
    <3>4. l \in Inventory => ~MissingMirror(l) /\ EffectiveClass(ledger[l]) # "EXCLUDED"
      BY <1>4
    <3>5. /\ ledger[l].row.status = "STOCK" =>
                ClassOf(ledger[l].row.status) = "PHYSICAL_AVAILABLE"
          /\ ClassOf(ledger[l].row.status) = "PHYSICAL_AVAILABLE" =>
                ledger[l].row.status = "STOCK"
      BY DEF ClassOf
    <3> QED BY <3>2, <3>3, <3>4, <3>5 DEF Inventory, Available
  <2>2. available \subseteq Polished BY DEF Inventory
  <2> QED BY <2>1, <2>2 DEF InStock
<1> HIDE DEF available, review
<1>5. demand'.step = "publish" /\ demand'.available = available /\ demand'.review = review
  BY <1>1, <1>3 DEF DemandRow
<1>6. StockKnown'
  <2>1. InStock' = InStock BY <1>1 DEF InStock
  <2> QED BY <1>4, <1>5, <2>1 DEF StockKnown
<1>7. MirrorsOK' BY <1>1 DEF StockInv, MirrorsOK
<1>8. Apart' BY <1>1 DEF StockInv, Apart
<1> QED BY <1>5, <1>6, <1>7, <1>8 DEF StockInv, RowsCurrent

(* The steps of a calculation that neither read nor write a lot. *)
LEMMA OtherDemandKeepsStock ==
  ASSUME IInv, StockInv, ListPending \/ CheckProjection \/ Publish \/ FailDemand
  PROVE  StockInv'
<1>1. demand \in DemandRow /\ UNCHANGED <<ledger, work, sync>>
  BY DemandTyped DEF ListPending, CheckProjection, Publish, FailDemand
<1>2. demand'.step \in {"read", "stock", "idle"}
  BY <1>1 DEF DemandRow, ListPending, CheckProjection, Publish, FailDemand
<1>3. MirrorsOK' BY <1>1 DEF StockInv, MirrorsOK
<1>4. Apart'
  BY <1>1 DEF StockInv, Apart, ListPending, ClaimFree, CheckProjection, Publish, FailDemand
<1> QED BY <1>2, <1>3, <1>4 DEF StockInv, RowsCurrent, StockKnown

LEMMA StockNext == IInv /\ StockInv /\ [Next]_vars => StockInv'
<1> SUFFICES ASSUME IInv, StockInv, [Next]_vars PROVE StockInv' OBVIOUS
<1>1. CASE Demand
  BY <1>1, ReadPendingKeepsStock, RepairKeepsStock, ReadStockKeepsStock, OtherDemandKeepsStock
     DEF Demand
<1>2. CASE UNCHANGED vars
  BY <1>2 DEF vars, StockInv, MirrorsOK, Apart, RowsCurrent, StockKnown, InStock
<1> QED BY <1>1, <1>2, BatchKeepsStock, RefreshKeepsStock DEF Next

(* The invariant about mirrors and counted stock holds in every reachable state. *)
THEOREM StockCorrect == Spec => []StockInv
<1> QED BY StockInit, StockNext, InvariantCorrect, PTL DEF Spec

(* However batches, returns, refreshes and repairs of rows read earlier      *)
(* interleave, a mirror belongs to a current lot and has the planning class  *)
(* of the status the lot has now (sync-service.ts, reconcileBatch).          *)
THEOREM MirrorCorrect == Spec => []MirrorAgrees
<1>1. StockInv => MirrorAgrees BY DEF StockInv, MirrorsOK, Mirrored, MirrorAgrees
<1> QED BY <1>1, StockCorrect, PTL

(* A calculation ends as COMPLETED only by publishing what it counted. *)
LEMMA CompletedStep ==
  ASSUME IInv, StockInv, [Next]_vars, demand.status = "NONE", demand'.status = "COMPLETED"
  PROVE  demand'.available = InStock
<1>1. demand \in DemandRow BY DemandTyped
<1>2. demand' # demand OBVIOUS
<1>3. Demand
  <2>1. ~Batch BY <1>2, BatchIsAlone DEF StockInv
  <2>2. ~Refresh BY <1>2 DEF Refresh, StartRefresh, EndRefresh, RefreshLot, RefreshSkip
  <2> QED BY <1>2, <2>1, <2>2 DEF Next, vars
<1>4. Publish
  <2>1. ~ListPending /\ ~CheckProjection /\ ~FailDemand
    BY <1>1 DEF ListPending, CheckProjection, FailDemand, DemandRow
  <2>2. ~ReadPending
    <3> DEFINE rows == [l \in Lots |-> IF l \in demand.pending THEN ledger[l].row ELSE NoRow]
    <3>1. ReadPending => demand' = [demand EXCEPT !.step = "repair", !.rows = rows]
      BY DEF ReadPending
    <3> HIDE DEF rows
    <3> QED BY <1>1, <3>1 DEF DemandRow
  <2>3. ~Repair
    <3> DEFINE rows == [l \in Lots |-> NoRow]
    <3>1. Repair => demand' = [demand EXCEPT !.step = "check", !.pending = {}, !.rows = rows]
      BY DEF Repair
    <3> HIDE DEF rows
    <3> QED BY <1>1, <3>1 DEF DemandRow
  <2>4. ~ReadStock BY <1>1 DEF ReadStock, DemandRow
  <2> QED BY <1>3, <2>1, <2>2, <2>3, <2>4 DEF Demand
<1>5. demand'.available = demand.available BY <1>1, <1>4 DEF Publish, DemandRow
<1>6. demand.step = "publish" /\ ~demand.review BY <1>1, <1>4 DEF Publish, DemandRow
<1> QED BY <1>5, <1>6 DEF StockInv, StockKnown

(* A COMPLETED calculation counted exactly what is in stock when it is       *)
(* published, for any lots and any refreshes between its reads: a lot that   *)
(* is classified in between lacks its mirror and leads to a review           *)
(* (demand-service.ts, resolveEffectiveClassification).                      *)
THEOREM CompletedCorrect == Spec => CompletedCountsStock
<1>1. IInv /\ StockInv /\ [Next]_vars =>
        [demand.status = "NONE" /\ demand'.status = "COMPLETED" =>
          demand'.available = {l \in Polished : ledger[l].row.current
                                                /\ ledger[l].row.status = "STOCK"}]_vars
  BY CompletedStep DEF InStock
<1> QED BY <1>1, InvariantCorrect, StockCorrect, PTL DEF Spec, CompletedCountsStock

-----------------------------------------------------------------------------
(* Mirrors that are owed.                                                    *)

Debt(l, lot) == RequiresMirror(l, lot.row) /\ lot.mirror = "NONE"

Excused(l, lot) ==
    Debt(l, lot) => \E h \in lot.history : h.version = lot.row.version /\ h.by = "REFRESH"

DebtsOK == \A l \in Lots : Excused(l, ledger[l]) /\ Excused(l, work[l])

LEMMA PlanningClassIsMirror == \A class : ToLegacyPlanningClass(class) # "NONE"
  BY DEF ToLegacyPlanningClass

LEMMA DebtInit == Init => DebtsOK
<1> SUFFICES ASSUME Init PROVE DebtsOK OBVIOUS
<1>1. ledger \in [Lots -> LegacyLots \cup {NewLot}] /\ work = NoWork BY DEF Init
<1>2. ASSUME NEW l, NEW lot \in LegacyLots \cup {NewLot}
      PROVE  Excused(l, lot)
  <2>1. lot.row.class = "NULL"
    <3>1. CASE lot = NewLot BY <3>1 DEF NewLot, NoRow
    <3>2. CASE lot \in LegacyLots
      BY <3>2 DEF LegacyLots
    <3> QED BY <3>1, <3>2
  <2> QED BY <2>1 DEF Excused, Debt, RequiresMirror, IsMirrored
<1>3. \A l \in Lots : ledger[l] \in LegacyLots \cup {NewLot} /\ work[l] = NewLot
  BY <1>1 DEF NoWork
<1> QED BY <1>2, <1>3 DEF DebtsOK

LEMMA WriteKeepsDebts ==
  ASSUME IInv, DebtsOK, NEW l \in Lots, NEW lot, Excused(l, lot), Write(l, lot), ledger' = ledger
  PROVE  DebtsOK'
<1>1. work \in [Lots -> Lot] BY DEF IInv, LedgerTypeOK, RowTypeOK
<1>2. \A m \in Lots : work'[m] = IF m = l THEN lot ELSE work[m] BY <1>1 DEF Write
<1> QED BY <1>2 DEF DebtsOK

(* A batch pays as it writes. *)
LEMMA PaidWriteKeepsDebts ==
  ASSUME IInv, DebtsOK, NEW l \in Lots, NEW row, NEW mirror, NEW history,
         Write(l, [row |-> row, history |-> history, mirror |-> mirror]), ledger' = ledger,
         RequiresMirror(l, row) => mirror # "NONE"
  PROVE  DebtsOK'
<1> DEFINE lot == [row |-> row, history |-> history, mirror |-> mirror]
<1>1. Excused(l, lot) BY DEF Excused, Debt
<1>2. Write(l, lot) OBVIOUS
<1> HIDE DEF lot
<1> QED BY <1>1, <1>2, WriteKeepsDebts

LEMMA WriteRowKeepsDebts ==
  ASSUME IInv, DebtsOK, NEW l \in Lots, NEW row, WriteRow(l, row), ledger' = ledger
  PROVE  DebtsOK'
<1> DEFINE mirror == MirrorAfter(l, row)
           history == View(l).history \cup {HistoryOf(row, "SYNC")}
<1>1. RequiresMirror(l, row) => mirror # "NONE"
  BY PlanningClassIsMirror DEF MirrorAfter, RequiresMirror
<1>2. Write(l, [row |-> row, history |-> history, mirror |-> mirror]) BY DEF WriteRow
<1> HIDE DEF mirror, history
<1> QED BY <1>1, <1>2, PaidWriteKeepsDebts

LEMMA BatchOwesNothing ==
  ASSUME IInv, DebtsOK, CreateLot \/ ChangeLot \/ RemoveLot
  PROVE  DebtsOK'
<1>1. /\ read.lot \in Lots
      /\ ledger' = ledger
  BY InvParts, RecordRead, RemovalRead DEF CreateLot, ChangeLot, RemoveLot
<1>2. CASE CreateLot \/ ChangeLot BY <1>1, <1>2, WriteRowKeepsDebts DEF CreateLot, ChangeLot
<1>3. CASE RemoveLot
  <2> DEFINE row == RemovedRow(View(read.lot).row, read.reason)
             mirror == IF row.current THEN ToLegacyPlanningClass(row.class) ELSE "NONE"
             history == View(read.lot).history \cup {HistoryOf(row, "SYNC")}
  <2>1. Write(read.lot, [row |-> row, history |-> history, mirror |-> mirror])
    BY <1>3 DEF RemoveLot
  <2>2. RequiresMirror(read.lot, row) => mirror # "NONE"
    BY PlanningClassIsMirror DEF RequiresMirror
  <2> HIDE DEF row, mirror, history
  <2> QED BY <1>1, <2>1, <2>2, PaidWriteKeepsDebts
<1> QED BY <1>2, <1>3

LEMMA TouchKeepsDebts ==
  ASSUME IInv, DebtsOK, TouchLot
  PROVE  DebtsOK'
<1>1. PICK l \in Lots : l = read.lot BY InvParts, RecordRead DEF TouchLot
<1> DEFINE row == Stamped(View(l).row, read.record.at)
           lot == [View(l) EXCEPT !.row = row]
<1>2. View(l) \in Lot /\ View(l).row \in Row BY LotTypes
<1>3. /\ row.class = View(l).row.class /\ row.current = View(l).row.current
      /\ row.version = View(l).row.version
  BY <1>2 DEF Stamped, Row
<1> HIDE DEF row
<1>4. lot.row = row /\ lot.mirror = View(l).mirror /\ lot.history = View(l).history
  BY <1>2 DEF Lot
<1>5. Excused(l, View(l)) BY DEF DebtsOK, View
<1>6. Excused(l, lot) BY <1>3, <1>4, <1>5 DEF Excused, Debt, RequiresMirror
<1>7. Write(l, lot) /\ ledger' = ledger BY <1>1 DEF TouchLot, row
<1> HIDE DEF lot
<1> QED BY <1>6, <1>7, WriteKeepsDebts

LEMMA EndBatchKeepsDebts ==
  ASSUME DebtsOK, CommitBatch \/ AbortBatch
  PROVE  DebtsOK'
<1>1. work' = NoWork /\ \A l \in Lots : ledger'[l] \in {ledger[l], work[l]}
  BY DEF CommitBatch, AbortBatch, EndBatch, View
<1>2. \A l \in Lots : Excused(l, work'[l])
  BY <1>1 DEF NoWork, NewLot, NoRow, Excused, Debt, RequiresMirror
<1> QED BY <1>1, <1>2 DEF DebtsOK

(* A refresh that makes a lot owe its mirror writes its history. *)
LEMMA RefreshLotKeepsDebts ==
  ASSUME IInv, DebtsOK, NEW r \in Refreshers, NEW l \in Lots, RefreshLot(r, l)
  PROVE  DebtsOK'
<1>1. /\ ledger[l] \in Lot /\ ledger[l].row \in Row /\ ledger[l].row.version \in Nat
      /\ ledger \in [Lots -> Lot]
  BY LotTypes DEF Row, IInv, LedgerTypeOK, RowTypeOK
<1>2. l \in refresh[r].todo /\ ledger[l].row.class = "NULL" /\ UNCHANGED work BY DEF RefreshLot
<1>3. PICK candidate : candidate = refresh[r].copy[l] OBVIOUS
<1>4. candidate.version = ledger[l].row.version
  BY <1>2, <1>3 DEF IInv, LedgerInv, CandidatesUnchanged, SameFacts
<1> DEFINE row == [ledger[l].row EXCEPT !.class = ClassOf(candidate.status), !.version = @ + 1]
           entry == [version |-> candidate.version + 1, status |-> candidate.status,
                     current |-> TRUE, class |-> ClassOf(candidate.status), by |-> "REFRESH"]
           next == [ledger[l] EXCEPT !.row = row, !.history = @ \cup {entry}]
<1>5. row.version = ledger[l].row.version + 1 BY <1>1 DEF Row
<1>6. entry.version = candidate.version + 1 /\ entry.by = "REFRESH" OBVIOUS
<1>7. ledger' = [ledger EXCEPT ![l] = next] BY <1>3 DEF RefreshLot, Refreshed
<1> HIDE DEF row, entry
<1>8. next.row = row /\ next.history = ledger[l].history \cup {entry} BY <1>1 DEF Lot
<1> HIDE DEF next
<1>9. Excused(l, next) BY <1>4, <1>5, <1>6, <1>8 DEF Excused
<1>10. \A m \in Lots : ledger'[m] = IF m = l THEN next ELSE ledger[m] BY <1>1, <1>7
<1> QED BY <1>2, <1>9, <1>10 DEF DebtsOK

LEMMA RepairKeepsDebts ==
  ASSUME IInv, DebtsOK, Repair
  PROVE  DebtsOK'
<1>1. work' = work /\ \A l \in Lots : ledger'[l] \in {ledger[l], Repaired(l)} BY DEF Repair
<1>2. ASSUME NEW l \in Lots
      PROVE  Excused(l, Repaired(l))
  <2>1. /\ Repaired(l).history = ledger[l].history
        /\ Repaired(l).row.current = ledger[l].row.current
        /\ Repaired(l).row.version = ledger[l].row.version
        /\ Repaired(l).row.class = ledger[l].row.class
    BY LotTypes, RepairedType DEF SameFacts
  <2>2. Repaired(l).mirror # "NONE" \/ Repaired(l).mirror = ledger[l].mirror
    <3>1. ledger[l] \in Lot BY LotTypes
    <3> DEFINE row == [ledger[l].row EXCEPT !.categorized = TRUE]
               mirror == IF RequiresMirror(l, demand.rows[l])
                         THEN ToLegacyPlanningClass(demand.rows[l].class) ELSE ledger[l].mirror
    <3>2. Repaired(l) = [ledger[l] EXCEPT !.row = row, !.mirror = mirror] BY DEF Repaired
    <3>3. mirror # "NONE" \/ mirror = ledger[l].mirror BY PlanningClassIsMirror
    <3> HIDE DEF row, mirror
    <3>4. Repaired(l).mirror = mirror BY <3>1, <3>2 DEF Lot
    <3> QED BY <3>3, <3>4
  <2>3. Excused(l, ledger[l]) BY DEF DebtsOK
  <2> QED BY <2>1, <2>2, <2>3 DEF Excused, Debt, RequiresMirror
<1> QED BY <1>1, <1>2 DEF DebtsOK

LEMMA DebtNext == IInv /\ DebtsOK /\ [Next]_vars => DebtsOK'
<1> SUFFICES ASSUME IInv, DebtsOK, [Next]_vars PROVE DebtsOK' OBVIOUS
<1>1. \/ UNCHANGED <<ledger, work>>
      \/ CreateLot \/ ChangeLot \/ RemoveLot \/ TouchLot \/ CommitBatch \/ AbortBatch
      \/ \E r \in Refreshers, l \in Lots : RefreshLot(r, l)
      \/ Repair
  BY DEF Next, vars, Batch, StartBatch, RejectRecord, SkipOlder, StartRemovals, SkipRemoval,
         ReadRecord, ReadRemoval, Refresh, StartRefresh, EndRefresh, RefreshSkip, Demand,
         ListPending, ReadPending, CheckProjection, ReadStock, Publish, FailDemand
<1>2. CASE UNCHANGED <<ledger, work>> BY <1>2 DEF DebtsOK
<1> QED BY <1>1, <1>2, BatchOwesNothing, TouchKeepsDebts, EndBatchKeepsDebts, RefreshLotKeepsDebts,
           RepairKeepsDebts

(* Batches leave no debt for the repair of the next calculation: a polished  *)
(* lot lacks its mirror only after a refresh classified it, whatever it      *)
(* interleaved with (sync-service.ts, classification-refresh.ts).            *)
THEOREM DebtsComeFromRefreshes == Spec => []MirrorOwedOnlyAfterRefresh
<1>1. DebtsOK => MirrorOwedOnlyAfterRefresh
  BY DEF DebtsOK, Excused, Debt, MirrorOwedOnlyAfterRefresh, Owed
<1> QED BY <1>1, DebtInit, DebtNext, InvariantCorrect, PTL DEF Spec

-----------------------------------------------------------------------------
(* What a commit keeps.                                                      *)

(* The open transaction's copy of a lot has all that was committed of it. *)
DraftsKeepHistory == \A l \in dirty : ledger[l].history \subseteq work[l].history

HistoryKept == \A l \in Lots : ledger[l].history \subseteq ledger'[l].history

LEMMA ViewKeepsHistory ==
  ASSUME DraftsKeepHistory, NEW l \in Lots
  PROVE  ledger[l].history \subseteq View(l).history
  BY DEF DraftsKeepHistory, View

(* The transaction writes a lot with the history it sees, or more. *)
LEMMA WriteKeepsDrafts ==
  ASSUME IInv, DraftsKeepHistory, NEW l \in Lots, NEW lot, Write(l, lot), ledger' = ledger,
         View(l).history \subseteq lot.history
  PROVE  DraftsKeepHistory' /\ HistoryKept
<1>1. work \in [Lots -> Lot] /\ dirty \subseteq Lots BY DEF IInv, LedgerTypeOK, RowTypeOK
<1>2. /\ dirty' = dirty \cup {l}
      /\ \A m \in Lots : work'[m] = IF m = l THEN lot ELSE work[m]
  BY <1>1 DEF Write
<1>3. ledger[l].history \subseteq lot.history BY ViewKeepsHistory
<1> QED BY <1>1, <1>2, <1>3 DEF DraftsKeepHistory, HistoryKept

(* The actions of the batch that write a lot. *)
LEMMA BatchKeepsDrafts ==
  ASSUME IInv, DraftsKeepHistory, CreateLot \/ ChangeLot \/ TouchLot \/ RemoveLot
  PROVE  DraftsKeepHistory' /\ HistoryKept
<1>1. PICK l \in Lots : l = read.lot
  BY InvParts, RecordRead, RemovalRead DEF CreateLot, ChangeLot, TouchLot, RemoveLot
<1>2. View(l) \in Lot BY LotTypes
<1>3. ASSUME NEW row, NEW mirror, ledger' = ledger,
             Write(l, [row |-> row, history |-> View(l).history \cup {HistoryOf(row, "SYNC")},
                       mirror |-> mirror])
      PROVE  DraftsKeepHistory' /\ HistoryKept
  <2> DEFINE lot == [row |-> row, history |-> View(l).history \cup {HistoryOf(row, "SYNC")},
                     mirror |-> mirror]
  <2>1. Write(l, lot) /\ View(l).history \subseteq lot.history BY <1>3
  <2> HIDE DEF lot
  <2> QED BY <1>3, <2>1, WriteKeepsDrafts
<1>4. CASE CreateLot \/ ChangeLot
  BY <1>1, <1>3, <1>4 DEF CreateLot, ChangeLot, WriteRow
<1>5. CASE RemoveLot
  <2> DEFINE row == RemovedRow(View(l).row, read.reason)
             mirror == IF row.current THEN ToLegacyPlanningClass(row.class) ELSE "NONE"
  <2>1. /\ Write(l, [row |-> row, history |-> View(l).history \cup {HistoryOf(row, "SYNC")},
                     mirror |-> mirror])
        /\ ledger' = ledger
    BY <1>1, <1>5 DEF RemoveLot
  <2> HIDE DEF row, mirror
  <2> QED BY <1>3, <2>1
<1>6. CASE TouchLot
  <2> DEFINE lot == [View(l) EXCEPT !.row = Stamped(@, read.record.at)]
  <2>1. Write(l, lot) /\ ledger' = ledger BY <1>1, <1>6 DEF TouchLot
  <2>2. lot.history = View(l).history BY <1>2 DEF Lot
  <2> HIDE DEF lot
  <2> QED BY <2>1, <2>2, WriteKeepsDrafts
<1> QED BY <1>4, <1>5, <1>6

LEMMA EndBatchKeepsHistory ==
  ASSUME DraftsKeepHistory, CommitBatch \/ AbortBatch
  PROVE  DraftsKeepHistory' /\ HistoryKept
<1>1. dirty' = {} /\ \A l \in Lots : ledger'[l] \in {ledger[l], View(l)}
  BY DEF CommitBatch, AbortBatch, EndBatch
<1> QED BY <1>1, ViewKeepsHistory DEF DraftsKeepHistory, HistoryKept

(* A refresh adds to the history of a lot the transaction has not written. *)
LEMMA RefreshLotKeepsHistory ==
  ASSUME IInv, DraftsKeepHistory, NEW r \in Refreshers, NEW l \in Lots, RefreshLot(r, l)
  PROVE  DraftsKeepHistory' /\ HistoryKept
<1>1. ledger[l] \in Lot /\ ledger \in [Lots -> Lot] /\ dirty \subseteq Lots
  BY LotTypes DEF IInv, LedgerTypeOK, RowTypeOK
<1> DEFINE candidate == refresh[r].copy[l]
           row == [ledger[l].row EXCEPT !.class = ClassOf(candidate.status), !.version = @ + 1]
           entry == [version |-> candidate.version + 1, status |-> candidate.status,
                     current |-> TRUE, class |-> ClassOf(candidate.status), by |-> "REFRESH"]
           next == [ledger[l] EXCEPT !.row = row, !.history = @ \cup {entry}]
<1>2. ledger' = [ledger EXCEPT ![l] = next] /\ UNCHANGED <<work, dirty>> /\ l \notin dirty
  BY DEF RefreshLot, Refreshed
<1> HIDE DEF row, entry
<1>3. ledger[l].history \subseteq next.history BY <1>1 DEF Lot
<1> HIDE DEF next
<1>4. \A m \in Lots : ledger'[m] = IF m = l THEN next ELSE ledger[m] BY <1>1, <1>2
<1> QED BY <1>1, <1>2, <1>3, <1>4 DEF DraftsKeepHistory, HistoryKept

LEMMA RepairKeepsHistory ==
  ASSUME IInv, DraftsKeepHistory, Repair
  PROVE  DraftsKeepHistory' /\ HistoryKept
<1>1. /\ dirty \subseteq Lots /\ UNCHANGED <<work, dirty>>
      /\ \A l \in Lots : ledger'[l] \in {ledger[l], Repaired(l)}
  BY DEF Repair, IInv, LedgerTypeOK, RowTypeOK
<1>2. \A l \in Lots : Repaired(l).history = ledger[l].history BY LotTypes, RepairedType
<1>3. \A l \in Lots : ledger'[l].history = ledger[l].history BY <1>1, <1>2
<1> QED BY <1>1, <1>3 DEF DraftsKeepHistory, HistoryKept

LEMMA HistoryNext ==
  IInv /\ DraftsKeepHistory /\ [Next]_vars => DraftsKeepHistory' /\ HistoryKept
<1> SUFFICES ASSUME IInv, DraftsKeepHistory, [Next]_vars
             PROVE  DraftsKeepHistory' /\ HistoryKept
  OBVIOUS
<1>1. \/ UNCHANGED <<ledger, work, dirty>>
      \/ CreateLot \/ ChangeLot \/ RemoveLot \/ TouchLot \/ CommitBatch \/ AbortBatch
      \/ \E r \in Refreshers, l \in Lots : RefreshLot(r, l)
      \/ Repair
  BY DEF Next, vars, Batch, StartBatch, RejectRecord, SkipOlder, StartRemovals, SkipRemoval,
         ReadRecord, ReadRemoval, Refresh, StartRefresh, EndRefresh, RefreshSkip, Demand,
         ListPending, ReadPending, CheckProjection, ReadStock, Publish, FailDemand
<1>2. CASE UNCHANGED <<ledger, work, dirty>> BY <1>2 DEF DraftsKeepHistory, HistoryKept
<1> QED BY <1>1, <1>2, BatchKeepsDrafts, EndBatchKeepsHistory, RefreshLotKeepsHistory,
           RepairKeepsHistory

(* Two rows of one lot whose histories grow: the later row is not of an      *)
(* earlier version, and of the same version only if it says the same.        *)
LEMMA GrownHistory ==
  ASSUME NEW old \in Lot, NEW new \in Lot, Chained(old), Chained(new),
         old.history \subseteq new.history
  PROVE  /\ old.row.version <= new.row.version
         /\ old.row.version = new.row.version /\ old.row.version > 0 =>
               SameFacts(old.row, new.row) /\ old.row.class = new.row.class
<1>1. old.row.version \in Nat /\ new.row.version \in Nat BY DEF Lot, Row
<1>2. 1..old.row.version \subseteq 1..new.row.version BY DEF Chained
<1>3. old.row.version <= new.row.version
  <2>1. CASE old.row.version = 0 BY <1>1, <2>1
  <2>2. CASE old.row.version > 0
    <3>1. old.row.version \in 1..old.row.version BY <1>1, <2>2
    <3> QED BY <1>1, <1>2, <3>1
  <2> QED BY <1>1, <2>1, <2>2
<1>4. ASSUME old.row.version = new.row.version, old.row.version > 0
      PROVE  SameFacts(old.row, new.row) /\ old.row.class = new.row.class
  <2>1. old.row.version \in {h.version : h \in old.history}
    BY <1>1, <1>4 DEF Chained
  <2>2. PICK h \in old.history : h.version = old.row.version BY <2>1
  <2>3. h \in new.history /\ h.version = new.row.version BY <1>4, <2>2
  <2> QED BY <1>4, <2>2, <2>3 DEF Chained, SameFacts
<1> QED BY <1>3, <1>4

(* No commit, repair or refresh drops a version, takes a row back to an       *)
(* earlier one, or changes what a row says without a new version, for any    *)
(* lots and any interleaving (sync-service.ts, classification-refresh.ts).   *)
THEOREM VersionsStand == Spec => CommittedVersionsStand
<1>1. Init => DraftsKeepHistory BY DEF Init, DraftsKeepHistory
<1>2. ASSUME IInv, IInv', HistoryKept, NEW l \in Lots
      PROVE  /\ ledger[l].history \subseteq ledger'[l].history
             /\ ledger[l].row.version <= ledger'[l].row.version
             /\ ledger[l].row.version = ledger'[l].row.version /\ ledger[l].row.version > 0 =>
                   /\ SameFacts(ledger[l].row, ledger'[l].row)
                   /\ ledger[l].row.class = ledger'[l].row.class
  <2>1. ledger[l] \in Lot /\ Chained(ledger[l])
    BY <1>2 DEF IInv, LedgerTypeOK, RowTypeOK, LedgerInv, LotsConsistent, Consistent
  <2>2. ledger'[l] \in Lot /\ Chained(ledger'[l])
    BY <1>2 DEF IInv, LedgerTypeOK, RowTypeOK, LedgerInv, LotsConsistent, Consistent
  <2>3. ledger[l].history \subseteq ledger'[l].history BY <1>2 DEF HistoryKept
  <2> QED BY <2>1, <2>2, <2>3, GrownHistory
<1>3. IInv /\ IInv' /\ HistoryKept =>
        [\A l \in Lots :
          /\ ledger[l].history \subseteq ledger'[l].history
          /\ ledger[l].row.version <= ledger'[l].row.version
          /\ ledger[l].row.version = ledger'[l].row.version /\ ledger[l].row.version > 0 =>
                /\ SameFacts(ledger[l].row, ledger'[l].row)
                /\ ledger[l].row.class = ledger'[l].row.class]_vars
  BY <1>2
<1> QED BY <1>1, <1>3, HistoryNext, InvariantCorrect, PTL DEF Spec, CommittedVersionsStand
===============================================================================
