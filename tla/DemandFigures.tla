---------------------------- MODULE DemandFigures ----------------------------
(***************************************************************************)
(* The figures of a demand calculation (runDemandCalculation, demand-      *)
(* service.ts): sale facts, removed lots, stock and work in progress are   *)
(* read row by row into one trace per planning category; the totals give   *)
(* each category its shortage and the run its status.  The stockout list   *)
(* (stockout.ts) filters the published figures by query.                   *)
(*                                                                         *)
(* The rows are chosen in the initial state; one action takes one row.     *)
(* `classified' says whether the row was classified with the weight bands  *)
(* of today: a row stored before its band existed has an approved lab and  *)
(* shape and no approved category.                                         *)
(***************************************************************************)
EXTENDS Quantities, PlanningCategories, FiniteSets, Functions

CONSTANTS SaleRows,     \* [stone, classified, fixture, pieces]
          RemovedRows,  \* [stone, fixture]
          StockRows,    \* [stone, classified, fixture, quantity, class, available, mirror]
          WipRows,      \* [stone, stage, polished, quantity]
          PlannedKeys,  \* the active PlanningCategory rows
          MaxSales, MaxRemoved, MaxStock, MaxWip  \* bounds on the rows read

ASSUME FigureRowsAssumption ==
    /\ \A row \in SaleRows : row.pieces \in Nat
    /\ \A row \in StockRows \cup WipRows : row.quantity \in Quantity
ASSUME PlannedKeysAssumption ==
    IsFiniteSet(PlannedKeys) /\ \A k \in PlannedKeys : k.band # NoBand

VARIABLES input,      \* the rows read from the database
          left,       \* the rows not yet taken
          trace,      \* categoryTraces: planning category -> figures
          ambiguous,  \* ambiguousWipPieces
          status      \* DemandRun.status

figureVars == <<input, left, trace, ambiguous, status>>

Rows == [sales: SUBSET SaleRows, removed: SUBSET RemovedRows, stock: SUBSET StockRows,
         wip: SUBSET WipRows]
NoFigures == [sales |-> 0, available |-> 0, memo |-> 0, reserved |-> 0, blocked |-> 0,
              coverage |-> 0, unallocated |-> 0, review |-> FALSE]

Subsets(rows, most) == {s \in SUBSET rows : IsFiniteSet(s) /\ Cardinality(s) <= most}

FiguresInit ==
    /\ \E s \in Subsets(SaleRows, MaxSales), r \in Subsets(RemovedRows, MaxRemoved),
          k \in Subsets(StockRows, MaxStock), w \in Subsets(WipRows, MaxWip) :
             input = [sales |-> s, removed |-> r, stock |-> k, wip |-> w]
    /\ left = input
    /\ trace = <<>>
    /\ ambiguous = 0
    /\ status = "RUNNING"

(* getOrCreateCategoryTrace *)
TraceOf(k) == IF k \in DOMAIN trace THEN trace[k] ELSE NoFigures
Put(k, figures) ==
    trace' = [j \in DOMAIN trace \cup {k} |-> IF j = k THEN figures ELSE trace[j]]

(* The category a sale or stock row was stored with (persistedCategoryOf),   *)
(* with the band its carats have today; NoKey when one of them is missing.   *)
KeyOf(row) ==
    LET band == BandOf(Carats([kind |-> "number", tenths |-> row.stone.tenths], row.fixture))
    IN IF LabApproved(row.stone) /\ ShapeApproved(row.stone) /\ band # NoBand
       THEN [lab |-> LabOf(row.stone.lab).name, shape |-> ShapeMapping[row.stone.shape],
             band |-> band]
       ELSE NoKey

Approved(row) == row.classified /\ CategoryApproved(row.stone) /\ KeyOf(row) # NoKey
-----------------------------------------------------------------------------
(* An unapproved sale is not counted; its category, if known, needs review.  *)
TakeSale(row) ==
    LET figures == TraceOf(KeyOf(row))
    IN /\ row \in left.sales
       /\ left' = [left EXCEPT !.sales = @ \ {row}]
       /\ CASE Approved(row) -> Put(KeyOf(row), [figures EXCEPT !.sales = @ + row.pieces])
            [] ~Approved(row) /\ KeyOf(row) # NoKey -> Put(KeyOf(row), [figures EXCEPT !.review = TRUE])
            [] OTHER -> UNCHANGED trace
       /\ UNCHANGED <<input, ambiguous, status>>

(* A removal without a sale only makes its category known, under the name    *)
(* the mappings give its shape.                                              *)
TakeRemoval(row) ==
    LET band == BandOf(Carats([kind |-> "number", tenths |-> row.stone.tenths], row.fixture))
        key == [PlanningKey(row.stone) EXCEPT !.band = band]
    IN /\ left.sales = {}
       /\ row \in left.removed
       /\ left' = [left EXCEPT !.removed = @ \ {row}]
       /\ IF band # NoBand /\ key.shape # Unknown THEN Put(key, TraceOf(key)) ELSE UNCHANGED trace
       /\ UNCHANGED <<input, ambiguous, status>>
-----------------------------------------------------------------------------
(* The stock loop: what a row adds to its category.  Without a confirmed     *)
(* quantity nothing is counted; without approval the pieces are blocked, and *)
(* so are those whose mirror is missing or whose class is not for sale.      *)

MirrorMissing(row) == row.class \in {"PHYSICAL_AVAILABLE", "MEMO"} /\ ~row.mirror

(* Mutant of StockFigures: an uncounted quantity needs no review. *)
StockFiguresUnreviewed(row, figures) ==
    LET n == Pieces(row.quantity)
    IN IF n = None THEN figures
       ELSE IF ~Approved(row) \/ MirrorMissing(row)
            THEN [figures EXCEPT !.review = TRUE, !.blocked = @ + n]
       ELSE IF row.available THEN [figures EXCEPT !.available = @ + n]
       ELSE IF row.class = "MEMO" THEN [figures EXCEPT !.memo = @ + n]
       ELSE IF row.class = "RESERVED" THEN [figures EXCEPT !.reserved = @ + n]
       ELSE [figures EXCEPT !.blocked = @ + n]

(* Mutant of StockFigures: memo stock is available as well. *)
StockFiguresMemoTwice(row, figures) ==
    LET n == Pieces(row.quantity)
    IN IF n = None THEN [figures EXCEPT !.review = TRUE]
       ELSE IF ~Approved(row) \/ MirrorMissing(row)
            THEN [figures EXCEPT !.review = TRUE, !.blocked = @ + n]
       ELSE IF row.class = "MEMO" THEN [figures EXCEPT !.memo = @ + n, !.available = @ + n]
       ELSE IF row.available THEN [figures EXCEPT !.available = @ + n]
       ELSE IF row.class = "RESERVED" THEN [figures EXCEPT !.reserved = @ + n]
       ELSE [figures EXCEPT !.blocked = @ + n]

StockFigures(row, figures) ==
    LET n == Pieces(row.quantity)
    IN IF n = None THEN [figures EXCEPT !.review = TRUE]
       ELSE IF ~Approved(row) \/ MirrorMissing(row)
            THEN [figures EXCEPT !.review = TRUE, !.blocked = @ + n]
       ELSE IF row.available THEN [figures EXCEPT !.available = @ + n]
       ELSE IF row.class = "MEMO" THEN [figures EXCEPT !.memo = @ + n]
       ELSE IF row.class = "RESERVED" THEN [figures EXCEPT !.reserved = @ + n]
       ELSE [figures EXCEPT !.blocked = @ + n]

TakeStock(row) ==
    LET key == KeyOf(row)
    IN /\ left.sales = {} /\ left.removed = {}
       /\ row \in left.stock
       /\ left' = [left EXCEPT !.stock = @ \ {row}]
       /\ IF key = NoKey \/ (Pieces(row.quantity) = None /\ ~Approved(row))
          THEN UNCHANGED trace
          ELSE Put(key, StockFigures(row, TraceOf(key)))
       /\ UNCHANGED <<input, ambiguous, status>>
-----------------------------------------------------------------------------
(* The work in progress: eligible pieces cover their category, pieces that   *)
(* fit none are ambiguous, all others are unallocated.  Its quantity is read *)
(* without the stored provenance.                                            *)
WipQuantity(row) == Pieces([row.quantity EXCEPT !.stored = NotStored])
WipPieces(row) == IF WipQuantity(row) = None THEN 0 ELSE WipQuantity(row)

TakeWip(row) ==
    LET key == PlanningKey(row.stone)
        outcome == WipOutcome(row)
        figures == TraceOf(key)
    IN /\ left.sales = {} /\ left.removed = {} /\ left.stock = {}
       /\ row \in left.wip
       /\ left' = [left EXCEPT !.wip = @ \ {row}]
       /\ CASE outcome \in {"COMPLETED", "ALREADY_POLISHED"} -> UNCHANGED <<trace, ambiguous>>
            [] outcome = "ELIGIBLE" /\ WipQuantity(row) # None ->
                   /\ Put(key, [figures EXCEPT !.coverage = @ + WipPieces(row)])
                   /\ UNCHANGED ambiguous
            [] outcome = "AMBIGUOUS" ->
                   /\ ambiguous' = ambiguous + WipPieces(row)
                   /\ UNCHANGED trace
            [] OTHER ->
                   /\ Put(key, [figures EXCEPT !.unallocated = @ + WipPieces(row)])
                   /\ UNCHANGED ambiguous
       /\ UNCHANGED <<input, status>>
-----------------------------------------------------------------------------
(* roundHalfUpInt((sales90d / 3) * 2), and what follows from it. *)
Target(m) == (4 * m.sales + 3) \div 6
Surplus(a, b) == IF a > b THEN a - b ELSE 0
Shortage(m) == Surplus(Target(m), m.available)
Excess(m) == Surplus(m.available, Target(m))
PipelineNeed(m) == Surplus(Shortage(m), m.coverage)

Held(m) == m.available + m.memo + m.reserved

NoCountableInput(traces) ==
    /\ input.sales # {}
    /\ \/ SumFunction([k \in DOMAIN traces |-> traces[k].sales]) = 0
       \/ input.stock # {} /\ SumFunction([k \in DOMAIN traces |-> Held(traces[k])]) = 0

(* The active planning categories get a trace, then the totals are taken;    *)
(* `projected' is the verdict of checkProjectionInvariant.                   *)
Total(projected) ==
    LET traces == [k \in DOMAIN trace \cup PlannedKeys |-> TraceOf(k)]
    IN /\ status = "RUNNING"
       /\ left.sales = {} /\ left.removed = {} /\ left.stock = {} /\ left.wip = {}
       /\ trace' = traces
       /\ status' = IF \/ \E k \in DOMAIN traces : traces[k].review \/ traces[k].blocked > 0
                       \/ NoCountableInput(traces)
                       \/ ~projected
                    THEN "REVIEW_REQUIRED" ELSE "COMPLETED"
       /\ UNCHANGED <<input, left, ambiguous>>

FiguresNext ==
    \/ \E row \in left.sales : TakeSale(row)
    \/ \E row \in left.removed : TakeRemoval(row)
    \/ \E row \in left.stock : TakeStock(row)
    \/ \E row \in left.wip : TakeWip(row)
    \/ \E projected \in BOOLEAN : Total(projected)

FiguresSpec == FiguresInit /\ [][FiguresNext]_figureVars
-----------------------------------------------------------------------------
(* The stockout list: the state shown for a published figure (stockoutState- *)
(* Of), and the condition a filter adds to the query (whereFor).             *)
StockoutStates == {"REVIEW_REQUIRED", "OUT_OF_STOCK", "SHORTAGE", "EXCESS", "COVERED"}

StockoutState(m) ==
    IF m.review THEN "REVIEW_REQUIRED"
    ELSE IF Target(m) > 0 /\ m.available = 0 THEN "OUT_OF_STOCK"
    ELSE IF Shortage(m) > 0 THEN "SHORTAGE"
    ELSE IF Excess(m) > 0 THEN "EXCESS"
    ELSE "COVERED"

(* Mutant of Where: out of stock counts as a shortage too. *)
WhereShort(m, state) ==
    CASE state = "REVIEW_REQUIRED" -> m.review
      [] state = "OUT_OF_STOCK" -> ~m.review /\ Target(m) > 0 /\ m.available = 0
      [] state = "SHORTAGE" -> ~m.review /\ Shortage(m) > 0
      [] state = "EXCESS" -> ~m.review /\ Shortage(m) = 0 /\ Excess(m) > 0
      [] state = "COVERED" -> ~m.review /\ Shortage(m) = 0 /\ Excess(m) = 0

Where(m, state) ==
    CASE state = "REVIEW_REQUIRED" -> m.review
      [] state = "OUT_OF_STOCK" -> ~m.review /\ Target(m) > 0 /\ m.available = 0
      [] state = "SHORTAGE" -> ~m.review /\ Shortage(m) > 0 /\ m.available > 0
      [] state = "EXCESS" -> ~m.review /\ Shortage(m) = 0 /\ Excess(m) > 0
      [] state = "COVERED" -> ~m.review /\ Shortage(m) = 0 /\ Excess(m) = 0

(* The same in the excess list (excessStateOf and whereFor of excess.ts).    *)
ExcessState(m) ==
    IF m.review THEN "REVIEW_REQUIRED"
    ELSE IF Target(m) = 0 THEN "NO_TARGET"
    ELSE IF Excess(m) > 0 THEN "EXCESS"
    ELSE IF Shortage(m) > 0 THEN "BELOW_TARGET"
    ELSE "AT_TARGET"

ExcessWhere(m, state) ==
    CASE state = "REVIEW_REQUIRED" -> m.review
      [] state = "EXCESS" -> ~m.review /\ Excess(m) > 0
      [] state = "NO_TARGET" -> ~m.review /\ Excess(m) = 0 /\ Target(m) = 0
      [] state = "BELOW_TARGET" -> ~m.review /\ Excess(m) = 0 /\ Shortage(m) > 0
      [] state = "AT_TARGET" -> ~m.review /\ Excess(m) = 0 /\ Shortage(m) = 0 /\ Target(m) > 0
-----------------------------------------------------------------------------
Finished == status # "RUNNING"
Placed(m) == Held(m) + m.blocked
InWork(m) == m.coverage + m.unallocated

(* Whatever the order of the rows, every confirmed piece of stock with a     *)
(* known category is in exactly one of available, memo, reserved and         *)
(* blocked, and every piece of work in progress that is not finished covers  *)
(* a category, is unallocated in one, or is ambiguous.                       *)
EveryPieceOnce ==
    Finished =>
        /\ \A k \in DOMAIN trace :
              Placed(trace[k]) =
                  SumFunction([row \in {row \in input.stock :
                                          KeyOf(row) = k /\ Pieces(row.quantity) # None}
                                   |-> Pieces(row.quantity)])
        /\ ambiguous + SumFunction([k \in DOMAIN trace |-> InWork(trace[k])]) =
              SumFunction([row \in {row \in input.wip :
                                      ~row.polished /\ row.stage \notin CompletedStages}
                               |-> WipPieces(row)])

(* A run that ends COMPLETED left nothing of the approved stock out: all of  *)
(* it has a confirmed quantity, and its pieces are available, on memo or     *)
(* reserved.                                                                 *)
CompletedLeavesNothingOut ==
    status = "COMPLETED" =>
        LET approved == {row \in input.stock : Approved(row)}
        IN /\ \A row \in approved : Pieces(row.quantity) # None
           /\ SumFunction([k \in DOMAIN trace |-> Held(trace[k])]) =
                 SumFunction([row \in approved |-> Pieces(row.quantity)])

(* What a query selects is what the code computes: a stockout filter returns *)
(* the categories shown in that state, the excess filters for a category     *)
(* with a target do so too, and the confirmed pieces summed in SQL           *)
(* (confirmedQuantitySql) are those of resolveCanonicalQuantity.             *)
QueriesAgreeWithCode ==
    /\ Finished => \A k \in DOMAIN trace :
          /\ \A state \in StockoutStates : Where(trace[k], state) <=> StockoutState(trace[k]) = state
          /\ \A state \in {"REVIEW_REQUIRED", "BELOW_TARGET", "AT_TARGET"} :
                ExcessWhere(trace[k], state) <=> ExcessState(trace[k]) = state
    /\ \A row \in input.stock : PiecesInSql(row.quantity) = Pieces(row.quantity)

-----------------------------------------------------------------------------
(* What the repository's tests say, and the code does not keep. *)

(* "the state of every row is exactly what its stored figures imply"         *)
(* (excess-analysis.test.ts:197): stock above its target is EXCESS, without  *)
(* a target as well; that is also what the EXCESS filter selects.            *)
ExcessStateIsImplied ==
    Finished => \A k \in DOMAIN trace :
        ExcessState(trace[k]) = "EXCESS" <=> ExcessWhere(trace[k], "EXCESS")

(* "Pipeline = 3 - 2 = 1" (test-demand-inventory.ts:356): eligible work in   *)
(* progress covers the category its stones are sold and stocked under.       *)
WipCoversItsCategory ==
    Finished =>
        \A row \in input.wip :
            WipOutcome(row) = "ELIGIBLE" /\ CategoryApproved(row.stone) /\ WipPieces(row) > 0 =>
                LET key == [lab |-> LabOf(row.stone.lab).name,
                            shape |-> ShapeMapping[row.stone.shape],
                            band |-> BandOf(row.stone.tenths)]
                IN key \in DOMAIN trace /\ trace[key].coverage > 0
=============================================================================
