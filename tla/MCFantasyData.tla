---------------------------- MODULE MCFantasyData ----------------------------
(***************************************************************************)
(* The data the application takes in and the figures it draws from them,   *)
(* one part at a time: `part' says whether a behaviour is about the        *)
(* scheduler, the client, the column contract of one batch, the sale facts *)
(* or the figures of a demand calculation.                                 *)
(***************************************************************************)
EXTENDS FantasyScheduler, FantasyClient, BatchPreparation, ConfirmedSales, DemandFigures

CONSTANTS s1, s2, f1, f2, t1, t2, lotId, weight, nothing,
          gia, giaText, odd, round, star, Round, ROUND, noText, unknown, nonCert

VARIABLES part

vars == <<part, prepared, schedulerVars, clientVars, saleVars, figureVars>>

TheContract == <<lotId, weight>>
Column(name) == [name |-> name, spelling |-> "exact"]

(* The batches of one row whose contract is checked: every delivery of at    *)
(* most three columns, with a row of at most three cells or a keyed one.     *)
HeaderCells == {Column(lotId), Column(weight), [name |-> lotId, spelling |-> "space"],
                [name |-> weight, spelling |-> "case"], [name |-> nothing, spelling |-> "exact"],
                [name |-> nothing, spelling |-> "empty"]}
CellValues == {"text", "blank", "other", "unsupported"}
UpTo(n, S) == UNION {[1..k -> S] : k \in 0..n}
OneRows ==
    [form : {"POSITIONAL"}, cells : UpTo(2, CellValues) \cup [1..3 -> {"text"}]]
    \cup [form : {"KEYED"},
          fields : UNION {[names -> CellValues \ {"other"}] : names \in SUBSET {lotId, weight, nothing}}]
Batches ==
    [supported : {TRUE}, headers : UpTo(3, HeaderCells), rows : {<<r>> : r \in OneRows}]
    \cup {[supported |-> FALSE, headers |-> <<Column(lotId), Column(weight)>>, rows |-> <<>>]}

TheLabMapping == giaText :> gia
TheShapeMapping == round :> Round
TheUpperCase == Round :> ROUND
TheBands == <<[min |-> 10, max |-> 14], [min |-> 15, max |-> 29]>>

Stone == [lab |-> giaText, shape |-> round, tenths |-> 12]
HeavyStone == [Stone EXCEPT !.tenths = 20]
OddLab == [Stone EXCEPT !.lab = odd]
OddShape == [Stone EXCEPT !.shape = star]

Number(n) == [kind |-> "number", tenths |-> n]
Fixture(n) == [raw |-> Number(n), stored |-> "EXPLICIT_FIXTURE", fixture |-> TRUE]
Simulated(n) == [raw |-> Number(n), stored |-> NotStored, fixture |-> TRUE]
Live(n) == [raw |-> Number(n), stored |-> NotStored, fixture |-> FALSE]
Absent == [raw |-> [kind |-> "missing", tenths |-> 0], stored |-> "MISSING", fixture |-> TRUE]

Sale(stone, classified, pieces) ==
    [stone |-> stone, classified |-> classified, fixture |-> TRUE, pieces |-> pieces]
TheSales == {Sale(Stone, TRUE, 3), Sale(Stone, TRUE, 0), Sale(Stone, FALSE, 1), Sale(OddLab, TRUE, 2)}
TheRemoved == {[stone |-> OddLab, fixture |-> TRUE], [stone |-> OddShape, fixture |-> TRUE]}

Lot(stone, classified, quantity, class, available, mirror) ==
    [stone |-> stone, classified |-> classified, fixture |-> quantity.fixture,
     quantity |-> quantity, class |-> class, available |-> available, mirror |-> mirror]
InStock(stone, quantity) == Lot(stone, TRUE, quantity, "PHYSICAL_AVAILABLE", TRUE, TRUE)
TheStock ==
    {InStock(Stone, Fixture(10)), InStock(Stone, Fixture(20)), InStock(HeavyStone, Simulated(30)),
     InStock(OddLab, Fixture(10)), InStock(Stone, Absent), InStock(Stone, Simulated(15)),
     InStock(Stone, Fixture(0)), InStock(Stone, Live(10)),
     Lot(Stone, FALSE, Fixture(10), "PHYSICAL_AVAILABLE", TRUE, TRUE),
     Lot(Stone, FALSE, Absent, "PHYSICAL_AVAILABLE", TRUE, TRUE),
     Lot(Stone, TRUE, Fixture(10), "PHYSICAL_AVAILABLE", TRUE, FALSE),
     Lot(Stone, TRUE, Fixture(10), "PHYSICAL_AVAILABLE", FALSE, TRUE),
     Lot(Stone, TRUE, Fixture(10), "MEMO", FALSE, TRUE),
     Lot(Stone, TRUE, Fixture(10), "RESERVED", FALSE, FALSE)}

Work(stone, stage, polished, quantity) ==
    [stone |-> stone, stage |-> stage, polished |-> polished, quantity |-> quantity]
TheWip ==
    {Work(Stone, "POLISHING", FALSE, Simulated(20)), Work(HeavyStone, "POLISHING", FALSE, Absent),
     Work(Stone, "PLANNING", FALSE, Simulated(10)), Work(OddShape, "POLISHING", FALSE, Simulated(10)),
     Work(Stone, "FINISHED", FALSE, Simulated(10)), Work(Stone, "POLISHING", TRUE, Simulated(10))}
ThePlanned == {[lab |-> gia, shape |-> Round, band |-> 2]}

NoHistory ==
    /\ history = [l \in SaleLots |-> <<>>]
    /\ at = [lot |-> 1, version |-> 1] /\ episode = NewEpisode
    /\ seen = {} /\ facts = {} /\ excluded = {}
NoInput == [sales |-> {}, removed |-> {}, stock |-> {}, wip |-> {}]
NoFigure == input = NoInput /\ left = NoInput /\ trace = <<>> /\ ambiguous = 0 /\ status = "RUNNING"

Init ==
    /\ SchedulerInit /\ ClientInit /\ PrepareInit
    /\ \/ part \in {"scheduler", "client", "contract"} /\ NoHistory /\ NoFigure
       \/ part = "sales" /\ SalesInit /\ NoFigure
       \/ part = "figures" /\ NoHistory /\ FiguresInit

Next ==
    /\ UNCHANGED part
    /\ \/ part = "scheduler" /\ SchedulerNext
          /\ UNCHANGED <<clientVars, prepared, saleVars, figureVars>>
       \/ part = "client" /\ ClientNext
          /\ UNCHANGED <<schedulerVars, prepared, saleVars, figureVars>>
       \/ part = "contract" /\ Prepare
          /\ UNCHANGED <<schedulerVars, clientVars, saleVars, figureVars>>
       \/ part = "sales" /\ SalesNext
          /\ UNCHANGED <<schedulerVars, clientVars, prepared, figureVars>>
       \/ part = "figures" /\ FiguresNext
          /\ UNCHANGED <<schedulerVars, clientVars, prepared, saleVars>>

Spec == Init /\ [][Next]_vars /\ SchedulerFairness
=============================================================================
