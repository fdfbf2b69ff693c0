--------------------------- MODULE ConfirmedSales ---------------------------
(***************************************************************************)
(* loadCanonicalSaleFacts (confirmed-sales.ts): the history of the lots    *)
(* with a sale in the business window is read in the order of lot and      *)
(* version, and each sale episode becomes one sale fact, or an exclusion.  *)
(*                                                                         *)
(* One action reads one history row.  A row says whether it is a sale      *)
(* event (isSaleEvent); a sale, whether its docDate lies in the window     *)
(* (resolveSalesWindow) and whether it carries the source record id of its *)
(* lot, which synchronization writes and other writers do not.             *)
(***************************************************************************)
EXTENDS Integers

CONSTANTS LotCount,    \* lots, in the order of their lotId
          MaxVersions  \* bound: history rows of a lot

ASSUME LotCountAssumption == LotCount \in Nat
ASSUME MaxVersionsAssumption == MaxVersions \in Nat

VARIABLES history,  \* LotHistoryRecord rows of each lot, by version
          at,       \* the row the loop is at
          episode,  \* inSaleEpisode and episodeIndex of the lot it is at
          seen,     \* seenEventKeys
          facts,    \* the rows that became sale facts
          excluded  \* the rows excluded, with the code

saleVars == <<history, at, episode, seen, facts, excluded>>

SaleLots == 1..LotCount
NoSale == [sale |-> FALSE, inWindow |-> FALSE, synchronized |-> FALSE]
HistoryRow == {NoSale} \cup [sale: {TRUE}, inWindow: BOOLEAN, synchronized: BOOLEAN]
Histories == UNION {[1..n -> HistoryRow] : n \in 0..MaxVersions}
RowIds == [lot: SaleLots, version: 1..MaxVersions]
ExclusionCodes == {"DUPLICATE_LIFECYCLE_EPISODE", "OUTSIDE_BUSINESS_WINDOW",
                   "QUANTITY_PROVENANCE_UNCONFIRMED"}

NewEpisode == [inSale |-> FALSE, index |-> 1]
Row(r) == history[r.lot][r.version]

SalesInit ==
    /\ history \in [SaleLots -> Histories]
    /\ at = [lot |-> 1, version |-> 1]
    /\ episode = NewEpisode
    /\ seen = {}
    /\ facts = {}
    /\ excluded = {}

(* candidateLots: the lots with a sale event in the window. *)
Candidate(l) == \E v \in DOMAIN history[l] : history[l][v].sale /\ history[l][v].inWindow

Reading == at.lot \in SaleLots /\ Candidate(at.lot) /\ at.version \in DOMAIN history[at.lot]

SalesDone == at.lot \notin SaleLots

(* SRC_<sourceRecordId>, or FANTASY_<lotId>_EP<episodeIndex>. *)

(* Mutant of EventKey: the key of a row without a source record does not     *)
(* name the episode.                                                         *)
EventKeyOfLot(r, index) == [lot |-> r.lot, index |-> 0]

EventKey(r, index) == [lot |-> r.lot, index |-> IF Row(r).synchronized THEN 0 ELSE index]

Advance == at' = [at EXCEPT !.version = @ + 1]

Excludes(code) == excluded' = excluded \cup {[lot |-> at.lot, version |-> at.version, code |-> code]}

(* A lot that is no candidate, or whose rows are all read. *)
NextLot ==
    /\ at.lot \in SaleLots
    /\ ~Reading
    /\ at' = [lot |-> at.lot + 1, version |-> 1]
    /\ episode' = NewEpisode
    /\ UNCHANGED <<history, seen, facts, excluded>>

(* Any row that is no sale ends the episode. *)
EndEpisode ==
    /\ Reading
    /\ ~Row(at).sale
    /\ episode' = [inSale |-> FALSE, index |-> episode.index + 1]
    /\ Advance
    /\ UNCHANGED <<history, seen, facts, excluded>>

RepeatedSale ==
    /\ Reading
    /\ Row(at).sale
    /\ episode.inSale
    /\ Excludes("DUPLICATE_LIFECYCLE_EPISODE")
    /\ Advance
    /\ UNCHANGED <<history, episode, seen, facts>>

OutsideWindow ==
    /\ Reading
    /\ Row(at).sale
    /\ ~episode.inSale
    /\ ~Row(at).inWindow
    /\ episode' = [episode EXCEPT !.inSale = TRUE]
    /\ Excludes("OUTSIDE_BUSINESS_WINDOW")
    /\ Advance
    /\ UNCHANGED <<history, seen, facts>>

KnownEvent ==
    /\ Reading
    /\ Row(at).sale
    /\ ~episode.inSale
    /\ Row(at).inWindow
    /\ EventKey(at, episode.index) \in seen
    /\ episode' = [episode EXCEPT !.inSale = TRUE]
    /\ Excludes("DUPLICATE_LIFECYCLE_EPISODE")
    /\ Advance
    /\ UNCHANGED <<history, seen, facts>>

(* A fact whose quantity is not confirmed counts no pieces and is listed     *)
(* among the exclusions as well (resolveCanonicalQuantity of its row).       *)
NewFact ==
    /\ Reading
    /\ Row(at).sale
    /\ ~episode.inSale
    /\ Row(at).inWindow
    /\ EventKey(at, episode.index) \notin seen
    /\ episode' = [episode EXCEPT !.inSale = TRUE]
    /\ seen' = seen \cup {EventKey(at, episode.index)}
    /\ facts' = facts \cup {at}
    /\ \/ Excludes("QUANTITY_PROVENANCE_UNCONFIRMED")
       \/ UNCHANGED excluded
    /\ Advance
    /\ UNCHANGED history

SalesNext ==
    NextLot \/ EndEpisode \/ RepeatedSale \/ OutsideWindow \/ KnownEvent \/ NewFact

SalesSpec == SalesInit /\ [][SalesNext]_saleVars
-----------------------------------------------------------------------------
SalesTypeOK ==
    /\ history \in [SaleLots -> Histories]
    /\ at \in [lot: 1..(LotCount + 1), version: 1..(MaxVersions + 1)]
    /\ episode \in [inSale: BOOLEAN, index: Nat]
    /\ seen \subseteq [lot: SaleLots, index: Nat]
    /\ facts \subseteq RowIds
    /\ excluded \subseteq [lot: SaleLots, version: 1..MaxVersions, code: ExclusionCodes]

(* A row the loop has been past. *)
Read(r) == r.lot < at.lot \/ (r.lot = at.lot /\ r.version < at.version)

(* The first row of a sale episode: a sale after a row that is none.         *)
Starts(r) ==
    /\ r.version \in DOMAIN history[r.lot]
    /\ Row(r).sale
    /\ r.version > 1 => ~history[r.lot][r.version - 1].sale

(* Among the starts in the window, one that does not repeat the source       *)
(* record of an earlier one.                                                 *)
Counts(r) ==
    /\ Starts(r)
    /\ Row(r).inWindow
    /\ Row(r).synchronized =>
           \A v \in 1..(r.version - 1) :
               LET earlier == [lot |-> r.lot, version |-> v]
               IN Starts(earlier) /\ Row(earlier).inWindow => ~Row(earlier).synchronized

(* The demand figures count every sale episode that starts in the business   *)
(* window once, at its first row, whatever was read before it and however    *)
(* often the sale was recorded again (loadCanonicalSaleFacts); episodes that *)
(* repeat a source record are one sale.  Every other sale row of a lot that  *)
(* is read is excluded for a reason.                                         *)
SalesAreEpisodes ==
    /\ facts = {r \in RowIds : Read(r) /\ Counts(r)}
    /\ \A r \in RowIds \ facts :
          /\ Read(r) /\ Candidate(r.lot) /\ r.version \in DOMAIN history[r.lot]
          /\ Row(r).sale
          => \E code \in ExclusionCodes :
                 [lot |-> r.lot, version |-> r.version, code |-> code] \in excluded

(* "A genuine second sale episode counts separately"                         *)
(* (test-demand-calculation.ts:223).                                         *)
SecondSaleCounts ==
    \A r \in RowIds : Read(r) /\ Starts(r) /\ Row(r).inWindow => r \in facts
=============================================================================
