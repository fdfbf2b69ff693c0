------------------------ MODULE DemandFigures_proofs ------------------------
(***************************************************************************)
(* Proofs about what a demand calculation counts.                          *)
(*                                                                         *)
(* The sale facts are the sale episodes of the window, for any number of   *)
(* lots and any histories: inSaleEpisode says whether the row before is a  *)
(* sale, so a sale outside an episode starts one; a source record is among *)
(* the event keys exactly when a synchronized start in the window was      *)
(* read, and the key of an episode without one is new when it starts.      *)
(*                                                                         *)
(* The figures hold every piece once, for any rows and categories: the     *)
(* sums over the traces follow the sums over the rows taken so far.        *)
(***************************************************************************)
EXTENDS ConfirmedSales, DemandFigures, TLAPS, FiniteSetTheorems, WellFoundedInduction

-----------------------------------------------------------------------------
(* The sale facts.                                                           *)

SyncStart(r) == Starts(r) /\ Row(r).inWindow /\ Row(r).synchronized

Place ==
    at.lot \in SaleLots =>
        /\ at.version > 1 => Candidate(at.lot) /\ at.version - 1 \in DOMAIN history[at.lot]
        /\ episode.inSale <=> at.version > 1 /\ history[at.lot][at.version - 1].sale

Keys ==
    /\ \A l \in SaleLots :
          [lot |-> l, index |-> 0] \in seen <=>
              \E r \in RowIds : r.lot = l /\ Read(r) /\ SyncStart(r)
    /\ \A k \in seen :
          k.index >= 1 =>
              \/ k.lot < at.lot
              \/ k.lot = at.lot /\ k.index < episode.index
              \/ k.lot = at.lot /\ k.index = episode.index /\ episode.inSale

FactsRight == \A r \in RowIds : r \in facts <=> Read(r) /\ Counts(r)

Excluded(r) ==
    \E code \in ExclusionCodes :
        [lot |-> r.lot, version |-> r.version, code |-> code] \in excluded

OthersExcluded ==
    \A r \in RowIds :
        Read(r) /\ Candidate(r.lot) /\ r.version \in DOMAIN history[r.lot] /\ Row(r).sale
        => r \in facts \/ Excluded(r)

IInv ==
    /\ SalesTypeOK
    /\ episode.index >= 1
    /\ Place
    /\ Keys
    /\ FactsRight
    /\ OthersExcluded
-----------------------------------------------------------------------------
(* A history is a sequence of rows. *)
LEMMA HistoryShape ==
    ASSUME SalesTypeOK, NEW l \in SaleLots
    PROVE  \E n \in 0..MaxVersions : history[l] \in [1..n -> HistoryRow]
  BY DEF SalesTypeOK, Histories

LEMMA RowType ==
    ASSUME SalesTypeOK, NEW l \in SaleLots, NEW v \in DOMAIN history[l]
    PROVE  /\ v \in 1..MaxVersions
           /\ history[l][v] \in HistoryRow
           /\ v > 1 => v - 1 \in DOMAIN history[l]
  <1>1. PICK n \in 0..MaxVersions : history[l] \in [1..n -> HistoryRow]
    BY HistoryShape
  <1>2. DOMAIN history[l] = 1..n
    BY <1>1
  <1> QED
    BY <1>1, <1>2, MaxVersionsAssumption

(* After the last row of a lot there is none. *)
LEMMA PastTheEnd ==
    ASSUME SalesTypeOK, NEW l \in SaleLots, NEW v \in Nat, v >= 1, v \notin DOMAIN history[l],
           NEW u \in Nat, u >= v
    PROVE  u \notin DOMAIN history[l]
  <1>1. PICK n \in 0..MaxVersions : history[l] \in [1..n -> HistoryRow]
    BY HistoryShape
  <1>2. DOMAIN history[l] = 1..n
    BY <1>1
  <1> QED
    BY <1>2

LEMMA AtType ==
    ASSUME SalesTypeOK
    PROVE  /\ at.lot \in Nat /\ at.version \in Nat /\ at.version >= 1
           /\ at = [lot |-> at.lot, version |-> at.version]
           /\ episode.inSale \in BOOLEAN /\ episode.index \in Nat
           /\ episode = [inSale |-> episode.inSale, index |-> episode.index]
  BY LotCountAssumption, MaxVersionsAssumption DEF SalesTypeOK

LEMMA ReadingType ==
    ASSUME SalesTypeOK, Reading
    PROVE  /\ at \in RowIds
           /\ at.lot \in SaleLots
           /\ at.version \in DOMAIN history[at.lot]
           /\ Candidate(at.lot)
           /\ Row(at) \in HistoryRow
  <1>1. at.lot \in SaleLots /\ at.version \in DOMAIN history[at.lot] /\ Candidate(at.lot)
    BY DEF Reading
  <1>2. at.version \in 1..MaxVersions /\ history[at.lot][at.version] \in HistoryRow
    BY <1>1, RowType
  <1>3. at = [lot |-> at.lot, version |-> at.version]
    BY AtType
  <1>4. [lot |-> at.lot, version |-> at.version] \in RowIds
    BY <1>1, <1>2 DEF RowIds
  <1> QED
    BY <1>1, <1>2, <1>3, <1>4 DEF Row

LEMMA SameRow ==
    ASSUME NEW r \in RowIds, NEW q \in RowIds, r.lot = q.lot, r.version = q.version
    PROVE  r = q
  BY DEF RowIds

LEMMA RowIdType ==
    ASSUME NEW r \in RowIds
    PROVE  r.lot \in SaleLots /\ r.lot \in Nat /\ r.version \in Nat /\ r.version >= 1
  BY LotCountAssumption, MaxVersionsAssumption DEF RowIds, SaleLots

(* A row of a lot is a sale or not. *)
LEMMA SaleOrNot ==
    ASSUME NEW x \in HistoryRow
    PROVE  x.sale \in BOOLEAN /\ x.inWindow \in BOOLEAN /\ x.synchronized \in BOOLEAN
  <1>1. CASE x = NoSale
    BY <1>1 DEF NoSale
  <1>2. CASE x \in [sale: {TRUE}, inWindow: BOOLEAN, synchronized: BOOLEAN]
    BY <1>2
  <1> QED
    BY <1>1, <1>2 DEF HistoryRow

(* What only depends on the history stays with it. *)
LEMMA Steady ==
    ASSUME history' = history, NEW r
    PROVE  /\ Row(r)' = Row(r)
           /\ Starts(r)' = Starts(r)
           /\ SyncStart(r)' = SyncStart(r)
           /\ Counts(r)' = Counts(r)
  BY DEF Row, Starts, SyncStart, Counts

LEMMA SteadyCandidate ==
    ASSUME history' = history, NEW l
    PROVE  Candidate(l)' = Candidate(l)
  BY DEF Candidate
-----------------------------------------------------------------------------
(* Reading the row the loop is at.                                           *)

LEMMA AdvanceRead ==
    ASSUME SalesTypeOK, Reading, Advance
    PROVE  /\ at' = [lot |-> at.lot, version |-> at.version + 1]
           /\ \A r \in RowIds : Read(r)' <=> Read(r) \/ r = at
           /\ ~Read(at)
  <1>1. at' = [lot |-> at.lot, version |-> at.version + 1]
    BY AtType DEF Advance
  <1>2. at'.lot = at.lot /\ at'.version = at.version + 1
    BY <1>1
  <1>3. at \in RowIds
    BY ReadingType
  <1>4. ASSUME NEW r \in RowIds PROVE Read(r)' <=> Read(r) \/ r = at
    <2>1. r = at <=> r.lot = at.lot /\ r.version = at.version
      BY <1>3, SameRow
    <2>2. Read(r)' <=> r.lot < at.lot \/ (r.lot = at.lot /\ r.version < at.version + 1)
      BY <1>2 DEF Read
    <2> QED
      BY <2>1, <2>2, RowIdType, AtType DEF Read
  <1>5. ~Read(at)
    BY AtType DEF Read
  <1> QED
    BY <1>1, <1>4, <1>5

(* A sale outside an episode starts one, and the other way round. *)
LEMMA StartsHere ==
    ASSUME SalesTypeOK, Place, Reading, Row(at).sale
    PROVE  Starts(at) <=> ~episode.inSale
  <1>1. at.lot \in SaleLots /\ at.version \in DOMAIN history[at.lot]
    BY DEF Reading
  <1>2. episode.inSale <=> at.version > 1 /\ history[at.lot][at.version - 1].sale
    BY <1>1 DEF Place
  <1> QED
    BY <1>1, <1>2 DEF Starts

LEMMA TypeAdvance ==
    ASSUME SalesTypeOK, Reading, Advance
    PROVE  at' \in [lot: 1..(LotCount + 1), version: 1..(MaxVersions + 1)]
  <1>1. at.lot \in 1..(LotCount + 1) /\ at.version \in 1..MaxVersions
    BY ReadingType, RowType DEF SalesTypeOK
  <1>2. at.version + 1 \in 1..(MaxVersions + 1)
    BY <1>1, MaxVersionsAssumption
  <1> QED
    BY <1>1, <1>2, AdvanceRead

(* The row before is then the row just read. *)
LEMMA PlaceAdvance ==
    ASSUME SalesTypeOK, Reading, Advance, history' = history,
           episode'.inSale = Row(at).sale
    PROVE  Place'
  <1>1. at'.lot = at.lot /\ at'.version = at.version + 1
    BY AdvanceRead
  <1>2. at.version \in Nat /\ at.version >= 1
    BY AtType
  <1>3. at'.version > 1 /\ at'.version - 1 = at.version
    BY <1>1, <1>2
  <1>4. Candidate(at.lot) /\ at.version \in DOMAIN history[at.lot]
    BY ReadingType
  <1> QED
    BY <1>1, <1>3, <1>4 DEF Place, Row, Candidate

LEMMA ExcludedGrows ==
    ASSUME excluded \subseteq excluded', NEW r, Excluded(r)
    PROVE  Excluded(r)'
  BY DEF Excluded

LEMMA ExcludesType ==
    ASSUME SalesTypeOK, Reading, NEW code \in ExclusionCodes, Excludes(code),
           NEW here \in RowIds, at = here
    PROVE  /\ excluded' \subseteq [lot: SaleLots, version: 1..MaxVersions, code: ExclusionCodes]
           /\ excluded \subseteq excluded'
           /\ Excluded(here)'
  <1>1. at.lot \in SaleLots /\ at.version \in 1..MaxVersions
    BY ReadingType, RowType
  <1>2. excluded' = excluded \cup {[lot |-> here.lot, version |-> here.version, code |-> code]}
    BY DEF Excludes
  <1>3. [lot |-> here.lot, version |-> here.version, code |-> code]
            \in [lot: SaleLots, version: 1..MaxVersions, code: ExclusionCodes]
    BY <1>1
  <1>4. Excluded(here)'
    BY <1>2 DEF Excluded
  <1> QED
    BY <1>2, <1>3, <1>4 DEF SalesTypeOK

(* A row that is not a start in the window adds nothing but itself. *)
LEMMA ReadNoFact ==
    ASSUME IInv, Reading, Advance, history' = history, facts' = facts, seen' = seen,
           excluded \subseteq excluded', NEW here \in RowIds, at = here, ~Counts(here),
           SyncStart(here) => [lot |-> here.lot, index |-> 0] \in seen,
           Row(here).sale => Excluded(here)',
           episode'.inSale = Row(at).sale,
           episode'.index >= episode.index,
           episode.inSale => (episode'.inSale \/ episode'.index > episode.index),
           episode' \in [inSale: BOOLEAN, index: Nat],
           excluded' \subseteq [lot: SaleLots, version: 1..MaxVersions, code: ExclusionCodes]
    PROVE  IInv'
  <1>1. SalesTypeOK /\ at \in RowIds /\ at.lot \in SaleLots
    BY ReadingType DEF IInv
  <1>2. \A r \in RowIds : Read(r)' <=> Read(r) \/ r = here
    BY <1>1, AdvanceRead
  <1>3. at'.lot = at.lot
    BY <1>1, AdvanceRead
  <1>4. SalesTypeOK'
    BY <1>1, TypeAdvance DEF SalesTypeOK
  <1>5. episode'.index >= 1
    BY <1>1, AtType DEF IInv
  <1>6. Place'
    BY <1>1, PlaceAdvance
  <1>7. FactsRight'
    <2>1. \A r \in RowIds : r \in facts <=> Read(r) /\ Counts(r)
      BY DEF IInv, FactsRight
    <2>2. \A r \in RowIds : Counts(r)' = Counts(r)
      BY Steady
    <2> QED
      BY <1>2, <2>1, <2>2 DEF FactsRight
  <1>8. OthersExcluded'
    <2>1. SUFFICES ASSUME NEW r \in RowIds, Read(r)', Candidate(r.lot),
                          r.version \in DOMAIN history[r.lot], Row(r).sale
                   PROVE  r \in facts \/ Excluded(r)'
      <3>1. \A r \in RowIds : Row(r)' = Row(r) /\ Candidate(r.lot)' = Candidate(r.lot)
        BY Steady, SteadyCandidate
      <3> QED
        BY <3>1 DEF OthersExcluded
    <2>2. CASE r = here
      BY <2>1, <2>2
    <2>3. CASE Read(r)
      BY <2>1, <2>3, ExcludedGrows DEF IInv, OthersExcluded
    <2> QED
      BY <1>2, <2>1, <2>2, <2>3
  <1>9. ASSUME NEW l \in SaleLots
        PROVE  [lot |-> l, index |-> 0] \in seen <=>
                   \E r \in RowIds : r.lot = l /\ Read(r)' /\ SyncStart(r)
    BY <1>1, <1>2 DEF IInv, Keys
  <1>10. ASSUME NEW k \in seen, k.index >= 1
         PROVE  \/ k.lot < at.lot
                \/ k.lot = at.lot /\ k.index < episode'.index
                \/ k.lot = at.lot /\ k.index = episode'.index /\ episode'.inSale
    <2>1. k.index \in Nat /\ k.lot \in SaleLots
      BY <1>1 DEF SalesTypeOK
    <2>2. \/ k.lot < at.lot
          \/ k.lot = at.lot /\ k.index < episode.index
          \/ k.lot = at.lot /\ k.index = episode.index /\ episode.inSale
      BY <1>10 DEF IInv, Keys
    <2> QED
      BY <1>1, <2>1, <2>2, AtType
  <1>11. Keys'
    BY <1>3, <1>9, <1>10, Steady DEF Keys
  <1> QED
    BY <1>4, <1>5, <1>6, <1>7, <1>8, <1>11 DEF IInv
-----------------------------------------------------------------------------
LEMMA Here ==
    ASSUME IInv, Reading
    PROVE  \E here \in RowIds : at = here
  BY ReadingType DEF IInv

LEMMA EpisodeKept ==
    ASSUME SalesTypeOK, NEW b \in BOOLEAN, episode' = [episode EXCEPT !.inSale = b]
    PROVE  /\ episode' \in [inSale: BOOLEAN, index: Nat]
           /\ episode'.inSale = b
           /\ episode'.index = episode.index
  BY DEF SalesTypeOK

(* A sale of an episode that goes on is no start. *)
LEMMA NoStartNoFact ==
    ASSUME NEW r, ~Starts(r)
    PROVE  ~Counts(r) /\ ~SyncStart(r)
  BY DEF Counts, SyncStart

LEMMA NoWindowNoFact ==
    ASSUME NEW r, ~Row(r).inWindow
    PROVE  ~Counts(r) /\ ~SyncStart(r)
  BY DEF Counts, SyncStart

LEMMA EndEpisodeOK == ASSUME IInv, EndEpisode PROVE IInv'
  <1>1. SalesTypeOK /\ Reading /\ Advance
    BY DEF IInv, EndEpisode
  <1>2. PICK here \in RowIds : at = here
    BY <1>1, Here
  <1>3. ~Row(here).sale
    BY <1>2 DEF EndEpisode
  <1>4. ~Counts(here) /\ ~SyncStart(here)
    BY <1>3, NoStartNoFact DEF Starts
  <1>5. Row(at).sale = FALSE
    BY <1>1, ReadingType, SaleOrNot DEF EndEpisode
  <1>6. episode' = [inSale |-> FALSE, index |-> episode.index + 1] /\ episode.index \in Nat
    BY <1>1, AtType DEF EndEpisode
  <1>10. /\ episode'.inSale = FALSE
         /\ episode'.index > episode.index
         /\ episode'.index >= episode.index
         /\ episode' \in [inSale: BOOLEAN, index: Nat]
    BY <1>6
  <1>11. episode'.inSale = Row(at).sale
    BY <1>5, <1>10, Zenon
  <1>7. /\ episode'.inSale = Row(at).sale
        /\ episode'.index > episode.index
        /\ episode'.index >= episode.index
        /\ episode' \in [inSale: BOOLEAN, index: Nat]
    BY <1>10, <1>11, Zenon
  <1>8. history' = history /\ facts' = facts /\ seen' = seen /\ excluded' = excluded
    BY DEF EndEpisode
  <1>9. excluded' \subseteq [lot: SaleLots, version: 1..MaxVersions, code: ExclusionCodes]
    BY <1>1, <1>8 DEF SalesTypeOK
  <1>20. SyncStart(here) => [lot |-> here.lot, index |-> 0] \in seen
    BY <1>1, <1>2, <1>3, <1>4, <1>7, <1>8, <1>9
  <1>21. Row(here).sale => Excluded(here)'
    BY <1>1, <1>2, <1>3, <1>4, <1>7, <1>8, <1>9
  <1>22. episode.inSale => (episode'.inSale \/ episode'.index > episode.index)
    BY <1>1, <1>2, <1>3, <1>4, <1>7, <1>8, <1>9
  <1>23. excluded \subseteq excluded'
    BY <1>1, <1>2, <1>3, <1>4, <1>7, <1>8, <1>9
  <1> QED
    BY <1>1, <1>2, <1>3, <1>4, <1>7, <1>8, <1>9, <1>20, <1>21, <1>22, <1>23, ReadNoFact, Zenon

LEMMA RepeatedSaleOK == ASSUME IInv, RepeatedSale PROVE IInv'
  <1>1. SalesTypeOK /\ Reading /\ Advance /\ Row(at).sale /\ episode.inSale
    BY DEF IInv, RepeatedSale
  <1>2. PICK here \in RowIds : at = here
    BY <1>1, Here
  <1>3. ~Starts(at)
    BY <1>1, StartsHere DEF IInv
  <1>4. ~Counts(here) /\ ~SyncStart(here)
    BY <1>2, <1>3, NoStartNoFact
  <1>5. /\ excluded' \subseteq [lot: SaleLots, version: 1..MaxVersions, code: ExclusionCodes]
        /\ excluded \subseteq excluded'
        /\ Excluded(here)'
    BY <1>1, <1>2, ExcludesType DEF RepeatedSale, ExclusionCodes
  <1>6. history' = history /\ facts' = facts /\ seen' = seen /\ episode' = episode
    BY DEF RepeatedSale
  <1>7. Row(at).sale = TRUE /\ episode.inSale = TRUE
    BY <1>1, ReadingType, SaleOrNot, AtType
  <1>9. episode'.inSale = Row(at).sale
    BY <1>6, <1>7, Zenon
  <1>10. /\ episode'.index >= episode.index
         /\ episode' \in [inSale: BOOLEAN, index: Nat]
    BY <1>1, <1>6, AtType DEF SalesTypeOK
  <1>8. /\ episode'.inSale = Row(at).sale
        /\ episode'.index >= episode.index
        /\ episode' \in [inSale: BOOLEAN, index: Nat]
    BY <1>9, <1>10, Zenon
  <1>20. SyncStart(here) => [lot |-> here.lot, index |-> 0] \in seen
    BY <1>1, <1>2, <1>4, <1>5, <1>6, <1>8
  <1>21. Row(here).sale => Excluded(here)'
    BY <1>1, <1>2, <1>4, <1>5, <1>6, <1>8
  <1>22. episode.inSale => (episode'.inSale \/ episode'.index > episode.index)
    BY <1>1, <1>2, <1>4, <1>5, <1>6, <1>8
  <1>23. excluded \subseteq excluded'
    BY <1>1, <1>2, <1>4, <1>5, <1>6, <1>8
  <1> QED
    BY <1>1, <1>2, <1>4, <1>5, <1>6, <1>8, <1>20, <1>21, <1>22, <1>23, ReadNoFact, Zenon

LEMMA OutsideWindowOK == ASSUME IInv, OutsideWindow PROVE IInv'
  <1>1. SalesTypeOK /\ Reading /\ Advance /\ Row(at).sale /\ ~Row(at).inWindow
    BY DEF IInv, OutsideWindow
  <1>2. PICK here \in RowIds : at = here
    BY <1>1, Here
  <1>3. ~Counts(here) /\ ~SyncStart(here)
    BY <1>1, <1>2, NoWindowNoFact
  <1>4. /\ excluded' \subseteq [lot: SaleLots, version: 1..MaxVersions, code: ExclusionCodes]
        /\ excluded \subseteq excluded'
        /\ Excluded(here)'
    BY <1>1, <1>2, ExcludesType DEF OutsideWindow, ExclusionCodes
  <1>5. history' = history /\ facts' = facts /\ seen' = seen
    BY DEF OutsideWindow
  <1>6. Row(at).sale = TRUE
    BY <1>1, ReadingType, SaleOrNot
  <1>7. /\ episode' \in [inSale: BOOLEAN, index: Nat]
        /\ episode'.inSale = TRUE
        /\ episode'.index = episode.index
    BY <1>1, EpisodeKept DEF OutsideWindow
  <1>9. episode'.inSale = Row(at).sale
    BY <1>6, <1>7, Zenon
  <1>10. episode'.index >= episode.index
    BY <1>1, <1>7, AtType
  <1>8. episode'.inSale = Row(at).sale /\ episode'.index >= episode.index
    BY <1>9, <1>10, Zenon
  <1>20. SyncStart(here) => [lot |-> here.lot, index |-> 0] \in seen
    BY <1>1, <1>2, <1>3, <1>4, <1>5, <1>7, <1>8
  <1>21. Row(here).sale => Excluded(here)'
    BY <1>1, <1>2, <1>3, <1>4, <1>5, <1>7, <1>8
  <1>22. episode.inSale => (episode'.inSale \/ episode'.index > episode.index)
    BY <1>1, <1>2, <1>3, <1>4, <1>5, <1>7, <1>8
  <1>23. excluded \subseteq excluded'
    BY <1>1, <1>2, <1>3, <1>4, <1>5, <1>7, <1>8
  <1> QED
    BY <1>1, <1>2, <1>3, <1>4, <1>5, <1>7, <1>8, <1>20, <1>21, <1>22, <1>23, ReadNoFact, Zenon

(* The key of a start is known only if it is a source record that was read. *)
LEMMA KeyOfStart ==
    ASSUME IInv, Reading, Row(at).sale, ~episode.inSale
    PROVE  EventKey(at, episode.index) \in seen <=>
               /\ Row(at).synchronized
               /\ \E r \in RowIds : r.lot = at.lot /\ Read(r) /\ SyncStart(r)
  <1>1. at.lot \in SaleLots /\ episode.index \in Nat /\ at.lot \in Nat
    BY ReadingType, AtType DEF IInv
  <1>2. CASE Row(at).synchronized
    <2>1. EventKey(at, episode.index) = [lot |-> at.lot, index |-> 0]
      BY <1>2 DEF EventKey
    <2> QED
      BY <1>1, <1>2, <2>1 DEF IInv, Keys
  <1>3. CASE ~Row(at).synchronized
    <2>1. EventKey(at, episode.index) = [lot |-> at.lot, index |-> episode.index]
      BY <1>3 DEF EventKey
    <2>2. [lot |-> at.lot, index |-> episode.index] \notin seen
      <3> DEFINE key == [lot |-> at.lot, index |-> episode.index]
      <3>1. key.lot = at.lot /\ key.index = episode.index
        OBVIOUS
      <3> HIDE DEF key
      <3>2. ASSUME key \in seen PROVE FALSE
        <4>1. \/ key.lot < at.lot
              \/ key.lot = at.lot /\ key.index < episode.index
              \/ key.lot = at.lot /\ key.index = episode.index /\ episode.inSale
          BY <3>1, <3>2 DEF IInv, Keys
        <4> QED
          BY <1>1, <3>1, <4>1
      <3> QED
        BY <3>2 DEF key
    <2> QED
      BY <1>3, <2>1, <2>2
  <1> QED
    BY <1>2, <1>3

(* A start in the window counts unless it repeats a source record that was   *)
(* read: what was read of its lot is what is before it.                      *)
LEMMA CountsHere ==
    ASSUME IInv, Reading, Row(at).sale, ~episode.inSale, Row(at).inWindow
    PROVE  Counts(at) <=> EventKey(at, episode.index) \notin seen
  <1>1. SalesTypeOK /\ at.lot \in SaleLots /\ at.version \in 1..MaxVersions /\ Starts(at)
    BY ReadingType, RowType, StartsHere DEF IInv
  <1>2. \A r \in RowIds : r.lot = at.lot => (Read(r) <=> r.version < at.version)
    BY <1>1, AtType, RowIdType DEF Read
  <1>3. (\E r \in RowIds : r.lot = at.lot /\ Read(r) /\ SyncStart(r)) <=>
            \E v \in 1..(at.version - 1) : SyncStart([lot |-> at.lot, version |-> v])
    <2>1. ASSUME NEW r \in RowIds, r.lot = at.lot, Read(r), SyncStart(r)
          PROVE  \E v \in 1..(at.version - 1) : SyncStart([lot |-> at.lot, version |-> v])
      <3>1. r.version \in 1..(at.version - 1)
        BY <1>1, <1>2, <2>1, RowIdType, AtType
      <3>2. r = [lot |-> at.lot, version |-> r.version]
        BY <2>1 DEF RowIds
      <3>3. SyncStart([lot |-> at.lot, version |-> r.version])
        BY <2>1, <3>2, Zenon
      <3> QED
        BY <3>1, <3>3, Zenon
    <2>2. ASSUME NEW v \in 1..(at.version - 1), SyncStart([lot |-> at.lot, version |-> v])
          PROVE  \E r \in RowIds : r.lot = at.lot /\ Read(r) /\ SyncStart(r)
      <3>1. [lot |-> at.lot, version |-> v] \in RowIds
        BY <1>1, MaxVersionsAssumption DEF RowIds
      <3>2. Read([lot |-> at.lot, version |-> v])
        BY <1>1, <1>2, <3>1
      <3> QED
        BY <2>2, <3>1, <3>2
    <2> QED
      BY <2>1, <2>2
  <1>4. Counts(at) <=> (Row(at).synchronized =>
            \A v \in 1..(at.version - 1) : ~SyncStart([lot |-> at.lot, version |-> v]))
    BY <1>1 DEF Counts, SyncStart
  <1> QED
    BY <1>3, <1>4, KeyOfStart

LEMMA KnownEventOK == ASSUME IInv, KnownEvent PROVE IInv'
  <1>1. SalesTypeOK /\ Reading /\ Advance /\ Row(at).sale /\ ~episode.inSale /\ Row(at).inWindow
    BY DEF IInv, KnownEvent
  <1>2. PICK here \in RowIds : at = here
    BY <1>1, Here
  <1>3. ~Counts(here)
    BY <1>1, <1>2, CountsHere DEF KnownEvent
  <1>4. at.lot \in SaleLots
    BY <1>1, ReadingType
  <1>5. [lot |-> here.lot, index |-> 0] \in seen
    BY <1>1, <1>2, <1>4, KeyOfStart DEF KnownEvent, IInv, Keys
  <1>6. /\ excluded' \subseteq [lot: SaleLots, version: 1..MaxVersions, code: ExclusionCodes]
        /\ excluded \subseteq excluded'
        /\ Excluded(here)'
    BY <1>1, <1>2, ExcludesType DEF KnownEvent, ExclusionCodes
  <1>7. history' = history /\ facts' = facts /\ seen' = seen
    BY DEF KnownEvent
  <1>8. Row(at).sale = TRUE
    BY <1>1, ReadingType, SaleOrNot
  <1>9. /\ episode' \in [inSale: BOOLEAN, index: Nat]
        /\ episode'.inSale = TRUE
        /\ episode'.index = episode.index
    BY <1>1, EpisodeKept DEF KnownEvent
  <1>11. episode'.inSale = Row(at).sale
    BY <1>8, <1>9, Zenon
  <1>12. episode'.index >= episode.index
    BY <1>1, <1>9, AtType
  <1>10. episode'.inSale = Row(at).sale /\ episode'.index >= episode.index
    BY <1>11, <1>12, Zenon
  <1>20. SyncStart(here) => [lot |-> here.lot, index |-> 0] \in seen
    BY <1>1, <1>2, <1>3, <1>5, <1>6, <1>7, <1>9, <1>10
  <1>21. Row(here).sale => Excluded(here)'
    BY <1>1, <1>2, <1>3, <1>5, <1>6, <1>7, <1>9, <1>10
  <1>22. episode.inSale => (episode'.inSale \/ episode'.index > episode.index)
    BY <1>1, <1>2, <1>3, <1>5, <1>6, <1>7, <1>9, <1>10
  <1>23. excluded \subseteq excluded'
    BY <1>1, <1>2, <1>3, <1>5, <1>6, <1>7, <1>9, <1>10
  <1> QED
    BY <1>1, <1>2, <1>3, <1>5, <1>6, <1>7, <1>9, <1>10, <1>20, <1>21, <1>22, <1>23, ReadNoFact, Zenon

(* A new fact is a start in the window that counts. *)
LEMMA NewFactOK == ASSUME IInv, NewFact PROVE IInv'
  <1>1. SalesTypeOK /\ Reading /\ Advance /\ Row(at).sale /\ ~episode.inSale /\ Row(at).inWindow
    BY DEF IInv, NewFact
  <1>2. PICK here \in RowIds : at = here
    BY <1>1, Here
  <1>3. Counts(here)
    BY <1>1, <1>2, CountsHere DEF NewFact
  <1>4. Starts(here) /\ Row(here).inWindow
    BY <1>3 DEF Counts
  <1>5. history' = history /\ facts' = facts \cup {here}
    BY <1>2 DEF NewFact
  <1>6. /\ excluded' \subseteq [lot: SaleLots, version: 1..MaxVersions, code: ExclusionCodes]
        /\ excluded \subseteq excluded'
    <2>1. CASE excluded' = excluded
      BY <1>1, <2>1 DEF SalesTypeOK
    <2>2. CASE Excludes("QUANTITY_PROVENANCE_UNCONFIRMED")
      BY <1>1, <1>2, <2>2, ExcludesType DEF ExclusionCodes
    <2> QED
      BY <2>1, <2>2 DEF NewFact
  <1>7. /\ episode' \in [inSale: BOOLEAN, index: Nat]
        /\ episode'.inSale = TRUE
        /\ episode'.index = episode.index
    BY <1>1, EpisodeKept DEF NewFact
  <1>8. Row(at).sale = TRUE
    BY <1>1, ReadingType, SaleOrNot
  <1>9. episode'.inSale = Row(at).sale
    BY <1>7, <1>8, Zenon
  <1>10. Place'
    BY <1>1, <1>5, <1>9, PlaceAdvance
  <1>11. \A r \in RowIds : Read(r)' <=> Read(r) \/ r = here
    BY <1>1, <1>2, AdvanceRead
  <1>12. at'.lot = at.lot /\ at.lot = here.lot /\ at.lot \in SaleLots
    BY <1>1, <1>2, AdvanceRead, ReadingType
  <1>13. FactsRight'
    <2>1. \A r \in RowIds : r \in facts <=> Read(r) /\ Counts(r)
      BY DEF IInv, FactsRight
    <2>2. \A r \in RowIds : Counts(r)' = Counts(r)
      BY <1>5, Steady
    <2> QED
      BY <1>3, <1>5, <1>11, <2>1, <2>2 DEF FactsRight
  <1>14. OthersExcluded'
    <2>1. SUFFICES ASSUME NEW r \in RowIds, Read(r)', Candidate(r.lot),
                          r.version \in DOMAIN history[r.lot], Row(r).sale
                   PROVE  r \in facts' \/ Excluded(r)'
      <3>1. \A r \in RowIds : Row(r)' = Row(r) /\ Candidate(r.lot)' = Candidate(r.lot)
        BY <1>5, Steady, SteadyCandidate
      <3> QED
        BY <1>5, <3>1 DEF OthersExcluded
    <2>2. CASE r = here
      BY <1>5, <2>2
    <2>3. CASE Read(r)
      <3>1. r \in facts \/ Excluded(r)
        BY <2>1, <2>3 DEF IInv, OthersExcluded
      <3> QED
        BY <1>5, <1>6, <3>1, ExcludedGrows
    <2> QED
      BY <1>11, <2>1, <2>2, <2>3
  <1>15. seen' = seen \cup {EventKey(at, episode.index)}
    BY DEF NewFact
  <1>16. episode.index \in Nat /\ episode.index >= 1 /\ at.lot \in Nat
    BY <1>1, AtType DEF IInv
  <1>17. EventKey(at, episode.index) =
             [lot |-> here.lot, index |-> IF Row(here).synchronized THEN 0 ELSE episode.index]
    BY <1>2 DEF EventKey
  <1> DEFINE key == [lot |-> here.lot,
                     index |-> IF Row(here).synchronized THEN 0 ELSE episode.index]
  <1>18. /\ seen' = seen \cup {key}
         /\ key.lot = here.lot
         /\ key.index = IF Row(here).synchronized THEN 0 ELSE episode.index
         /\ key \in [lot: SaleLots, index: Nat]
    BY <1>12, <1>15, <1>16, <1>17
  <1>19. \A l : [lot |-> l, index |-> 0] = key <=> l = here.lot /\ Row(here).synchronized
    BY <1>16
  <1> HIDE DEF key
  <1>20. SyncStart(here) <=> Row(here).synchronized
    BY <1>4 DEF SyncStart
  <1>21. ASSUME NEW l \in SaleLots
         PROVE  [lot |-> l, index |-> 0] \in seen' <=>
                    \E r \in RowIds : r.lot = l /\ Read(r)' /\ SyncStart(r)
    <2>1. [lot |-> l, index |-> 0] \in seen <=>
              \E r \in RowIds : r.lot = l /\ Read(r) /\ SyncStart(r)
      BY DEF IInv, Keys
    <2>2. (\E r \in RowIds : r.lot = l /\ Read(r)' /\ SyncStart(r)) <=>
              \/ \E r \in RowIds : r.lot = l /\ Read(r) /\ SyncStart(r)
              \/ l = here.lot /\ Row(here).synchronized
      BY <1>11, <1>20
    <2> QED
      BY <1>18, <1>19, <2>1, <2>2
  <1>22. ASSUME NEW k \in seen', k.index >= 1
         PROVE  \/ k.lot < at.lot
                \/ k.lot = at.lot /\ k.index < episode'.index
                \/ k.lot = at.lot /\ k.index = episode'.index /\ episode'.inSale
    <2>1. CASE k = key
      BY <1>7, <1>12, <1>18, <1>22, <2>1
    <2>2. CASE k \in seen
      <3>1. \/ k.lot < at.lot
            \/ k.lot = at.lot /\ k.index < episode.index
            \/ k.lot = at.lot /\ k.index = episode.index /\ episode.inSale
        BY <1>22, <2>2 DEF IInv, Keys
      <3> QED
        BY <1>7, <3>1
    <2> QED
      BY <1>18, <2>1, <2>2
  <1>23. Keys'
    BY <1>5, <1>12, <1>21, <1>22, Steady DEF Keys
  <1>24. SalesTypeOK'
    <2>1. facts' \subseteq RowIds
      BY <1>1, <1>5 DEF SalesTypeOK
    <2>2. seen' \subseteq [lot: SaleLots, index: Nat]
      BY <1>1, <1>18 DEF SalesTypeOK
    <2> QED
      BY <1>1, <1>5, <1>6, <1>7, <2>1, <2>2, TypeAdvance DEF SalesTypeOK
  <1>25. episode'.index >= 1
    BY <1>7, <1>16
  <1> QED
    BY <1>10, <1>13, <1>14, <1>23, <1>24, <1>25 DEF IInv

(* A row of the lot the loop leaves is read, or belongs to no candidate, or  *)
(* is not there.                                                             *)
LEMMA LeftRow ==
    ASSUME SalesTypeOK, NextLot, NEW r \in RowIds, r.lot = at.lot, ~Read(r)
    PROVE  ~Candidate(r.lot) \/ r.version \notin DOMAIN history[r.lot]
  <1>1. at.version \in Nat /\ at.version >= 1 /\ at.lot \in SaleLots
    BY AtType DEF NextLot
  <1>2. r.version \in Nat /\ r.version >= at.version
    BY <1>1, RowIdType DEF Read
  <1>3. CASE at.version \notin DOMAIN history[at.lot]
    BY <1>1, <1>2, <1>3, PastTheEnd
  <1>4. CASE ~Candidate(at.lot)
    BY <1>4
  <1> QED
    BY <1>1, <1>3, <1>4 DEF NextLot, Reading

LEMMA NoCandidateNoStart ==
    ASSUME NEW r, ~Candidate(r.lot) \/ r.version \notin DOMAIN history[r.lot]
    PROVE  ~(Starts(r) /\ Row(r).inWindow)
  BY DEF Candidate, Starts, Row

LEMMA NextLotOK == ASSUME IInv, NextLot PROVE IInv'
  <1>1. SalesTypeOK /\ at.lot \in SaleLots /\ at.lot \in Nat
    BY AtType DEF IInv, NextLot
  <1>2. at' = [lot |-> at.lot + 1, version |-> 1] /\ episode' = [inSale |-> FALSE, index |-> 1]
    BY DEF NextLot, NewEpisode
  <1>3. /\ at'.lot = at.lot + 1 /\ at'.version = 1
        /\ episode'.inSale = FALSE /\ episode'.index = 1
    BY <1>2
  <1>4. history' = history /\ seen' = seen /\ facts' = facts /\ excluded' = excluded
    BY DEF NextLot
  <1>5. ASSUME NEW r \in RowIds PROVE Read(r)' <=> Read(r) \/ r.lot = at.lot
    <2>1. Read(r)' <=> r.lot < at.lot + 1 \/ (r.lot = at.lot + 1 /\ r.version < 1)
      BY <1>3 DEF Read
    <2> QED
      BY <1>1, <2>1, RowIdType DEF Read
  <1>6. ASSUME NEW r \in RowIds, Read(r)', Starts(r), Row(r).inWindow PROVE Read(r)
    BY <1>1, <1>5, <1>6, LeftRow, NoCandidateNoStart
  <1>7. \A r \in RowIds : Read(r) => Read(r)'
    BY <1>5
  <1>8. \A r \in RowIds : /\ Row(r)' = Row(r) /\ Candidate(r.lot)' = Candidate(r.lot)
                          /\ Counts(r)' = Counts(r) /\ SyncStart(r)' = SyncStart(r)
    BY <1>4, Steady, SteadyCandidate
  <1>9. FactsRight'
    <2>1. \A r \in RowIds : r \in facts <=> Read(r) /\ Counts(r)
      BY DEF IInv, FactsRight
    <2>2. \A r \in RowIds : Counts(r) => Starts(r) /\ Row(r).inWindow
      BY DEF Counts
    <2> QED
      BY <1>4, <1>6, <1>7, <1>8, <2>1, <2>2 DEF FactsRight
  <1>10. OthersExcluded'
    <2>1. SUFFICES ASSUME NEW r \in RowIds, Read(r)', Candidate(r.lot),
                          r.version \in DOMAIN history[r.lot], Row(r).sale
                   PROVE  r \in facts \/ Excluded(r)'
      BY <1>4, <1>8 DEF OthersExcluded
    <2>2. Read(r)
      BY <1>1, <1>5, <2>1, LeftRow
    <2>3. r \in facts \/ Excluded(r)
      BY <2>1, <2>2 DEF IInv, OthersExcluded
    <2> QED
      BY <1>4, <2>3, ExcludedGrows
  <1>11. ASSUME NEW l \in SaleLots
         PROVE  [lot |-> l, index |-> 0] \in seen <=>
                    \E r \in RowIds : r.lot = l /\ Read(r)' /\ SyncStart(r)
    <2>1. [lot |-> l, index |-> 0] \in seen <=>
              \E r \in RowIds : r.lot = l /\ Read(r) /\ SyncStart(r)
      BY DEF IInv, Keys
    <2>2. \A r \in RowIds : SyncStart(r) => Starts(r) /\ Row(r).inWindow
      BY DEF SyncStart
    <2> QED
      BY <1>6, <1>7, <2>1, <2>2
  <1>12. ASSUME NEW k \in seen, k.index >= 1 PROVE k.lot < at.lot + 1
    <2>1. k.lot \in Nat
      BY <1>1, LotCountAssumption DEF SalesTypeOK, SaleLots
    <2>2. \/ k.lot < at.lot
          \/ k.lot = at.lot /\ k.index < episode.index
          \/ k.lot = at.lot /\ k.index = episode.index /\ episode.inSale
      BY <1>12 DEF IInv, Keys
    <2> QED
      BY <1>1, <2>1, <2>2
  <1>13. Keys'
    BY <1>3, <1>4, <1>8, <1>11, <1>12 DEF Keys
  <1>14. Place'
    BY <1>3 DEF Place
  <1>15. SalesTypeOK'
    <2>1. at' \in [lot: 1..(LotCount + 1), version: 1..(MaxVersions + 1)]
      BY <1>1, <1>2, LotCountAssumption, MaxVersionsAssumption DEF SaleLots
    <2> QED
      BY <1>1, <1>2, <1>4, <2>1 DEF SalesTypeOK
  <1> QED
    BY <1>3, <1>9, <1>10, <1>13, <1>14, <1>15 DEF IInv
-----------------------------------------------------------------------------
LEMMA InitInv == SalesInit => IInv
  <1> SUFFICES ASSUME SalesInit PROVE IInv
    OBVIOUS
  <1>1. /\ at = [lot |-> 1, version |-> 1] /\ episode = [inSale |-> FALSE, index |-> 1]
        /\ seen = {} /\ facts = {} /\ excluded = {}
    BY DEF SalesInit, NewEpisode
  <1>2. SalesTypeOK
    <2>1. at \in [lot: 1..(LotCount + 1), version: 1..(MaxVersions + 1)]
      BY <1>1, LotCountAssumption, MaxVersionsAssumption
    <2> QED
      BY <1>1, <2>1 DEF SalesInit, SalesTypeOK
  <1>3. ASSUME NEW r \in RowIds PROVE ~Read(r)
    <2>1. at.lot = 1 /\ at.version = 1
      BY <1>1
    <2>2. r.lot \in Nat /\ r.lot >= 1 /\ r.version \in Nat /\ r.version >= 1
      BY RowIdType, LotCountAssumption DEF SaleLots
    <2> QED
      BY <2>1, <2>2 DEF Read
  <1>4. Place /\ episode.index >= 1
    BY <1>1 DEF Place
  <1>5. Keys
    BY <1>1, <1>3 DEF Keys
  <1>6. FactsRight /\ OthersExcluded
    BY <1>1, <1>3 DEF FactsRight, OthersExcluded
  <1> QED
    BY <1>2, <1>4, <1>5, <1>6 DEF IInv

LEMMA StutterInv == ASSUME IInv, UNCHANGED saleVars PROVE IInv'
  <1>1. /\ history' = history /\ at' = at /\ episode' = episode /\ seen' = seen
        /\ facts' = facts /\ excluded' = excluded
    BY DEF saleVars
  <1>2. SalesTypeOK' /\ episode'.index >= 1 /\ Place'
    BY <1>1 DEF IInv, SalesTypeOK, Place, Candidate
  <1>3. \A r : Read(r)' = Read(r) /\ Excluded(r)' = Excluded(r)
    BY <1>1 DEF Read, Excluded
  <1>4. Keys'
    BY <1>1, <1>3, Steady DEF IInv, Keys
  <1>5. FactsRight'
    BY <1>1, <1>3, Steady DEF IInv, FactsRight
  <1>6. OthersExcluded'
    BY <1>1, <1>3, Steady, SteadyCandidate DEF IInv, OthersExcluded
  <1> QED
    BY <1>2, <1>4, <1>5, <1>6 DEF IInv

LEMMA NextInv == IInv /\ [SalesNext]_saleVars => IInv'
  BY NextLotOK, EndEpisodeOK, RepeatedSaleOK, OutsideWindowOK, KnownEventOK, NewFactOK, StutterInv
     DEF SalesNext

LEMMA InvImplies == IInv => SalesAreEpisodes
  <1> SUFFICES ASSUME IInv PROVE SalesAreEpisodes
    OBVIOUS
  <1>1. facts \subseteq RowIds
    BY DEF IInv, SalesTypeOK
  <1>2. facts = {r \in RowIds : Read(r) /\ Counts(r)}
    BY <1>1 DEF IInv, FactsRight
  <1>3. ASSUME NEW r \in RowIds \ facts, Read(r), Candidate(r.lot),
               r.version \in DOMAIN history[r.lot], Row(r).sale
        PROVE  Excluded(r)
    BY <1>3 DEF IInv, OthersExcluded
  <1> QED
    BY <1>2, <1>3 DEF SalesAreEpisodes, Excluded

(* The sale facts of a demand calculation are the sale episodes that start   *)
(* in the window, once each, and every other sale that was read is excluded. *)
THEOREM SalesCounted == SalesSpec => []SalesAreEpisodes
  BY InitInv, NextInv, InvImplies, PTL DEF SalesSpec

-----------------------------------------------------------------------------
(* Sums of functions over finite sets.  Induction is by a smallest           *)
(* counterexample: the subsets of a finite set are well-founded.             *)

Some(s) == CHOOSE x \in s : TRUE

(* The iteration SumFunctionOnSet is defined by, as an equation.             *)
Iterates(g, f, S) ==
    g = [s \in SUBSET S |-> IF s = {} THEN 0 ELSE f[Some(s)] + g[s \ {Some(s)}]]

(* Induction over a finite set, without an induction formula.                *)
LEMMA SmallestSet ==
  ASSUME NEW S, IsFiniteSet(S), NEW C, C \subseteq SUBSET S, C # {}
  PROVE  \E s \in C : \A t \in C : t \subseteq s => t = s
<1>1. C \subseteq FiniteSubsetsOf(S) BY FS_Subset DEF FiniteSubsetsOf
<1>2. \E s \in C : \A t \in C : <<t, s>> \notin StrictSubsetOrdering(S)
  BY <1>1, FS_StrictSubsetOrderingWellFounded, WFMin
<1> QED BY <1>1, <1>2 DEF StrictSubsetOrdering

LEMMA SumIsIteration ==
  ASSUME NEW f, NEW S
  PROVE  SumFunctionOnSet(f, S) = (CHOOSE g : Iterates(g, f, S))[S]
  BY DEF SumFunctionOnSet, FoldFunctionOnSet, MapThenFoldSet, Iterates, Some

LEMMA SomeIsMember == ASSUME NEW s, s # {} PROVE Some(s) \in s
  BY DEF Some

LEMMA IterationAt ==
  ASSUME NEW g, NEW f, NEW S, Iterates(g, f, S), NEW s \in SUBSET S
  PROVE  g[s] = IF s = {} THEN 0 ELSE f[Some(s)] + g[s \ {Some(s)}]
<1> DEFINE body(t) == IF t = {} THEN 0 ELSE f[Some(t)] + g[t \ {Some(t)}]
<1>1. g = [t \in SUBSET S |-> body(t)] BY DEF Iterates
<1> HIDE DEF body
<1>2. g[s] = body(s) BY <1>1
<1> QED BY <1>2 DEF body

LEMMA OneIteration ==
  ASSUME NEW f, NEW S, NEW T, IsFiniteSet(S), NEW g, NEW h,
         Iterates(g, f, S), Iterates(h, f, T), NEW s \in SUBSET S, s \in SUBSET T
  PROVE  g[s] = h[s]
<1> DEFINE C == {t \in SUBSET S : t \in SUBSET T /\ g[t] # h[t]}
<1> SUFFICES ASSUME NEW w \in C PROVE FALSE OBVIOUS
<1>0. C \subseteq SUBSET S /\ C # {} OBVIOUS
<1>1. PICK t \in C : \A u \in C : u \subseteq t => u = t
  <2> HIDE DEF C
  <2> QED BY <1>0, SmallestSet
<1>2. t # {} BY <1>1, IterationAt
<1>3. t \ {Some(t)} \notin C BY <1>1, <1>2, SomeIsMember
<1>4. g[t \ {Some(t)}] = h[t \ {Some(t)}] BY <1>1, <1>3
<1> QED BY <1>1, <1>2, <1>4, IterationAt

LEMMA IterationOfSum ==
  ASSUME NEW f, NEW S, IsFiniteSet(S), NEW g, Iterates(g, f, S)
  PROVE  SumFunctionOnSet(f, S) = g[S]
<1>1. PICK h : h = CHOOSE k : Iterates(k, f, S) OBVIOUS
<1>2. Iterates(h, f, S) BY <1>1
<1> QED BY <1>1, <1>2, SumIsIteration, OneIteration

LEMMA IterationExists ==
  ASSUME NEW f, NEW S, IsFiniteSet(S)
  PROVE  \E g : Iterates(g, f, S)
<1> DEFINE C == {t \in SUBSET S : \A g : ~Iterates(g, f, t)}
<1> SUFFICES ASSUME NEW w \in C PROVE FALSE OBVIOUS
<1>0. C \subseteq SUBSET S /\ C # {} OBVIOUS
<1>1. PICK s \in C : \A u \in C : u \subseteq s => u = s
  <2> HIDE DEF C
  <2> QED BY <1>0, SmallestSet
<1> DEFINE term(u) == IF u = {} THEN 0 ELSE f[Some(u)] + SumFunctionOnSet(f, u \ {Some(u)})
           g == [u \in SUBSET s |-> term(u)]
<1>2. \A u \in SUBSET S : IsFiniteSet(u) BY FS_Subset
<1>3. ASSUME NEW u \in SUBSET s, u # s
      PROVE  SumFunctionOnSet(f, u) = term(u)
  <2>1. u \in SUBSET S /\ u \notin C BY <1>1, <1>3
  <2>2. PICK h : Iterates(h, f, u) BY <2>1
  <2>3. SumFunctionOnSet(f, u) = h[u] BY <2>1, <2>2, <1>2, IterationOfSum
  <2>4. CASE u = {} BY <2>2, <2>3, <2>4, IterationAt
  <2>5. CASE u # {}
    <3>1. PICK v : v = u \ {Some(u)} OBVIOUS
    <3>2. v \in SUBSET u /\ v # u /\ v # s BY <3>1, <2>5, SomeIsMember
    <3>3. v \in SUBSET S /\ v \notin C BY <3>2, <1>1, <2>1
    <3>4. PICK k : Iterates(k, f, v) BY <3>3
    <3>5. h[v] = k[v] BY <2>2, <3>2, <3>4, <1>2, <2>1, OneIteration
    <3>6. SumFunctionOnSet(f, v) = k[v] BY <3>3, <3>4, <1>2, IterationOfSum
    <3> QED BY <2>2, <2>3, <2>5, <3>1, <3>5, <3>6, IterationAt
  <2> QED BY <2>4, <2>5
<1>4. ASSUME NEW u \in SUBSET s
      PROVE  term(u) = IF u = {} THEN 0 ELSE f[Some(u)] + g[u \ {Some(u)}]
  <2>1. CASE u = {} BY <2>1
  <2>2. CASE u # {}
    <3>1. PICK v : v = u \ {Some(u)} OBVIOUS
    <3>2. v \in SUBSET s /\ v # s BY <3>1, <2>2, SomeIsMember
    <3>3. g[v] = SumFunctionOnSet(f, v)
      <4> HIDE DEF term
      <4> QED BY <3>2, <1>3
    <3> QED BY <2>2, <3>1, <3>3
  <2> QED BY <2>1, <2>2
<1>5. Iterates(g, f, s)
  <2> HIDE DEF term
  <2> QED BY <1>4 DEF Iterates
<1> QED BY <1>1, <1>5

(* The equation of the definition holds.                                     *)
LEMMA SumStep ==
  ASSUME NEW f, NEW S, IsFiniteSet(S)
  PROVE  SumFunctionOnSet(f, S) =
           IF S = {} THEN 0 ELSE f[Some(S)] + SumFunctionOnSet(f, S \ {Some(S)})
<1>1. PICK g : Iterates(g, f, S) BY IterationExists
<1>2. SumFunctionOnSet(f, S) = g[S] BY <1>1, IterationOfSum
<1>3. CASE S = {} BY <1>1, <1>2, <1>3, IterationAt
<1>4. CASE S # {}
  <2>1. PICK v : v = S \ {Some(S)} OBVIOUS
  <2>2. IsFiniteSet(v) /\ v \in SUBSET S BY <2>1, FS_Subset
  <2>3. PICK h : Iterates(h, f, v) BY <2>2, IterationExists
  <2>4. SumFunctionOnSet(f, v) = h[v] BY <2>2, <2>3, IterationOfSum
  <2>5. h[v] = g[v] BY <1>1, <2>2, <2>3, OneIteration
  <2> QED BY <1>1, <1>2, <1>4, <2>1, <2>4, <2>5, IterationAt
<1> QED BY <1>3, <1>4

LEMMA SumOfNone ==
  ASSUME NEW f
  PROVE  SumFunctionOnSet(f, {}) = 0
  BY SumStep, FS_EmptySet

LEMMA SumType ==
  ASSUME NEW f, NEW S, IsFiniteSet(S), \A x \in S : f[x] \in Int
  PROVE  SumFunctionOnSet(f, S) \in Int
<1> DEFINE C == {s \in SUBSET S : SumFunctionOnSet(f, s) \notin Int}
<1> SUFFICES ASSUME NEW w \in C PROVE FALSE OBVIOUS
<1>0. C \subseteq SUBSET S /\ C # {} OBVIOUS
<1>1. PICK s \in C : \A u \in C : u \subseteq s => u = s
  <2> HIDE DEF C
  <2> QED BY <1>0, SmallestSet
<1>2. IsFiniteSet(s) BY <1>1, FS_Subset
<1>3. s # {} BY <1>1, SumOfNone
<1>4. Some(s) \in s BY <1>3, SomeIsMember
<1>5. s \ {Some(s)} \in SUBSET S /\ s \ {Some(s)} \notin C BY <1>1, <1>4
<1>6. SumFunctionOnSet(f, s \ {Some(s)}) \in Int BY <1>5
<1>7. f[Some(s)] \in Int BY <1>1, <1>4
<1> QED BY <1>1, <1>2, <1>3, <1>6, <1>7, SumStep

(* The order of the elements does not matter.                                *)
LEMMA SumRemove ==
  ASSUME NEW f, NEW S, IsFiniteSet(S), \A x \in S : f[x] \in Int, NEW y \in S
  PROVE  SumFunctionOnSet(f, S) = f[y] + SumFunctionOnSet(f, S \ {y})
<1> DEFINE Wrong(s) == \E x \in s : SumFunctionOnSet(f, s) # f[x] + SumFunctionOnSet(f, s \ {x})
           C == {s \in SUBSET S : Wrong(s)}
<1> SUFFICES ASSUME NEW w \in C PROVE FALSE OBVIOUS
<1>0. C \subseteq SUBSET S /\ C # {} OBVIOUS
<1>1. PICK s \in C : \A u \in C : u \subseteq s => u = s
  <2> HIDE DEF C
  <2> QED BY <1>0, SmallestSet
<1>2. PICK x \in s : SumFunctionOnSet(f, s) # f[x] + SumFunctionOnSet(f, s \ {x}) BY <1>1
<1>3. PICK c : c = Some(s) OBVIOUS
<1>4. c \in s BY <1>2, <1>3, SomeIsMember
<1>5. \A u \in SUBSET S : IsFiniteSet(u) /\ SumFunctionOnSet(f, u) \in Int BY FS_Subset, SumType
<1>6. SumFunctionOnSet(f, s) = f[c] + SumFunctionOnSet(f, s \ {c})
  BY <1>1, <1>2, <1>3, <1>5, SumStep
<1>7. c # x BY <1>2, <1>6
<1>8. s \ {c} \in SUBSET S /\ s \ {c} \notin C /\ s \ {x} \in SUBSET S /\ s \ {x} \notin C
  BY <1>1, <1>2, <1>4
<1>9. /\ SumFunctionOnSet(f, s \ {c}) = f[x] + SumFunctionOnSet(f, (s \ {c}) \ {x})
      /\ SumFunctionOnSet(f, s \ {x}) = f[c] + SumFunctionOnSet(f, (s \ {x}) \ {c})
  BY <1>2, <1>4, <1>7, <1>8
<1>10. (s \ {c}) \ {x} = (s \ {x}) \ {c} OBVIOUS
<1>11. SumFunctionOnSet(f, (s \ {c}) \ {x}) \in Int /\ f[c] \in Int /\ f[x] \in Int
  BY <1>1, <1>2, <1>4, <1>5
<1>12. PICK a \in Int : a = SumFunctionOnSet(f, (s \ {c}) \ {x}) BY <1>11
<1>13. f[c] + (f[x] + a) = f[x] + (f[c] + a) BY <1>11, <1>12
<1>14. SumFunctionOnSet(f, s) = f[c] + (f[x] + a) BY <1>6, <1>9, <1>12
<1>15. SumFunctionOnSet(f, s \ {x}) = f[c] + a BY <1>9, <1>10, <1>12
<1> HIDE DEF C
<1> QED BY <1>2, <1>13, <1>14, <1>15

LEMMA SumSame ==
  ASSUME NEW f, NEW g, NEW S, IsFiniteSet(S), \A x \in S : f[x] = g[x]
  PROVE  SumFunctionOnSet(f, S) = SumFunctionOnSet(g, S)
<1> DEFINE C == {s \in SUBSET S : SumFunctionOnSet(f, s) # SumFunctionOnSet(g, s)}
<1> SUFFICES ASSUME NEW w \in C PROVE FALSE OBVIOUS
<1>0. C \subseteq SUBSET S /\ C # {} OBVIOUS
<1>1. PICK s \in C : \A u \in C : u \subseteq s => u = s
  <2> HIDE DEF C
  <2> QED BY <1>0, SmallestSet
<1>2. IsFiniteSet(s) BY <1>1, FS_Subset
<1>3. s # {} BY <1>1, SumOfNone
<1>4. Some(s) \in s BY <1>3, SomeIsMember
<1>5. s \ {Some(s)} \in SUBSET S /\ s \ {Some(s)} \notin C BY <1>1, <1>4
<1>6. SumFunctionOnSet(f, s \ {Some(s)}) = SumFunctionOnSet(g, s \ {Some(s)}) BY <1>5
<1>7. f[Some(s)] = g[Some(s)] BY <1>1, <1>4
<1> QED BY <1>1, <1>2, <1>3, <1>6, <1>7, SumStep

(* Elements that add nothing. *)
LEMMA SumOfZeros ==
  ASSUME NEW f, NEW S, IsFiniteSet(S), NEW T \in SUBSET S,
         \A x \in S : f[x] \in Int, \A x \in S \ T : f[x] = 0
  PROVE  SumFunctionOnSet(f, S) = SumFunctionOnSet(f, T)
<1> DEFINE C == {s \in SUBSET S : T \subseteq s /\ SumFunctionOnSet(f, s) # SumFunctionOnSet(f, T)}
<1> SUFFICES ASSUME NEW w \in C PROVE FALSE OBVIOUS
<1>0. C \subseteq SUBSET S /\ C # {} OBVIOUS
<1>1. PICK s \in C : \A u \in C : u \subseteq s => u = s
  <2> HIDE DEF C
  <2> QED BY <1>0, SmallestSet
<1>2. IsFiniteSet(s) BY <1>1, FS_Subset
<1>3. PICK x \in s : x \notin T
  <2>1. s # T /\ T \subseteq s BY <1>1
  <2> QED BY <2>1
<1>4. s \ {x} \in SUBSET S /\ s \ {x} \notin C /\ T \subseteq s \ {x} BY <1>1, <1>3
<1>5. SumFunctionOnSet(f, s \ {x}) = SumFunctionOnSet(f, T) BY <1>4
<1>6. SumFunctionOnSet(f, s) = f[x] + SumFunctionOnSet(f, s \ {x})
  BY <1>1, <1>2, SumRemove
<1>7. SumFunctionOnSet(f, s \ {x}) \in Int BY <1>4, FS_Subset, SumType
<1>8. f[x] = 0 BY <1>1, <1>3
<1> QED BY <1>1, <1>5, <1>6, <1>7, <1>8

-----------------------------------------------------------------------------
(* The figures.                                                              *)

(* Traces hold figures of known categories; what is left was read.           *)
Figures == [sales : Nat, available : Nat, memo : Nat, reserved : Nat, blocked : Nat,
            coverage : Nat, unallocated : Nat, review : BOOLEAN]

FinalStatuses == {"COMPLETED", "REVIEW_REQUIRED"}

TraceOK ==
    /\ IsFiniteSet(DOMAIN trace)
    /\ \A k \in DOMAIN trace : k.band # NoBand /\ trace[k] \in Figures

InputOK ==
    /\ input \in Rows /\ left \in Rows
    /\ IsFiniteSet(input.stock) /\ IsFiniteSet(input.wip)
    /\ left.sales \subseteq input.sales /\ left.removed \subseteq input.removed
    /\ left.stock \subseteq input.stock /\ left.wip \subseteq input.wip

FiguresTypeOK ==
    /\ TraceOK
    /\ InputOK
    /\ ambiguous \in Nat
    /\ status \in {"RUNNING"} \cup FinalStatuses
    /\ Finished => left.stock = {} /\ left.wip = {} /\ left.sales = {} /\ left.removed = {}

LEMMA NoFiguresType == NoFigures \in Figures
<1> USE DEF NoFigures, Figures
<1>1. PICK b \in BOOLEAN : b = FALSE OBVIOUS
<1> QED BY <1>1

LEMMA TraceOfType ==
  ASSUME FiguresTypeOK, NEW k
  PROVE  TraceOf(k) \in Figures
  BY NoFiguresType DEF FiguresTypeOK, TraceOK, TraceOf

LEMMA PiecesType ==
  ASSUME NEW q \in Quantity
  PROVE  /\ Pieces(q) \in Nat \cup {None}
         /\ Pieces(q) # None => Pieces(q) > 0
<1> DEFINE n == q.raw.tenths
<1>1. n \in Int /\ q.raw \in RawValue BY DEF Quantity, RawValue
<1>2. CASE Provenance(q) \notin Countable BY <1>2 DEF Pieces, None
<1>3. CASE Provenance(q) \in Countable
  <2>1. n > 0 /\ Whole(q.raw)
    BY <1>1, <1>3
       DEF Provenance, Countable, Provenances, Numeric, QuantityState, Whole
  <2>2. n \div 10 \in Nat /\ n \div 10 > 0 BY <1>1, <2>1, Z3 DEF Whole
  <2> QED BY <1>3, <2>2 DEF Pieces, None
<1> QED BY <1>2, <1>3

(* The query and the code count the same pieces.                             *)
LEMMA SqlAgrees ==
  ASSUME NEW q \in Quantity
  PROVE  PiecesInSql(q) = Pieces(q)
<1> DEFINE n == q.raw.tenths
<1>1. n \in Int /\ q.raw \in RawValue /\ q.stored \in Provenances \cup {NotStored} /\ q.fixture \in BOOLEAN
  BY DEF Quantity, RawValue
<1>2. CASE q.stored \in Countable
  BY <1>1, <1>2 DEF PiecesInSql, WholePositive, Pieces, Provenance, Countable, Provenances, Numeric,
    QuantityState, Whole, RawValue, NotStored
<1>3. CASE q.stored \in Provenances \ Countable
  BY <1>1, <1>3 DEF PiecesInSql, WholePositive, Pieces, Provenance, Countable, Provenances, NotStored
<1>4. CASE q.stored = NotStored
  BY <1>1, <1>4 DEF PiecesInSql, WholePositive, Pieces, Provenance, Countable, Provenances, Numeric,
    QuantityState, Whole, RawValue, NotStored
<1> QED BY <1>1, <1>2, <1>3, <1>4
(* A filter selects the state that is shown.                                 *)
LEMMA QueriesAgree ==
  ASSUME NEW m \in Figures
  PROVE  /\ \A state \in StockoutStates : Where(m, state) <=> StockoutState(m) = state
         /\ \A state \in {"REVIEW_REQUIRED", "BELOW_TARGET", "AT_TARGET"} :
               ExcessWhere(m, state) <=> ExcessState(m) = state
<1>1. m.sales \in Nat /\ m.available \in Nat /\ m.review \in BOOLEAN BY DEF Figures
<1>2. PICK target \in Nat : target = Target(m)
  <2>1. (4 * m.sales + 3) \div 6 \in Nat BY <1>1, Z3
  <2> QED BY <2>1 DEF Target
<1>3. /\ Shortage(m) = IF target > m.available THEN target - m.available ELSE 0
      /\ Excess(m) = IF m.available > target THEN m.available - target ELSE 0
  BY <1>2 DEF Shortage, Excess, Surplus
<1>4. PICK on, short, over, flag :
         /\ on = m.available /\ short = Shortage(m) /\ over = Excess(m) /\ flag = m.review
  OBVIOUS
<1>5. /\ on \in Nat /\ target \in Nat /\ short \in Nat /\ over \in Nat /\ flag \in BOOLEAN
      /\ short > 0 <=> target > on
      /\ over > 0 <=> on > target
  BY <1>1, <1>3, <1>4
<1>6. ASSUME NEW state \in StockoutStates
      PROVE  Where(m, state) <=> StockoutState(m) = state
  <2>1. StockoutState(m) =
          IF flag THEN "REVIEW_REQUIRED"
          ELSE IF target > 0 /\ on = 0 THEN "OUT_OF_STOCK"
          ELSE IF short > 0 THEN "SHORTAGE"
          ELSE IF over > 0 THEN "EXCESS"
          ELSE "COVERED"
    BY <1>2, <1>4 DEF StockoutState
  <2>2. CASE state = "REVIEW_REQUIRED" BY <1>4, <2>1, <2>2 DEF Where
  <2>3. CASE state = "OUT_OF_STOCK" BY <1>2, <1>4, <1>5, <2>1, <2>3 DEF Where
  <2>4. CASE state = "SHORTAGE" BY <1>4, <1>5, <2>1, <2>4 DEF Where
  <2>5. CASE state = "EXCESS" BY <1>4, <1>5, <2>1, <2>5 DEF Where
  <2>6. CASE state = "COVERED" BY <1>4, <1>5, <2>1, <2>6 DEF Where
  <2> QED BY <2>2, <2>3, <2>4, <2>5, <2>6 DEF StockoutStates
<1>7. ASSUME NEW state \in {"REVIEW_REQUIRED", "BELOW_TARGET", "AT_TARGET"}
      PROVE  ExcessWhere(m, state) <=> ExcessState(m) = state
  <2>1. ExcessState(m) =
          IF flag THEN "REVIEW_REQUIRED"
          ELSE IF target = 0 THEN "NO_TARGET"
          ELSE IF over > 0 THEN "EXCESS"
          ELSE IF short > 0 THEN "BELOW_TARGET"
          ELSE "AT_TARGET"
    BY <1>2, <1>4 DEF ExcessState
  <2>2. CASE state = "REVIEW_REQUIRED" BY <1>4, <2>1, <2>2 DEF ExcessWhere
  <2>3. CASE state = "BELOW_TARGET" BY <1>4, <1>5, <2>1, <2>3 DEF ExcessWhere
  <2>4. CASE state = "AT_TARGET" BY <1>2, <1>4, <1>5, <2>1, <2>4 DEF ExcessWhere
  <2> QED BY <2>2, <2>3, <2>4
<1> QED BY <1>6, <1>7

(* The figures of a category, none yet for one without a trace.              *)
At(t, k) == IF k \in DOMAIN t THEN t[k] ELSE NoFigures
PlacedOf(t) == [k \in DOMAIN t |-> Placed(t[k])]
InWorkOf(t) == [k \in DOMAIN t |-> InWork(t[k])]

LEMMA FigureTypes ==
  ASSUME NEW m \in Figures
  PROVE  /\ Placed(m) \in Nat /\ InWork(m) \in Nat /\ Held(m) \in Nat
         /\ m.review \in BOOLEAN /\ m.blocked \in Nat
  BY DEF Figures, Placed, InWork, Held

LEMMA NothingPlaced == Placed(NoFigures) = 0 /\ InWork(NoFigures) = 0 /\ ~NoFigures.review
  BY DEF NoFigures, Placed, InWork, Held

(* The sum after one entry was put. *)
LEMMA SumPut ==
  ASSUME NEW t, NEW u, NEW k, IsFiniteSet(DOMAIN t), DOMAIN u = DOMAIN t \cup {k},
         \A j \in DOMAIN t : t[j] \in Int, \A j \in DOMAIN t \ {k} : u[j] = t[j], u[k] \in Int
  PROVE  SumFunction(u) = SumFunction(t) + u[k] - (IF k \in DOMAIN t THEN t[k] ELSE 0)
<1>1. PICK others : others = DOMAIN t \ {k} OBVIOUS
<1>2. IsFiniteSet(others) /\ IsFiniteSet(DOMAIN u) /\ DOMAIN u \ {k} = others
  BY <1>1, FS_Subset, FS_AddElement
<1>3. \A j \in DOMAIN u : u[j] \in Int OBVIOUS
<1>4. SumFunctionOnSet(u, DOMAIN u) = u[k] + SumFunctionOnSet(u, others)
  BY <1>2, <1>3, SumRemove
<1>5. SumFunctionOnSet(u, others) = SumFunctionOnSet(t, others) BY <1>1, <1>2, SumSame
<1>6. SumFunctionOnSet(t, others) \in Int BY <1>1, <1>2, SumType
<1>7. SumFunctionOnSet(t, DOMAIN t) =
         (IF k \in DOMAIN t THEN t[k] ELSE 0) + SumFunctionOnSet(t, others)
  <2>1. CASE k \in DOMAIN t BY <1>1, <2>1, SumRemove
  <2>2. CASE k \notin DOMAIN t
    <3>1. others = DOMAIN t BY <1>1, <2>2
    <3> QED BY <2>2, <3>1, <1>6
  <2> QED BY <2>1, <2>2
<1>8. (IF k \in DOMAIN t THEN t[k] ELSE 0) \in Int OBVIOUS
<1> QED BY <1>4, <1>5, <1>6, <1>7, <1>8 DEF SumFunction

LEMMA SumsPut ==
  ASSUME NEW t, NEW u, NEW k, NEW m \in Figures,
         IsFiniteSet(DOMAIN t), \A j \in DOMAIN t : t[j] \in Figures,
         u = [j \in DOMAIN t \cup {k} |-> IF j = k THEN m ELSE t[j]]
  PROVE  /\ SumFunction(PlacedOf(u)) =
              SumFunction(PlacedOf(t)) + Placed(m) - Placed(At(t, k))
         /\ SumFunction(InWorkOf(u)) =
              SumFunction(InWorkOf(t)) + InWork(m) - InWork(At(t, k))
<1>1. /\ DOMAIN u = DOMAIN t \cup {k} /\ u[k] = m
      /\ \A j \in DOMAIN t \ {k} : u[j] = t[j]
  OBVIOUS
<1>2. PICK p, q : p = PlacedOf(t) /\ q = PlacedOf(u) OBVIOUS
<1>3. /\ DOMAIN p = DOMAIN t /\ DOMAIN q = DOMAIN u /\ q[k] = Placed(m)
      /\ \A j \in DOMAIN t : p[j] = Placed(t[j])
      /\ \A j \in DOMAIN t \ {k} : q[j] = p[j]
  BY <1>1, <1>2 DEF PlacedOf
<1>4. (IF k \in DOMAIN p THEN p[k] ELSE 0) = Placed(At(t, k))
  BY <1>3, NothingPlaced DEF At
<1>5. SumFunction(q) = SumFunction(p) + Placed(m) - Placed(At(t, k))
  <2>1. (\A j \in DOMAIN p : p[j] \in Int) /\ q[k] \in Int BY <1>3, FigureTypes
  <2> QED BY <1>1, <1>3, <1>4, <2>1, SumPut
<1>6. PICK v, w : v = InWorkOf(t) /\ w = InWorkOf(u) OBVIOUS
<1>7. /\ DOMAIN v = DOMAIN t /\ DOMAIN w = DOMAIN u /\ w[k] = InWork(m)
      /\ \A j \in DOMAIN t : v[j] = InWork(t[j])
      /\ \A j \in DOMAIN t \ {k} : w[j] = v[j]
  BY <1>1, <1>6 DEF InWorkOf
<1>8. (IF k \in DOMAIN v THEN v[k] ELSE 0) = InWork(At(t, k))
  BY <1>7, NothingPlaced DEF At
<1>9. SumFunction(w) = SumFunction(v) + InWork(m) - InWork(At(t, k))
  <2>1. (\A j \in DOMAIN v : v[j] \in Int) /\ w[k] \in Int BY <1>7, FigureTypes
  <2> QED BY <1>1, <1>7, <1>8, <2>1, SumPut
<1> QED BY <1>2, <1>5, <1>6, <1>9

LEMMA SumsType ==
  ASSUME NEW t, IsFiniteSet(DOMAIN t), \A j \in DOMAIN t : t[j] \in Figures
  PROVE  SumFunction(PlacedOf(t)) \in Int /\ SumFunction(InWorkOf(t)) \in Int
<1>1. PICK p, q : p = PlacedOf(t) /\ q = InWorkOf(t) OBVIOUS
<1>2. /\ DOMAIN p = DOMAIN t /\ DOMAIN q = DOMAIN t
      /\ \A j \in DOMAIN t : p[j] \in Int /\ q[j] \in Int
  BY <1>1, FigureTypes DEF PlacedOf, InWorkOf
<1>3. SumFunctionOnSet(p, DOMAIN p) \in Int /\ SumFunctionOnSet(q, DOMAIN q) \in Int
  BY <1>2, SumType
<1> QED BY <1>1, <1>3 DEF SumFunction

(* The rows taken so far that count, by category and together.               *)
TakenStock == input.stock \ left.stock
StockAt(k) == {row \in TakenStock : KeyOf(row) = k /\ Pieces(row.quantity) # None}
StockKnown == {row \in TakenStock : KeyOf(row) # NoKey /\ Pieces(row.quantity) # None}
Unfinished == {row \in input.wip \ left.wip :
                  ~row.polished /\ row.stage \notin CompletedStages}

PiecesOf == [row \in StockRows |-> Pieces(row.quantity)]
PiecesInWork == [row \in WipRows |-> WipPieces(row)]

(* The figures so far are those of the rows taken so far; a row whose quantity*)
(* or approval is missing has its category under review.                     *)
StockCounted ==
    /\ \A k : k # NoKey => Placed(At(trace, k)) = SumFunctionOnSet(PiecesOf, StockAt(k))
    /\ SumFunction(PlacedOf(trace)) = SumFunctionOnSet(PiecesOf, StockKnown)

WorkCounted ==
    ambiguous + SumFunction(InWorkOf(trace)) = SumFunctionOnSet(PiecesInWork, Unfinished)

Flagged ==
    \A row \in TakenStock :
        KeyOf(row) # NoKey /\ (Approved(row) <=> Pieces(row.quantity) = None) =>
            At(trace, KeyOf(row)).review

Judged ==
    status = "COMPLETED" =>
        \A k \in DOMAIN trace : ~trace[k].review /\ trace[k].blocked = 0

FiguresInv == FiguresTypeOK /\ StockCounted /\ WorkCounted /\ Flagged /\ Judged

(* A row that counts has a weight band, so no trace is kept for NoKey.       *)
LEMMA KeyHasBand == ASSUME NEW row, KeyOf(row) # NoKey PROVE KeyOf(row).band # NoBand
  BY DEF KeyOf

LEMMA NoKeyHasNoBand == NoKey.band = NoBand
  BY DEF NoKey

LEMMA EntryType ==
  ASSUME FiguresTypeOK, NEW k
  PROVE  At(trace, k) = TraceOf(k) /\ At(trace, k) \in Figures
  BY TraceOfType DEF At, TraceOf

LEMMA RowTypes ==
  ASSUME FiguresTypeOK
  PROVE  /\ \A row \in input.sales : row.pieces \in Nat
         /\ \A row \in StockRows : row.quantity \in Quantity
         /\ \A row \in WipRows : row.quantity \in Quantity /\ WipPieces(row) \in Nat
         /\ input.stock \subseteq StockRows /\ input.wip \subseteq WipRows
         /\ input.sales \subseteq SaleRows
<1>1. \A row \in StockRows \cup WipRows : row.quantity \in Quantity BY FigureRowsAssumption
<1>2. ASSUME NEW row \in WipRows
      PROVE  WipPieces(row) \in Nat
  <2>1. [row.quantity EXCEPT !.stored = NotStored] \in Quantity BY <1>1 DEF Quantity
  <2> QED BY <2>1, PiecesType DEF WipPieces, WipQuantity
<1> QED BY <1>1, <1>2, FigureRowsAssumption DEF FiguresTypeOK, InputOK, Rows

LEMMA FiguresStart == FiguresInit => FiguresInv
<1> SUFFICES ASSUME FiguresInit PROVE FiguresInv OBVIOUS
<1>1. PICK s \in Subsets(SaleRows, MaxSales), r \in Subsets(RemovedRows, MaxRemoved),
           k \in Subsets(StockRows, MaxStock), w \in Subsets(WipRows, MaxWip) :
             input = [sales |-> s, removed |-> r, stock |-> k, wip |-> w]
  BY DEF FiguresInit
<1>2. left = input /\ DOMAIN trace = {} /\ ambiguous = 0 /\ status = "RUNNING"
  BY DEF FiguresInit
<1>3. InputOK BY <1>1, <1>2 DEF InputOK, Subsets, Rows
<1>4. FiguresTypeOK BY <1>2, <1>3, FS_EmptySet DEF FiguresTypeOK, TraceOK, Finished
<1>5. TakenStock = {} /\ Unfinished = {} BY <1>2 DEF TakenStock, Unfinished
<1>6. StockKnown = {} /\ \A j : StockAt(j) = {} BY <1>5 DEF StockKnown, StockAt
<1>7. \A j : Placed(At(trace, j)) = 0 BY <1>2, NothingPlaced DEF At
<1>8. SumFunction(PlacedOf(trace)) = 0 /\ SumFunction(InWorkOf(trace)) = 0
  <2>1. PICK p, q : p = PlacedOf(trace) /\ q = InWorkOf(trace) OBVIOUS
  <2>2. DOMAIN p = {} /\ DOMAIN q = {} BY <1>2, <2>1 DEF PlacedOf, InWorkOf
  <2> QED BY <2>1, <2>2, SumOfNone DEF SumFunction
<1>9. StockCounted BY <1>6, <1>7, <1>8, SumOfNone DEF StockCounted
<1>10. WorkCounted BY <1>2, <1>5, <1>8, SumOfNone DEF WorkCounted
<1> QED BY <1>2, <1>4, <1>5, <1>9, <1>10 DEF FiguresInv, Flagged, Judged

(* What putting one entry does. *)
LEMMA PutOne ==
  ASSUME FiguresInv, NEW k, k.band # NoBand, NEW m \in Figures, Put(k, m)
  PROVE  /\ TraceOK'
         /\ At(trace', k) = m /\ \A j : j # k => At(trace', j) = At(trace, j)
         /\ SumFunction(PlacedOf(trace')) =
              SumFunction(PlacedOf(trace)) + Placed(m) - Placed(At(trace, k))
         /\ SumFunction(InWorkOf(trace')) =
              SumFunction(InWorkOf(trace)) + InWork(m) - InWork(At(trace, k))
<1>1. TraceOK BY DEF FiguresInv, FiguresTypeOK
<1>2. trace' = [j \in DOMAIN trace \cup {k} |-> IF j = k THEN m ELSE trace[j]] BY DEF Put
<1>3. TraceOK' BY <1>1, <1>2, FS_AddElement DEF TraceOK
<1>4. At(trace', k) = m /\ \A j : j # k => At(trace', j) = At(trace, j) BY <1>2 DEF At
<1>5. PICK t, u : t = trace /\ u = trace' OBVIOUS
<1>6. /\ IsFiniteSet(DOMAIN t) /\ \A j \in DOMAIN t : t[j] \in Figures
      /\ u = [j \in DOMAIN t \cup {k} |-> IF j = k THEN m ELSE t[j]]
  BY <1>1, <1>2, <1>5 DEF TraceOK
<1>7. /\ SumFunction(PlacedOf(u)) =
              SumFunction(PlacedOf(t)) + Placed(m) - Placed(At(t, k))
      /\ SumFunction(InWorkOf(u)) =
              SumFunction(InWorkOf(t)) + InWork(m) - InWork(At(t, k))
  BY <1>6, SumsPut
<1> QED BY <1>3, <1>4, <1>5, <1>7

LEMMA Sums ==
  ASSUME FiguresInv
  PROVE  SumFunction(PlacedOf(trace)) \in Int /\ SumFunction(InWorkOf(trace)) \in Int
  BY SumsType DEF FiguresInv, FiguresTypeOK, TraceOK

LEMMA SumAdd ==
  ASSUME NEW f, NEW S, IsFiniteSet(S), NEW y, y \notin S, \A x \in S \cup {y} : f[x] \in Int
  PROVE  SumFunctionOnSet(f, S \cup {y}) = SumFunctionOnSet(f, S) + f[y]
<1>1. PICK T : T = S \cup {y} OBVIOUS
<1>2. IsFiniteSet(T) /\ y \in T /\ (\A x \in T : f[x] \in Int) /\ T \ {y} = S
  BY <1>1, FS_AddElement
<1>4. SumFunctionOnSet(f, T) = f[y] + SumFunctionOnSet(f, S) BY <1>2, SumRemove
<1>3. SumFunctionOnSet(f, S) \in Int /\ f[y] \in Int BY SumType
<1> QED BY <1>1, <1>3, <1>4

LEMMA TakenTypes ==
  ASSUME FiguresInv
  PROVE  /\ IsFiniteSet(TakenStock) /\ TakenStock \subseteq StockRows
         /\ IsFiniteSet(StockKnown) /\ StockKnown \subseteq StockRows
         /\ \A k : IsFiniteSet(StockAt(k)) /\ StockAt(k) \subseteq StockRows
         /\ IsFiniteSet(Unfinished) /\ Unfinished \subseteq WipRows
         /\ \A row \in StockRows : PiecesOf[row] = Pieces(row.quantity) /\ PiecesOf[row] \in Int
         /\ \A row \in WipRows : PiecesInWork[row] = WipPieces(row) /\ PiecesInWork[row] \in Int
<1>1. FiguresTypeOK BY DEF FiguresInv
<1>2. IsFiniteSet(input.stock) /\ IsFiniteSet(input.wip) BY <1>1 DEF FiguresTypeOK, InputOK
<1>3. \A row \in StockRows : PiecesOf[row] = Pieces(row.quantity) /\ PiecesOf[row] \in Int
  BY <1>1, RowTypes, PiecesType DEF PiecesOf, None
<1>4. \A row \in WipRows : PiecesInWork[row] = WipPieces(row) /\ PiecesInWork[row] \in Int
  BY <1>1, RowTypes DEF PiecesInWork
<1>5. /\ TakenStock \subseteq input.stock /\ StockKnown \subseteq input.stock
      /\ \A k : StockAt(k) \subseteq input.stock
      /\ Unfinished \subseteq input.wip
  BY DEF TakenStock, StockKnown, StockAt, Unfinished
<1> QED BY <1>1, <1>2, <1>3, <1>4, <1>5, FS_Subset, RowTypes

(* A step that takes no stock and no work in progress and moves no piece.    *)
LEMMA QuietPut ==
  ASSUME FiguresInv, InputOK', ~Finished, NEW k, k.band # NoBand, NEW m \in Figures, Put(k, m),
         Placed(m) = Placed(TraceOf(k)), InWork(m) = InWork(TraceOf(k)),
         TraceOf(k).review => m.review,
         left'.stock = left.stock, left'.wip = left.wip, UNCHANGED <<input, ambiguous, status>>
  PROVE  FiguresInv'
<1>1. FiguresTypeOK /\ status = "RUNNING" BY DEF FiguresInv, Finished
<1>2. At(trace, k) = TraceOf(k) /\ At(trace, k) \in Figures BY <1>1, EntryType
<1>3. /\ TraceOK'
      /\ At(trace', k) = m /\ \A j : j # k => At(trace', j) = At(trace, j)
      /\ SumFunction(PlacedOf(trace')) =
           SumFunction(PlacedOf(trace)) + Placed(m) - Placed(At(trace, k))
      /\ SumFunction(InWorkOf(trace')) =
           SumFunction(InWorkOf(trace)) + InWork(m) - InWork(At(trace, k))
  BY PutOne
<1>4. /\ SumFunction(PlacedOf(trace')) = SumFunction(PlacedOf(trace))
      /\ SumFunction(InWorkOf(trace')) = SumFunction(InWorkOf(trace))
  BY <1>2, <1>3, Sums, FigureTypes
<1>5. TakenStock' = TakenStock /\ Unfinished' = Unfinished
  BY DEF TakenStock, Unfinished
<1>6. StockKnown' = StockKnown /\ \A j : StockAt(j)' = StockAt(j)
  BY <1>5 DEF StockKnown, StockAt
<1>7. FiguresTypeOK' BY <1>1, <1>3 DEF FiguresTypeOK, Finished
<1>8. StockCounted' BY <1>2, <1>3, <1>4, <1>6 DEF FiguresInv, StockCounted
<1>9. WorkCounted' BY <1>4, <1>5 DEF FiguresInv, WorkCounted
<1>10. Flagged' BY <1>2, <1>3, <1>5 DEF FiguresInv, Flagged
<1>11. Judged' BY <1>1 DEF Judged
<1> QED BY <1>7, <1>8, <1>9, <1>10, <1>11 DEF FiguresInv

(* A step that only takes a row that counts nowhere. *)
LEMMA NoPut ==
  ASSUME FiguresInv, InputOK', ~Finished, UNCHANGED <<trace, input, status>>,
         StockKnown' = StockKnown, \A k : k # NoKey => StockAt(k)' = StockAt(k),
         \A row \in TakenStock' \ TakenStock :
            KeyOf(row) = NoKey \/ ~(Approved(row) <=> Pieces(row.quantity) = None),
         WorkCounted', ambiguous' \in Nat
  PROVE  FiguresInv'
<1>1. FiguresTypeOK /\ status = "RUNNING" BY DEF FiguresInv, Finished
<1>2. FiguresTypeOK' BY <1>1 DEF FiguresTypeOK, Finished, TraceOK
<1>3. StockCounted' BY DEF FiguresInv, StockCounted
<1>4. Flagged' BY DEF FiguresInv, Flagged
<1>5. Judged' BY <1>1 DEF Judged
<1> QED BY <1>2, <1>3, <1>4, <1>5 DEF FiguresInv

LEMMA StillRunning ==
  ASSUME FiguresInv, NEW row,
         row \in left.sales \/ row \in left.removed \/ row \in left.stock \/ row \in left.wip
  PROVE  ~Finished
  BY DEF FiguresInv, FiguresTypeOK

LEMMA TakesOne ==
  ASSUME FiguresInv, NEW row, UNCHANGED input,
         \/ left' = [left EXCEPT !.sales = @ \ {row}]
         \/ left' = [left EXCEPT !.removed = @ \ {row}]
         \/ left' = [left EXCEPT !.stock = @ \ {row}]
         \/ left' = [left EXCEPT !.wip = @ \ {row}]
  PROVE  InputOK'
<1>1. InputOK BY DEF FiguresInv, FiguresTypeOK
<1> QED BY <1>1 DEF InputOK, Rows

LEMMA SameRows ==
  ASSUME FiguresInv, NEW row, UNCHANGED input,
         left' = [left EXCEPT !.sales = @ \ {row}] \/ left' = [left EXCEPT !.removed = @ \ {row}]
  PROVE  /\ left'.stock = left.stock /\ left'.wip = left.wip
         /\ TakenStock' = TakenStock /\ StockKnown' = StockKnown
         /\ \A k : StockAt(k)' = StockAt(k)
         /\ Unfinished' = Unfinished
<1>1. left \in Rows BY DEF FiguresInv, FiguresTypeOK, InputOK
<1>2. left'.stock = left.stock /\ left'.wip = left.wip BY <1>1 DEF Rows
<1>3. TakenStock' = TakenStock /\ Unfinished' = Unfinished BY <1>2 DEF TakenStock, Unfinished
<1> QED BY <1>2, <1>3 DEF StockKnown, StockAt

LEMMA SaleKeeps == ASSUME FiguresInv, NEW row, TakeSale(row) PROVE FiguresInv'
<1>1. /\ row \in left.sales /\ left' = [left EXCEPT !.sales = @ \ {row}]
      /\ UNCHANGED <<input, ambiguous, status>>
  BY DEF TakeSale
<1>2. InputOK' /\ ~Finished BY <1>1, TakesOne, StillRunning
<1>3. row.pieces \in Nat
  BY <1>1, RowTypes DEF FiguresInv, FiguresTypeOK, InputOK
<1>4. PICK old : old = TraceOf(KeyOf(row)) OBVIOUS
<1>5. old \in Figures BY <1>4, EntryType DEF FiguresInv
<1>6. CASE Approved(row)
  <2>1. PICK m : m = [old EXCEPT !.sales = @ + row.pieces] OBVIOUS
  <2>2. Put(KeyOf(row), m) BY <1>4, <1>6, <2>1 DEF TakeSale
  <2>3. m \in Figures /\ Placed(m) = Placed(old) /\ InWork(m) = InWork(old) /\ m.review = old.review
    BY <1>3, <1>5, <2>1 DEF Figures, Placed, InWork, Held
  <2>4. KeyOf(row).band # NoBand BY <1>6, KeyHasBand DEF Approved
  <2> QED BY <1>1, <1>2, <1>4, <2>2, <2>3, <2>4, SameRows, QuietPut
<1>7. CASE ~Approved(row) /\ KeyOf(row) # NoKey
  <2>1. PICK m : m = [old EXCEPT !.review = TRUE] OBVIOUS
  <2>2. Put(KeyOf(row), m) BY <1>4, <1>7, <2>1 DEF TakeSale
  <2>3. PICK yes \in BOOLEAN : yes = TRUE OBVIOUS
  <2>4. m \in Figures /\ Placed(m) = Placed(old) /\ InWork(m) = InWork(old) /\ m.review
    <3>1. m = [old EXCEPT !.review = yes] BY <2>1, <2>3
    <3>2. m \in Figures /\ Placed(m) = Placed(old) /\ InWork(m) = InWork(old) /\ m.review = yes
      BY <1>5, <3>1 DEF Figures, Placed, InWork, Held
    <3> QED BY <2>3, <3>2
  <2>5. KeyOf(row).band # NoBand BY <1>7, KeyHasBand
  <2> QED BY <1>1, <1>2, <1>4, <2>2, <2>4, <2>5, SameRows, QuietPut
<1>8. CASE ~Approved(row) /\ KeyOf(row) = NoKey
  <2>1. UNCHANGED trace BY <1>8 DEF TakeSale
  <2>2. WorkCounted' BY <1>1, <2>1, SameRows DEF FiguresInv, WorkCounted
  <2>3. ambiguous' \in Nat BY <1>1 DEF FiguresInv, FiguresTypeOK
  <2>4. TakenStock' = TakenStock /\ StockKnown' = StockKnown /\ \A k : StockAt(k)' = StockAt(k)
    BY <1>1, SameRows
  <2> QED BY <1>1, <1>2, <2>1, <2>2, <2>3, <2>4, NoPut
<1> QED BY <1>6, <1>7, <1>8

LEMMA RemovalKeeps == ASSUME FiguresInv, NEW row, TakeRemoval(row) PROVE FiguresInv'
<1> DEFINE band == BandOf(Carats([kind |-> "number", tenths |-> row.stone.tenths], row.fixture))
<1>1. /\ row \in left.removed /\ left' = [left EXCEPT !.removed = @ \ {row}]
      /\ UNCHANGED <<input, ambiguous, status>>
  BY DEF TakeRemoval
<1>2. InputOK' /\ ~Finished BY <1>1, TakesOne, StillRunning
<1>3. PICK key : key = [PlanningKey(row.stone) EXCEPT !.band = band] OBVIOUS
<1>4. key.band = band BY <1>3 DEF PlanningKey
<1>5. CASE band # NoBand /\ key.shape # Unknown
  <2>1. Put(key, TraceOf(key)) BY <1>3, <1>5 DEF TakeRemoval
  <2>2. TraceOf(key) \in Figures BY EntryType DEF FiguresInv
  <2> QED BY <1>1, <1>2, <1>4, <1>5, <2>1, <2>2, SameRows, QuietPut
<1>6. CASE ~(band # NoBand /\ key.shape # Unknown)
  <2>1. UNCHANGED trace BY <1>3, <1>6 DEF TakeRemoval
  <2>2. WorkCounted' BY <1>1, <2>1, SameRows DEF FiguresInv, WorkCounted
  <2>3. ambiguous' \in Nat BY <1>1 DEF FiguresInv, FiguresTypeOK
  <2>4. TakenStock' = TakenStock /\ StockKnown' = StockKnown /\ \A k : StockAt(k)' = StockAt(k)
    BY <1>1, SameRows
  <2> QED BY <1>1, <1>2, <2>1, <2>2, <2>3, <2>4, NoPut
<1> QED BY <1>5, <1>6

(* What a stock row adds to the figures of its category. *)
LEMMA StockFiguresAdd ==
  ASSUME FiguresTypeOK, NEW row \in StockRows, NEW m \in Figures
  PROVE  LET new == StockFigures(row, m)
         IN /\ new \in Figures
            /\ InWork(new) = InWork(m)
            /\ m.review => new.review
            /\ Pieces(row.quantity) = None => Placed(new) = Placed(m) /\ new.review
            /\ Pieces(row.quantity) # None =>
                 Placed(new) = Placed(m) + Pieces(row.quantity) /\ (~Approved(row) => new.review)
<1>1. PICK n : n = Pieces(row.quantity) OBVIOUS
<1>2. n \in Nat \cup {None} BY <1>1, RowTypes, PiecesType
<1>3. PICK new : new = StockFigures(row, m) OBVIOUS
<1>4. PICK yes \in BOOLEAN : yes = TRUE OBVIOUS
<1>5. new = IF n = None THEN [m EXCEPT !.review = yes]
            ELSE IF ~Approved(row) \/ MirrorMissing(row)
                 THEN [m EXCEPT !.review = yes, !.blocked = @ + n]
            ELSE IF row.available THEN [m EXCEPT !.available = @ + n]
            ELSE IF row.class = "MEMO" THEN [m EXCEPT !.memo = @ + n]
            ELSE IF row.class = "RESERVED" THEN [m EXCEPT !.reserved = @ + n]
            ELSE [m EXCEPT !.blocked = @ + n]
  BY <1>1, <1>3, <1>4 DEF StockFigures
<1>6. n # None => n \in Nat BY <1>2
<1>7. CASE n = None
  BY <1>1, <1>3, <1>4, <1>5, <1>7 DEF Figures, Placed, Held, InWork
<1>8. CASE n # None /\ (~Approved(row) \/ MirrorMissing(row))
  <2>1. new = [m EXCEPT !.review = yes, !.blocked = @ + n] BY <1>5, <1>8
  <2>2. PICK b \in Nat : b = m.blocked + n BY <1>6, <1>8 DEF Figures
  <2>3. new = [m EXCEPT !.review = yes, !.blocked = b] BY <2>1, <2>2
  <2>4. /\ new \in Figures /\ new.review = yes /\ new.blocked = b
        /\ new.available = m.available /\ new.memo = m.memo /\ new.reserved = m.reserved
        /\ new.coverage = m.coverage /\ new.unallocated = m.unallocated
    BY <2>3 DEF Figures
  <2>5. /\ InWork(new) = InWork(m) /\ Placed(new) = Placed(m) + n
    BY <1>6, <1>8, <2>2, <2>4 DEF Figures, Placed, Held, InWork
  <2> QED BY <1>1, <1>3, <1>4, <1>8, <2>4, <2>5
<1>9. CASE n # None /\ ~(~Approved(row) \/ MirrorMissing(row))
  <2>1. new \in {[m EXCEPT !.available = @ + n], [m EXCEPT !.memo = @ + n],
                 [m EXCEPT !.reserved = @ + n], [m EXCEPT !.blocked = @ + n]}
    BY <1>5, <1>9
  <2>2. /\ new \in Figures /\ InWork(new) = InWork(m) /\ new.review = m.review
        /\ Placed(new) = Placed(m) + n
    BY <1>6, <1>9, <2>1 DEF Figures, Placed, Held, InWork
  <2> QED BY <1>1, <1>3, <1>9, <2>2
<1> QED BY <1>7, <1>8, <1>9

LEMMA StockKeeps == ASSUME FiguresInv, NEW row, TakeStock(row) PROVE FiguresInv'
<1>1. /\ row \in left.stock /\ left' = [left EXCEPT !.stock = @ \ {row}]
      /\ UNCHANGED <<input, ambiguous, status>>
  BY DEF TakeStock
<1>2. InputOK' /\ ~Finished BY <1>1, TakesOne, StillRunning
<1>3. FiguresTypeOK /\ InputOK BY DEF FiguresInv, FiguresTypeOK
<1>4. row \in StockRows /\ row \in input.stock BY <1>1, <1>3, RowTypes DEF InputOK
<1>5. /\ left'.stock = left.stock \ {row} /\ left'.wip = left.wip
  BY <1>1, <1>3 DEF InputOK, Rows
<1>6. /\ TakenStock' = TakenStock \cup {row} /\ row \notin TakenStock /\ Unfinished' = Unfinished
  BY <1>1, <1>4, <1>5 DEF TakenStock, Unfinished
<1>7. PICK key : key = KeyOf(row) OBVIOUS
<1>8. PICK n : n = Pieces(row.quantity) OBVIOUS
<1>9. CASE key = NoKey \/ (n = None /\ ~Approved(row))
  <2>1. UNCHANGED trace BY <1>7, <1>8, <1>9 DEF TakeStock
  <2>2. StockKnown' = StockKnown BY <1>6, <1>7, <1>8, <1>9 DEF StockKnown
  <2>3. ASSUME NEW k, k # NoKey PROVE StockAt(k)' = StockAt(k)
    BY <1>6, <1>7, <1>8, <1>9, <2>3 DEF StockAt
  <2>4. WorkCounted' BY <1>1, <1>6, <2>1 DEF FiguresInv, WorkCounted
  <2>5. \A r \in TakenStock' \ TakenStock :
           KeyOf(r) = NoKey \/ ~(Approved(r) <=> Pieces(r.quantity) = None)
    BY <1>6, <1>7, <1>8, <1>9
  <2>6. ambiguous' \in Nat BY <1>1, <1>3 DEF FiguresTypeOK
  <2> QED BY <1>1, <1>2, <2>1, <2>2, <2>3, <2>4, <2>5, <2>6, NoPut
<1>10. CASE key # NoKey /\ ~(n = None /\ ~Approved(row))
  <2>1. PICK m : m = StockFigures(row, TraceOf(key)) OBVIOUS
  <2>2. Put(key, m) BY <1>7, <1>8, <1>10, <2>1 DEF TakeStock
  <2>3. key.band # NoBand BY <1>7, <1>10, KeyHasBand
  <2>4. At(trace, key) = TraceOf(key) /\ At(trace, key) \in Figures BY <1>3, EntryType
  <2>5. /\ m \in Figures
        /\ InWork(m) = InWork(At(trace, key))
        /\ At(trace, key).review => m.review
        /\ n = None => Placed(m) = Placed(At(trace, key)) /\ m.review
        /\ n # None => Placed(m) = Placed(At(trace, key)) + n /\ (~Approved(row) => m.review)
    BY <1>3, <1>4, <1>8, <2>1, <2>4, StockFiguresAdd
  <2>6. /\ TraceOK'
        /\ At(trace', key) = m /\ \A j : j # key => At(trace', j) = At(trace, j)
        /\ SumFunction(PlacedOf(trace')) =
             SumFunction(PlacedOf(trace)) + Placed(m) - Placed(At(trace, key))
        /\ SumFunction(InWorkOf(trace')) =
             SumFunction(InWorkOf(trace)) + InWork(m) - InWork(At(trace, key))
    BY <2>2, <2>3, <2>5, PutOne
  <2>7. status = "RUNNING" BY <1>2 DEF Finished
  <2>8. FiguresTypeOK' BY <1>1, <1>2, <1>3, <2>6, <2>7 DEF FiguresTypeOK, Finished
  <2>9. SumFunction(InWorkOf(trace')) = SumFunction(InWorkOf(trace))
    BY <2>4, <2>5, <2>6, Sums, FigureTypes
  <2>10. WorkCounted' BY <1>1, <1>6, <2>9 DEF FiguresInv, WorkCounted
  <2>11. Flagged'
    <3>1. ASSUME NEW r \in TakenStock',
                 KeyOf(r) # NoKey, Approved(r) <=> Pieces(r.quantity) = None
          PROVE  At(trace', KeyOf(r)).review
      <4>1. CASE r = row BY <1>7, <1>8, <2>5, <2>6, <3>1, <4>1
      <4>2. CASE r \in TakenStock
        <5>1. At(trace, KeyOf(r)).review BY <3>1, <4>2 DEF FiguresInv, Flagged
        <5> QED BY <2>5, <2>6, <5>1
      <4> QED BY <1>6, <4>1, <4>2
    <3> QED BY <1>1, <3>1 DEF Flagged
  <2>12. Judged' BY <1>1, <2>7 DEF Judged
  <2>13. StockCounted'
    <3>1. PICK f : f = PiecesOf OBVIOUS
    <3>2. /\ f' = f /\ f[row] = n
          /\ \A r \in StockRows : f[r] \in Int
      BY <1>4, <1>8, <3>1, TakenTypes DEF PiecesOf
    <3>3. CASE n = None
      <4>1. StockKnown' = StockKnown BY <1>6, <1>8, <3>3 DEF StockKnown
      <4>2. \A k : StockAt(k)' = StockAt(k) BY <1>6, <1>8, <3>3 DEF StockAt
      <4>3. Placed(m) = Placed(At(trace, key)) BY <2>5, <3>3
      <4>4. SumFunction(PlacedOf(trace')) = SumFunction(PlacedOf(trace))
        BY <2>4, <2>5, <2>6, <4>3, Sums, FigureTypes
      <4>5. PiecesOf' = PiecesOf BY DEF PiecesOf
      <4> QED BY <2>6, <4>1, <4>2, <4>3, <4>4, <4>5 DEF FiguresInv, StockCounted
    <3>4. CASE n # None
      <4>1. StockKnown' = StockKnown \cup {row} /\ row \notin StockKnown
        BY <1>6, <1>7, <1>8, <1>10, <3>4 DEF StockKnown
      <4>2. /\ StockAt(key)' = StockAt(key) \cup {row} /\ row \notin StockAt(key)
            /\ \A k : k # key => StockAt(k)' = StockAt(k)
        BY <1>6, <1>7, <1>8, <3>4 DEF StockAt
      <4>3. SumFunctionOnSet(f, StockKnown') = SumFunctionOnSet(f, StockKnown) + n
        BY <1>4, <3>2, <4>1, TakenTypes, SumAdd
      <4>4. SumFunctionOnSet(f, StockAt(key)') = SumFunctionOnSet(f, StockAt(key)) + n
        BY <1>4, <3>2, <4>2, TakenTypes, SumAdd
      <4>5. SumFunction(PlacedOf(trace')) = SumFunction(PlacedOf(trace)) + n
        BY <2>4, <2>5, <2>6, <3>2, <3>4, Sums, FigureTypes, <1>4
      <4>6. PiecesOf' = f BY <3>1 DEF PiecesOf
      <4>7. \A k : k # NoKey =>
               Placed(At(trace', k)) = SumFunctionOnSet(f, StockAt(k)')
        BY <1>10, <2>5, <2>6, <3>1, <3>4, <4>2, <4>4 DEF FiguresInv, StockCounted
      <4>8. SumFunction(PlacedOf(trace')) = SumFunctionOnSet(f, StockKnown')
        BY <3>1, <4>3, <4>5 DEF FiguresInv, StockCounted
      <4> QED BY <4>6, <4>7, <4>8 DEF StockCounted
    <3> QED BY <3>3, <3>4
  <2> QED BY <2>8, <2>10, <2>11, <2>12, <2>13 DEF FiguresInv
<1> QED BY <1>9, <1>10

LEMMA ResolvedHasBand ==
  ASSUME NEW row, WipOutcome(row) \notin {"COMPLETED", "ALREADY_POLISHED", "AMBIGUOUS"}
  PROVE  PlanningKey(row.stone).band # NoBand
  BY DEF WipOutcome, Resolved

LEMMA FinishedWork ==
  ASSUME NEW row
  PROVE  WipOutcome(row) \in {"COMPLETED", "ALREADY_POLISHED"} <=>
           row.polished \/ row.stage \in CompletedStages
  BY DEF WipOutcome

LEMMA WipKeeps == ASSUME FiguresInv, NEW row, TakeWip(row) PROVE FiguresInv'
<1>1. /\ row \in left.wip /\ left' = [left EXCEPT !.wip = @ \ {row}]
      /\ UNCHANGED <<input, status>>
  BY DEF TakeWip
<1>2. InputOK' /\ ~Finished BY <1>1, TakesOne, StillRunning
<1>3. FiguresTypeOK /\ InputOK /\ status = "RUNNING"
  BY <1>2 DEF FiguresInv, FiguresTypeOK, Finished
<1>4. row \in WipRows /\ row \in input.wip BY <1>1, <1>3, RowTypes DEF InputOK
<1>5. left'.wip = left.wip \ {row} /\ left'.stock = left.stock
  BY <1>1, <1>3 DEF InputOK, Rows
<1>6. TakenStock' = TakenStock BY <1>1, <1>5 DEF TakenStock
<1>7. StockKnown' = StockKnown /\ \A k : StockAt(k)' = StockAt(k) BY <1>6 DEF StockKnown, StockAt
<1>8. PICK n \in Nat : n = WipPieces(row) BY <1>3, <1>4, RowTypes
<1>9. PICK f : f = PiecesInWork OBVIOUS
<1>10. f' = f /\ f[row] = n /\ PiecesInWork' = f /\ \A r \in WipRows : f[r] \in Int
  BY <1>4, <1>8, <1>9, TakenTypes DEF PiecesInWork
<1>11. PICK key : key = PlanningKey(row.stone) OBVIOUS
<1>12. CASE WipOutcome(row) \in {"COMPLETED", "ALREADY_POLISHED"}
  <2>1. UNCHANGED <<trace, ambiguous>> BY <1>12 DEF TakeWip
  <2>2. Unfinished' = Unfinished
    BY <1>1, <1>4, <1>5, <1>12, FinishedWork DEF Unfinished
  <2>3. WorkCounted' BY <1>9, <1>10, <2>1, <2>2 DEF FiguresInv, WorkCounted
  <2>4. ambiguous' \in Nat BY <1>3, <2>1 DEF FiguresTypeOK
  <2> QED BY <1>1, <1>2, <1>6, <1>7, <2>1, <2>3, <2>4, NoPut
<1>13. ASSUME WipOutcome(row) \notin {"COMPLETED", "ALREADY_POLISHED"}
       PROVE  SumFunctionOnSet(f, Unfinished') = SumFunctionOnSet(f, Unfinished) + n
  <2>1. Unfinished' = Unfinished \cup {row} /\ row \notin Unfinished
    BY <1>1, <1>4, <1>5, <1>13, FinishedWork DEF Unfinished
  <2> QED BY <1>4, <1>10, <2>1, TakenTypes, SumAdd
<1>14. ambiguous \in Nat BY <1>3 DEF FiguresTypeOK
<1>15. ambiguous + SumFunction(InWorkOf(trace)) = SumFunctionOnSet(f, Unfinished)
  BY <1>9 DEF FiguresInv, WorkCounted
<1>16. CASE WipOutcome(row) = "AMBIGUOUS"
  <2>1. ambiguous' = ambiguous + n /\ UNCHANGED trace BY <1>8, <1>16 DEF TakeWip
  <2>2. SumFunctionOnSet(f, Unfinished') = SumFunctionOnSet(f, Unfinished) + n BY <1>13, <1>16
  <2>3. ambiguous' + SumFunction(InWorkOf(trace)) = SumFunctionOnSet(f, Unfinished')
    BY <1>14, <1>15, <2>1, <2>2, Sums
  <2>4. WorkCounted' BY <1>10, <2>1, <2>3 DEF WorkCounted
  <2>5. ambiguous' \in Nat BY <1>14, <2>1
  <2> QED BY <1>1, <1>2, <1>6, <1>7, <2>1, <2>4, <2>5, NoPut
<1>17. CASE WipOutcome(row) \notin {"COMPLETED", "ALREADY_POLISHED", "AMBIGUOUS"}
  <2>1. PICK old : old = At(trace, key) OBVIOUS
  <2>2. old = TraceOf(key) /\ old \in Figures BY <1>3, <2>1, EntryType
  <2>3. PICK m : /\ m = [old EXCEPT !.coverage = @ + n] \/ m = [old EXCEPT !.unallocated = @ + n]
                 /\ Put(key, m)
    BY <1>8, <1>11, <1>17, <2>2 DEF TakeWip
  <2>4. ambiguous' = ambiguous BY <1>17 DEF TakeWip
  <2>5. /\ m \in Figures /\ Placed(m) = Placed(old) /\ InWork(m) = InWork(old) + n
        /\ m.review = old.review
    BY <2>2, <2>3 DEF Figures, Placed, Held, InWork
  <2>6. key.band # NoBand BY <1>11, <1>17, ResolvedHasBand
  <2>7. /\ TraceOK'
        /\ At(trace', key) = m /\ \A j : j # key => At(trace', j) = At(trace, j)
        /\ SumFunction(PlacedOf(trace')) =
             SumFunction(PlacedOf(trace)) + Placed(m) - Placed(At(trace, key))
        /\ SumFunction(InWorkOf(trace')) =
             SumFunction(InWorkOf(trace)) + InWork(m) - InWork(At(trace, key))
    BY <2>3, <2>5, <2>6, PutOne
  <2>8. /\ SumFunction(PlacedOf(trace')) = SumFunction(PlacedOf(trace))
        /\ SumFunction(InWorkOf(trace')) = SumFunction(InWorkOf(trace)) + n
    <3>1. PICK a, b, c, d : /\ a = SumFunction(PlacedOf(trace)) /\ b = SumFunction(InWorkOf(trace))
                            /\ c = Placed(old) /\ d = InWork(old)
      OBVIOUS
    <3>2. a \in Int /\ b \in Int /\ c \in Nat /\ d \in Nat BY <2>2, <3>1, Sums, FigureTypes
    <3>3. /\ SumFunction(PlacedOf(trace')) = a + c - c
          /\ SumFunction(InWorkOf(trace')) = b + (d + n) - d
      BY <2>1, <2>5, <2>7, <3>1
    <3>4. a + c - c = a /\ b + (d + n) - d = b + n BY <3>2
    <3> QED BY <3>1, <3>3, <3>4
  <2>9. FiguresTypeOK' BY <1>1, <1>2, <1>3, <2>4, <2>7 DEF FiguresTypeOK, Finished
  <2>10. StockCounted'
    <3>1. PiecesOf' = PiecesOf BY DEF PiecesOf
    <3> QED BY <1>7, <2>1, <2>5, <2>7, <2>8, <3>1 DEF FiguresInv, StockCounted
  <2>11. WorkCounted'
    <3>1. SumFunctionOnSet(f, Unfinished') = SumFunctionOnSet(f, Unfinished) + n BY <1>13, <1>17
    <3>2. ambiguous + SumFunction(InWorkOf(trace')) = SumFunctionOnSet(f, Unfinished')
      BY <1>14, <1>15, <2>8, <3>1, Sums
    <3> QED BY <1>10, <2>4, <3>2 DEF WorkCounted
  <2>12. Flagged' BY <1>6, <2>1, <2>5, <2>7 DEF FiguresInv, Flagged
  <2>13. Judged' BY <1>1, <1>3 DEF Judged
  <2> QED BY <2>9, <2>10, <2>11, <2>12, <2>13 DEF FiguresInv
<1> QED BY <1>12, <1>16, <1>17

LEMMA TotalKeeps == ASSUME FiguresInv, NEW projected, Total(projected) PROVE FiguresInv'
<1>1. /\ trace' = [k \in DOMAIN trace \cup PlannedKeys |-> TraceOf(k)]
      /\ left.sales = {} /\ left.removed = {} /\ left.stock = {} /\ left.wip = {}
      /\ UNCHANGED <<input, left, ambiguous>>
  BY DEF Total
<1>2. FiguresTypeOK /\ TraceOK BY DEF FiguresInv, FiguresTypeOK
<1>3. TraceOK'
  <2>1. IsFiniteSet(DOMAIN trace \cup PlannedKeys)
    BY <1>2, PlannedKeysAssumption, FS_Union DEF TraceOK
  <2>2. \A k \in DOMAIN trace \cup PlannedKeys : k.band # NoBand
    BY <1>2, PlannedKeysAssumption DEF TraceOK
  <2> QED BY <1>1, <1>2, <2>1, <2>2, TraceOfType DEF TraceOK
<1>4. /\ status' \in FinalStatuses
      /\ status' = "COMPLETED" => \A k \in DOMAIN trace' : ~(trace'[k].review \/ trace'[k].blocked > 0)
  BY DEF Total, FinalStatuses
<1>5. Judged'
  <2>1. ASSUME status' = "COMPLETED", NEW k \in DOMAIN trace'
        PROVE  ~trace'[k].review /\ trace'[k].blocked = 0
    <3>1. trace'[k].blocked \in Nat BY <1>3, FigureTypes DEF TraceOK
    <3> QED BY <1>4, <2>1, <3>1
  <2> QED BY <2>1 DEF Judged
<1>6. \A k : At(trace', k) = At(trace, k) BY <1>1 DEF At, TraceOf
<1>7. FiguresTypeOK' BY <1>1, <1>2, <1>3, <1>4 DEF FiguresTypeOK, InputOK, Finished
<1>8. /\ SumFunction(PlacedOf(trace')) = SumFunction(PlacedOf(trace))
      /\ SumFunction(InWorkOf(trace')) = SumFunction(InWorkOf(trace))
  <2>1. PICK p, q : p = PlacedOf(trace) /\ q = PlacedOf(trace') OBVIOUS
  <2>2. PICK v, w : v = InWorkOf(trace) /\ w = InWorkOf(trace') OBVIOUS
  <2>3. PICK D, E : D = DOMAIN trace /\ E = DOMAIN trace' OBVIOUS
  <2>4. /\ D \in SUBSET E /\ IsFiniteSet(D) /\ IsFiniteSet(E)
        /\ DOMAIN p = D /\ DOMAIN v = D /\ DOMAIN q = E /\ DOMAIN w = E
    BY <1>1, <1>2, <1>3, <2>1, <2>2, <2>3 DEF TraceOK, PlacedOf, InWorkOf
  <2>5. \A k \in D : q[k] = p[k] /\ w[k] = v[k]
    BY <1>1, <2>1, <2>2, <2>3 DEF PlacedOf, InWorkOf, TraceOf
  <2>6. \A k \in E \ D : q[k] = 0 /\ w[k] = 0
    BY <1>1, <2>1, <2>2, <2>3, NothingPlaced DEF PlacedOf, InWorkOf, TraceOf
  <2>7. \A k \in E : q[k] \in Int /\ w[k] \in Int
    BY <1>3, <2>1, <2>2, <2>3, FigureTypes DEF PlacedOf, InWorkOf, TraceOK
  <2>8. /\ SumFunctionOnSet(q, E) = SumFunctionOnSet(q, D)
        /\ SumFunctionOnSet(w, E) = SumFunctionOnSet(w, D)
    BY <2>4, <2>6, <2>7, SumOfZeros
  <2>9. /\ SumFunctionOnSet(q, D) = SumFunctionOnSet(p, D)
        /\ SumFunctionOnSet(w, D) = SumFunctionOnSet(v, D)
    BY <2>4, <2>5, SumSame
  <2> QED BY <2>1, <2>2, <2>4, <2>8, <2>9 DEF SumFunction
<1>9. TakenStock' = TakenStock /\ Unfinished' = Unfinished BY <1>1 DEF TakenStock, Unfinished
<1>10. StockKnown' = StockKnown /\ \A k : StockAt(k)' = StockAt(k) BY <1>9 DEF StockKnown, StockAt
<1>11. PiecesOf' = PiecesOf /\ PiecesInWork' = PiecesInWork BY DEF PiecesOf, PiecesInWork
<1>12. StockCounted' BY <1>6, <1>8, <1>10, <1>11 DEF FiguresInv, StockCounted
<1>13. WorkCounted' BY <1>1, <1>8, <1>9, <1>11 DEF FiguresInv, WorkCounted
<1>14. Flagged' BY <1>6, <1>9 DEF FiguresInv, Flagged
<1> QED BY <1>5, <1>7, <1>12, <1>13, <1>14 DEF FiguresInv

LEMMA FiguresStep == FiguresInv /\ [FiguresNext]_figureVars => FiguresInv'
<1> SUFFICES ASSUME FiguresInv, [FiguresNext]_figureVars PROVE FiguresInv' OBVIOUS
<1>1. CASE FiguresNext
  BY <1>1, SaleKeeps, RemovalKeeps, StockKeeps, WipKeeps, TotalKeeps DEF FiguresNext
<1>2. CASE UNCHANGED figureVars
  <2>1. TakenStock' = TakenStock /\ Unfinished' = Unfinished
    BY <1>2 DEF figureVars, TakenStock, Unfinished
  <2>2. StockKnown' = StockKnown /\ \A k : StockAt(k)' = StockAt(k) BY <2>1 DEF StockKnown, StockAt
  <2>3. PiecesOf' = PiecesOf /\ PiecesInWork' = PiecesInWork BY DEF PiecesOf, PiecesInWork
  <2>4. UNCHANGED <<trace, input, left, ambiguous, status>> BY <1>2 DEF figureVars
  <2>5. FiguresTypeOK' BY <2>4 DEF FiguresInv, FiguresTypeOK, InputOK, TraceOK, Finished
  <2>6. StockCounted' BY <2>2, <2>3, <2>4 DEF FiguresInv, StockCounted
  <2>7. WorkCounted' BY <2>1, <2>3, <2>4 DEF FiguresInv, WorkCounted
  <2>8. Flagged' BY <2>1, <2>4 DEF FiguresInv, Flagged
  <2>9. Judged' BY <2>4 DEF FiguresInv, Judged
  <2> QED BY <2>5, <2>6, <2>7, <2>8, <2>9 DEF FiguresInv
<1> QED BY <1>1, <1>2

(* The invariant holds in every reachable state.                             *)
LEMMA FiguresAlways == FiguresSpec => []FiguresInv
<1> QED BY FiguresStart, FiguresStep, PTL DEF FiguresSpec

(* For any figures with counts in Nat and any stored quantity: a filter      *)
(* selects the categories shown in that state (whereFor, stockoutStateOf,    *)
(* excessStateOf), and the pieces summed in SQL are those the code counts    *)
(* (confirmedQuantitySql, resolveCanonicalQuantity).                         *)
THEOREM QueriesAndCode == FiguresSpec => []QueriesAgreeWithCode
<1>1. ASSUME FiguresInv PROVE QueriesAgreeWithCode
  <2>1. \A row \in input.stock : row.quantity \in Quantity BY <1>1, RowTypes DEF FiguresInv
  <2>2. \A k \in DOMAIN trace : trace[k] \in Figures
    BY <1>1 DEF FiguresInv, FiguresTypeOK, TraceOK
  <2> QED BY <2>1, <2>2, QueriesAgree, SqlAgrees DEF QueriesAgreeWithCode
<1> QED BY <1>1, FiguresAlways, PTL

(* For any rows read, in any order: every confirmed piece of stock with a    *)
(* known category is in one figure of that category, every piece of          *)
(* unfinished work in one of coverage, unallocated and ambiguous             *)
(* (runDemandCalculation).                                                   *)
THEOREM PiecesCountedOnce == FiguresSpec => []EveryPieceOnce
<1>1. ASSUME FiguresInv, Finished PROVE EveryPieceOnce
  <2>1. left.stock = {} /\ left.wip = {} BY <1>1 DEF FiguresInv, FiguresTypeOK
  <2>2. /\ \A row \in input.stock : row \in StockRows
        /\ \A row \in input.wip : row \in WipRows
    BY <1>1, RowTypes DEF FiguresInv
  <2>3. ASSUME NEW k \in DOMAIN trace
        PROVE  Placed(trace[k]) =
                  SumFunction([row \in {row \in input.stock :
                                          KeyOf(row) = k /\ Pieces(row.quantity) # None}
                                   |-> Pieces(row.quantity)])
    <3>1. k # NoKey
      BY <1>1, NoKeyHasNoBand DEF FiguresInv, FiguresTypeOK, TraceOK
    <3>2. PICK S : S = {row \in input.stock : KeyOf(row) = k /\ Pieces(row.quantity) # None} OBVIOUS
    <3>3. S = StockAt(k) BY <2>1, <3>2 DEF StockAt, TakenStock
    <3>4. PICK f : f = [row \in S |-> Pieces(row.quantity)] OBVIOUS
    <3>5. SumFunctionOnSet(f, S) = SumFunctionOnSet(PiecesOf, S)
      BY <1>1, <3>3, <3>4, TakenTypes, SumSame
    <3>6. Placed(trace[k]) = SumFunctionOnSet(PiecesOf, S)
      BY <1>1, <3>1, <3>3 DEF FiguresInv, StockCounted, At
    <3>7. SumFunction(f) = SumFunctionOnSet(f, S) BY <3>4 DEF SumFunction
    <3> QED BY <3>2, <3>4, <3>5, <3>6, <3>7
  <2>4. ambiguous + SumFunction([k \in DOMAIN trace |-> InWork(trace[k])]) =
              SumFunction([row \in {row \in input.wip :
                                      ~row.polished /\ row.stage \notin CompletedStages}
                               |-> WipPieces(row)])
    <3>1. PICK S : S = {row \in input.wip : ~row.polished /\ row.stage \notin CompletedStages} OBVIOUS
    <3>2. S = Unfinished BY <2>1, <3>1 DEF Unfinished
    <3>3. PICK f : f = [row \in S |-> WipPieces(row)] OBVIOUS
    <3>4. SumFunctionOnSet(f, S) = SumFunctionOnSet(PiecesInWork, S)
      BY <1>1, <3>2, <3>3, TakenTypes, SumSame
    <3>5. SumFunction(f) = SumFunctionOnSet(f, S) BY <3>3 DEF SumFunction
    <3> QED BY <1>1, <3>1, <3>2, <3>3, <3>4, <3>5 DEF FiguresInv, WorkCounted, InWorkOf
  <2> QED BY <2>3, <2>4 DEF EveryPieceOnce
<1>2. FiguresInv => EveryPieceOnce BY <1>1 DEF EveryPieceOnce
<1> QED BY <1>2, FiguresAlways, PTL

(* For any rows read, in any order: a run that ends COMPLETED has counted all*)
(* of the approved stock as available, memo or reserved (runDemandCalculation).*)
THEOREM NothingLeftOut == FiguresSpec => []CompletedLeavesNothingOut
<1>1. ASSUME FiguresInv, status = "COMPLETED" PROVE CompletedLeavesNothingOut
  <2>1. left.stock = {} BY <1>1 DEF FiguresInv, FiguresTypeOK, Finished
  <2>2. TakenStock = input.stock BY <2>1 DEF TakenStock
  <2>3. PICK approved : approved = {row \in input.stock : Approved(row)} OBVIOUS
  <2>4. ASSUME NEW k
        PROVE  ~At(trace, k).review
    BY <1>1, NothingPlaced DEF FiguresInv, Judged, At
  <2>5. \A row \in input.stock : KeyOf(row) # NoKey => ~(Approved(row) <=> Pieces(row.quantity) = None)
    BY <1>1, <2>2, <2>4 DEF FiguresInv, Flagged
  <2>6. \A row \in approved : KeyOf(row) # NoKey /\ Pieces(row.quantity) # None
    BY <2>3, <2>5 DEF Approved
  <2>7. approved = StockKnown BY <2>2, <2>3, <2>5, <2>6 DEF StockKnown
  <2>8. PICK f : f = [row \in approved |-> Pieces(row.quantity)] OBVIOUS
  <2>9. SumFunction(f) = SumFunctionOnSet(PiecesOf, StockKnown)
    <3>1. SumFunctionOnSet(f, approved) = SumFunctionOnSet(PiecesOf, approved)
      BY <1>1, <2>7, <2>8, TakenTypes, SumSame
    <3> QED BY <2>7, <2>8, <3>1 DEF SumFunction
  <2>10. PICK h : h = [k \in DOMAIN trace |-> Held(trace[k])] OBVIOUS
  <2>11. h = PlacedOf(trace)
    <3>1. \A k \in DOMAIN trace : Placed(trace[k]) = Held(trace[k])
      BY <1>1, FigureTypes DEF FiguresInv, FiguresTypeOK, TraceOK, Judged, Placed
    <3> QED BY <2>10, <3>1 DEF PlacedOf
  <2>12. SumFunction(h) = SumFunction(f)
    BY <1>1, <2>9, <2>11 DEF FiguresInv, StockCounted
  <2> QED BY <2>3, <2>6, <2>8, <2>10, <2>12 DEF CompletedLeavesNothingOut
<1>2. FiguresInv => CompletedLeavesNothingOut BY <1>1 DEF CompletedLeavesNothingOut
<1> QED BY <1>2, FiguresAlways, PTL
=============================================================================
