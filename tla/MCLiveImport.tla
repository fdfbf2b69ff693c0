---------------------------- MODULE MCLiveImport ----------------------------
(***************************************************************************)
(* What arrives from Fantasy and is stored, one part at a time: `part'     *)
(* says whether a behaviour is about live imports (two over two lots for   *)
(* the interleavings, or one over five lots for the guard, where a lot     *)
(* more or less is not half of them) or about captures of raw batches.     *)
(***************************************************************************)
EXTENDS LiveImport, RawIngestion, TLC

CONSTANTS l1, l2, l3, l4, l5, r1, r2, k1, k2, c1, c2, c3, i1, lotId, weight

VARIABLE part

TwoLots == {l1, l2}
TwoRequests == {r1, r2}
TwoContents == {k1, k2}
FiveLots == {l1, l2, l3, l4, l5}

(* A batch as the contract wants it, one out of order and one without Lot ID. *)
TheContract == <<lotId, weight>>
Column(name) == [name |-> name, spelling |-> "exact"]
Body(headers, cells) ==
    [supported |-> TRUE, headers |-> headers, rows |-> <<[form |-> "POSITIONAL", cells |-> cells]>>]
TheBodies == {Body(<<Column(lotId), Column(weight)>>, <<"text", "other">>),
              Body(<<Column(weight), Column(lotId)>>, <<"other", "text">>),
              Body(<<Column(weight)>>, <<"other">>)}

NoLots == \A l \in Lots : lot[l].content = NoContent

BothInit ==
    /\ Init /\ RawInit
    /\ part \in {"live", "raw"}
    /\ part = "raw" => NoLots

BothNext ==
    \/ part = "live" /\ Next /\ UNCHANGED <<part, rawVars>>
    \/ part = "raw" /\ RawNext /\ UNCHANGED <<part, vars>>

BothSpec == BothInit /\ [][BothNext]_<<part, vars, rawVars>>

TwoSymmetry == Permutations(TwoLots) \cup Permutations(TwoRequests) \cup Permutations(TwoContents)
FiveSymmetry == Permutations(FiveLots)
=============================================================================
