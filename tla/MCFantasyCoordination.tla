----------------------- MODULE MCFantasyCoordination -----------------------
(***************************************************************************)
(* FantasyCoordination on small instances: two synchronizations, the       *)
(* second a retry, one or two demand calculations, one live import.        *)
(***************************************************************************)
EXTENDS FantasyCoordination, TLC

CONSTANTS s1, s2, d1, d2, l1

OneSync == {s1}
TwoSyncs == {s1, s2}
OneRetry == {s2}
OneDemand == {d1}
TwoDemands == {d1, d2}
OneLiveRun == {l1}

(* Demand calculations are interchangeable. *)
DemandSymmetry == Permutations(TwoDemands)
============================================================================
