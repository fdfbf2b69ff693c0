-------------------------- MODULE MCSarinLifecycle --------------------------
(***************************************************************************)
(* SarinLifecycle on small instances.                                      *)
(***************************************************************************)
EXTENDS SarinLifecycle, TLC

CONSTANTS b1, b2, u1, u2, v1, v2, g1, g2, a1, c1, c2

OneImport == {b1}
TwoImports == {b1, b2}
OneUpload == {u1}
TwoUploads == {u1, u2}
OneValidation == {v1}
TwoValidations == {v1, v2}
OneGeneration == {g1}
TwoGenerations == {g1, g2}
OneArchive == {a1}
OneSave == {c1}
TwoSaves == {c1, c2}

Symmetry == Permutations(TwoValidations) \cup Permutations(TwoGenerations)
            \cup Permutations(TwoSaves)
=============================================================================
