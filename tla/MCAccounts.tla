----------------------------- MODULE MCAccounts -----------------------------
(***************************************************************************)
(* One account and its sessions, or the accounts and who administers them: *)
(* `part' says which of the two a behaviour is about.                      *)
(***************************************************************************)
EXTENDS SignIn, AccessAdministration, TLC

CONSTANTS q1, q2, ann, bob, cat, w1, w2, planner, a1, superAdmin, nobody

VARIABLE part

TheRequests == {q1, q2}
TheWorkers == {w1, w2}
TheSupers == {ann, bob}

Symmetry == Permutations(TheRequests) \cup Permutations(TheWorkers)
            \cup Permutations(TheSupers)

Init == part \in {"session", "access"} /\ SignInInit /\ AccessInit

Next ==
    \/ part = "session" /\ SignInNext /\ UNCHANGED <<part, accessVars>>
    \/ part = "access" /\ AccessNext /\ UNCHANGED <<part, signInVars>>

Spec == Init /\ [][Next]_<<part, signInVars, accessVars>>
=============================================================================
