------------------------ MODULE CanonicalStateClaim ------------------------
(***************************************************************************)
(* The one row that synchronization and demand calculation must both claim *)
(* (src/lib/fantasy/canonical-state-claim.ts): a lease with an owner token *)
(* and a fencing version.                                                  *)
(*                                                                         *)
(* A worker is one request.  Each request draws a fresh UUID as its token, *)
(* so the worker itself stands for its token.  `expiresAt < now` becomes   *)
(* the flag `lapsed`: how long a request runs against its lease is left to *)
(* the modules that use this one.  The holder column is the kind of the    *)
(* owner (a member of Syncs or of Demands).                                *)
(***************************************************************************)
EXTENDS Naturals

CONSTANTS Syncs,     \* synchronization requests
          Demands,   \* demand calculation requests
          NoOwner    \* the null owner token

ASSUME NoOwnerAssumption == NoOwner \notin Syncs \cup Demands
ASSUME KindsAssumption == Syncs \cap Demands = {}

VARIABLES claim,     \* the row: owner, lapsed, fencingVersion
          fence      \* fence[w]: the fencing version w read back after claiming

Workers == Syncs \cup Demands

(* A free row has no expiry left in it. *)
ClaimRow == {row \in [owner: Workers \cup {NoOwner}, lapsed: BOOLEAN, fencingVersion: Nat] :
                row.lapsed => row.owner # NoOwner}

FreeRow(version) == [owner |-> NoOwner, lapsed |-> FALSE, fencingVersion |-> version]

ClaimInit == /\ claim = FreeRow(0)
             /\ fence = [w \in Workers |-> 0]

(* Mutant of Claimable: the claiming UPDATE loses its WHERE clause. *)
ClaimableAlways == TRUE

(* The WHERE clause of the claiming UPDATE. *)
Claimable == claim.owner = NoOwner \/ claim.lapsed

(* claimCanonicalState, first statement: one conditional UPDATE. *)
TakeClaim(w) == /\ Claimable
                /\ claim' = [owner |-> w, lapsed |-> FALSE,
                             fencingVersion |-> claim.fencingVersion + 1]
                /\ fence' = fence

(* claimCanonicalState, second statement: the fencing version is read back *)
(* by a separate query, which may see a later owner's version.             *)
ReadFence(w) == /\ fence' = [fence EXCEPT ![w] = claim.fencingVersion]
                /\ claim' = claim

(* isClaimStillHeld compares token and version; it does not look at expiresAt. *)
IsClaimStillHeld(w) == claim.owner = w /\ claim.fencingVersion = fence[w]

(* Mutants of ReleaseClaim: no token test; a fencing version spent even when *)
(* nothing is released.                                                      *)
ReleaseClaimOfAnyOwner(w) == /\ claim' = FreeRow(claim.fencingVersion)
                             /\ fence' = fence

ReleaseClaimBumpingVersion(w) ==
    /\ claim' = IF claim.owner = w THEN FreeRow(claim.fencingVersion)
                ELSE [claim EXCEPT !.fencingVersion = @ + 1]
    /\ fence' = fence

(* releaseCanonicalState: updateMany ... where ownerToken is the caller's. *)
ReleaseClaim(w) ==
    /\ claim' = IF claim.owner = w THEN FreeRow(claim.fencingVersion) ELSE claim
    /\ fence' = fence

(* forceReleaseCanonicalState, the write: clears whatever owner is there now. *)
ForceReleaseClaim == /\ claim' = FreeRow(claim.fencingVersion + 1)
                     /\ fence' = fence

(* The lease runs out (expiresAt passes); nothing is written. *)
LapseClaim == /\ claim.owner # NoOwner
              /\ ~claim.lapsed
              /\ claim' = [claim EXCEPT !.lapsed = TRUE]
              /\ fence' = fence
============================================================================
