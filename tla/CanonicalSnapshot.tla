------------------------- MODULE CanonicalSnapshot -------------------------
(***************************************************************************)
(* What synchronization and demand calculation promise together, with no   *)
(* locks, leases or retries: the canonical records change only by the step *)
(* of a synchronization that owns them, and a demand result is made by the *)
(* owner from exactly one version, the one current when it is published.   *)
(***************************************************************************)
EXTENDS Naturals

CONSTANTS Syncs, Demands, NoOwner

VARIABLES owner,     \* the request that owns the canonical records
          version,   \* how many batches the canonical records have absorbed
          result     \* result[d]: the versions d's published figures mix

vars == <<owner, version, result>>

Workers == Syncs \cup Demands

Init == /\ owner = NoOwner
        /\ version = 0
        /\ result = [d \in Demands |-> {}]

Acquire(w) == /\ owner # w
              /\ owner' = w
              /\ UNCHANGED <<version, result>>

Yield == /\ owner # NoOwner
         /\ owner' = NoOwner
         /\ UNCHANGED <<version, result>>

Commit(s) == /\ owner = s
             /\ version' = version + 1
             /\ UNCHANGED <<owner, result>>

Publish(d) == /\ owner = d
              /\ result[d] = {}
              /\ result' = [result EXCEPT ![d] = {version}]
              /\ UNCHANGED <<owner, version>>

Next == \/ \E w \in Workers : Acquire(w)
        \/ Yield
        \/ \E s \in Syncs : Commit(s)
        \/ \E d \in Demands : Publish(d)

Spec == Init /\ [][Next]_vars
============================================================================
