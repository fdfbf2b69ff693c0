----------------------------- MODULE SarinPromise -----------------------------
(***************************************************************************)
(* What the Sarin services promise of the imports of one file, without     *)
(* requests, claims, leases, fences and locks: what is stored changes only *)
(* by whole uploads, checks, verdicts, outputs, archives and changes of    *)
(* the mapping catalog, one after the other.                               *)
(***************************************************************************)
EXTENDS Naturals, Sequences

CONSTANTS Imports, Saves

VARIABLES status,     \* of each import
          checks,     \* its validation attempts
          open,       \* the findings of its last completed check
          published,  \* its outputs
          rules,      \* the rules of the effective catalog
          edition     \* its version, 0 when there is none

promised == <<status, checks, open, published, rules, edition>>

Verdicts == {"VALIDATED", "NEEDS_REVIEW"}
Gone == {"NONE", "ARCHIVED"}

Init ==
    /\ status = [b \in Imports |-> "NONE"]
    /\ checks = [b \in Imports |-> <<>>]
    /\ open = [b \in Imports |-> {}]
    /\ published = [b \in Imports |-> <<>>]
    /\ rules = {}
    /\ edition \in {0, 1}

Latest(b) == Len(checks[b])

(* A file has one import that is not archived. *)
Upload(b) ==
    /\ status[b] = "NONE"
    /\ \A c \in Imports : status[c] \in Gone
    /\ status' = [status EXCEPT ![b] = "UPLOADED"]
    /\ UNCHANGED <<checks, open, published, rules, edition>>

Archive(b) ==
    /\ status[b] \notin Gone \cup {"VALIDATING"}
    /\ status' = [status EXCEPT ![b] = "ARCHIVED"]
    /\ UNCHANGED <<checks, open, published, rules, edition>>

(* A check is of the catalog effective when it starts.  It takes the place of *)
(* one under way; one that came to a verdict is not repeated under the same   *)
(* catalog.                                                                   *)
Closed(list) ==
    [n \in DOMAIN list |-> IF n = Len(list) /\ list[n].status = "RUNNING"
                           THEN [list[n] EXCEPT !.status = "ABANDONED"] ELSE list[n]]

Start(b) ==
    /\ status[b] \notin Gone
    /\ edition > 0
    /\ status[b] \in Verdicts => checks[b][Latest(b)].set # edition
    /\ status' = [status EXCEPT ![b] = "VALIDATING"]
    /\ checks' = [checks EXCEPT ![b] = Append(Closed(@),
                    [status |-> "RUNNING", result |-> "NONE", set |-> edition])]
    /\ UNCHANGED <<open, published, rules, edition>>

(* The verdict, the attempt and the findings change together; findings of     *)
(* earlier checks are closed.                                                 *)
Finish(b) ==
    /\ status[b] = "VALIDATING"
    /\ \E found \in SUBSET [attempt: {Latest(b)}, blocking: BOOLEAN] :
          LET verdict == IF \E f \in found : f.blocking THEN "NEEDS_REVIEW" ELSE "VALIDATED"
          IN /\ status' = [status EXCEPT ![b] = verdict]
             /\ checks' = [checks EXCEPT ![b][Latest(b)].status = "COMPLETED",
                                         ![b][Latest(b)].result = verdict]
             /\ open' = [open EXCEPT ![b] = found]
    /\ UNCHANGED <<published, rules, edition>>

Fail(b) ==
    /\ status[b] = "VALIDATING"
    /\ status' = [status EXCEPT ![b] = "FAILED"]
    /\ checks' = [checks EXCEPT ![b][Latest(b)].status = "FAILED"]
    /\ UNCHANGED <<open, published, rules, edition>>

(* An output is of the check that makes the import VALIDATED, once. *)
Publish(b) ==
    /\ status[b] = "VALIDATED"
    /\ \A i \in DOMAIN published[b] : published[b][i].attempt # Latest(b)
    /\ published' = [published EXCEPT ![b] = Append(
          [i \in DOMAIN @ |-> [@[i] EXCEPT !.status = "SUPERSEDED"]],
          [attempt |-> Latest(b), set |-> checks[b][Latest(b)].set, status |-> "GENERATED"])]
    /\ UNCHANGED <<status, checks, open, rules, edition>>

(* A change of the catalog is made from the effective version. *)
Amend(s) ==
    /\ \E adds \in {{}, {s}}, drops \in {{}} \cup {{r} : r \in rules} :
          /\ adds # {} \/ drops # {}
          /\ rules' = (rules \ drops) \cup adds
    /\ edition' = edition + 1
    /\ UNCHANGED <<status, checks, open, published>>

Next ==
    \/ \E b \in Imports : \/ Upload(b) \/ Archive(b) \/ Start(b) \/ Finish(b) \/ Fail(b)
                          \/ Publish(b)
    \/ \E s \in Saves : Amend(s)

Spec == Init /\ [][Next]_promised
===============================================================================
