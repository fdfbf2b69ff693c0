---------------------------- MODULE SarinLifecycle ----------------------------
(***************************************************************************)
(* Sarin imports of one file identity, from upload to structured output:   *)
(* import-service.ts (upload, archive), validation-service.ts (claim, run, *)
(* fail), output-service.ts (generate) and mapping-service.ts (the shape   *)
(* mapping catalog every validation captures), with the triggers that      *)
(* guard the tables.                                                       *)
(*                                                                         *)
(* An action is a statement, or the statements of one transaction from its *)
(* first row lock to its commit.  Row locks are not stored: they follow    *)
(* from where the requests stand (RowLocked, Capturing, Replacing).        *)
(* A set of findings, a rule and a row of the file are abstracted: a check *)
(* finds nothing, warnings, or something blocking; a rule is named by the  *)
(* request that saved it.                                                  *)
(***************************************************************************)
EXTENDS Naturals, Sequences

CONSTANTS Imports,       \* identifiers new imports can get
          Uploads,       \* upload requests, all of the same file and details
          Validations,   \* validation requests
          Generations,   \* output requests
          Archives,      \* archive requests
          Saves,         \* requests that change the mapping catalog
          NoOne,         \* no claim token
          NoImport

Requests == Uploads \cup Validations \cup Generations \cup Archives \cup Saves

ASSUME NoOneAssumption == NoOne \notin Requests /\ NoImport \notin Imports
ASSUME KindsAssumption ==
    /\ Uploads \cap (Validations \cup Generations \cup Archives \cup Saves) = {}
    /\ Validations \cap (Generations \cup Archives \cup Saves) = {}
    /\ Generations \cap (Archives \cup Saves) = {}
    /\ Archives \cap Saves = {}

VARIABLES import,    \* SarinImportBatch rows
          attempts,  \* SarinValidationAttempt rows of each import, by number
          findings,  \* its OPEN SarinValidationIssue rows
          outputs,   \* its SarinOutputVersion rows, by version number
          catalog,   \* the rules of each SarinShapeMappingSet, by version
          wanted,    \* the rules the committed catalog changes add up to
          pc,        \* the next statement of each request
          target,    \* the import it is about
          seen,      \* the import row it works from
          captured,  \* the version of the catalog it works from
          change     \* the rules a catalog request adds and drops

vars == <<import, attempts, findings, outputs, catalog, wanted, pc, target, seen,
          captured, change>>
tables == <<import, attempts, findings, outputs, catalog, wanted>>

Results == {"VALIDATED", "NEEDS_REVIEW"}
ImportStatuses == {"NONE", "UPLOADED", "VALIDATING", "FAILED", "ARCHIVED"} \cup Results
ImportRow == [status: ImportStatuses, attempt: Nat, fence: Nat,
              token: Validations \cup {NoOne}, expired: BOOLEAN, set: Nat]
AttemptRow == [status: {"RUNNING", "COMPLETED", "FAILED", "ABANDONED"},
               result: Results \cup {"NONE"}, set: Nat]
Finding == [attempt: Nat, blocking: BOOLEAN]
OutputRow == [attempt: Nat, set: Nat, status: {"GENERATED", "SUPERSEDED"}]
Change == [adds: SUBSET Saves, drops: SUBSET Saves]

Ended == {"done", "refused", "unconfigured", "crashed"}
Steps == {"start", "find", "archive", "capture", "blocked", "claim", "run", "write",
          "finalize", "fail", "generate", "edit", "commit"} \cup Ended

NoRow == [status |-> "NONE", attempt |-> 0, fence |-> 0, token |-> NoOne,
          expired |-> FALSE, set |-> 0]

(* The baseline catalog is effective, or was never installed. *)
Init ==
    /\ import = [b \in Imports |-> NoRow]
    /\ attempts = [b \in Imports |-> <<>>]
    /\ findings = [b \in Imports |-> {}]
    /\ outputs = [b \in Imports |-> <<>>]
    /\ catalog \in {<<>>, <<{}>>}
    /\ wanted = {}
    /\ pc = [w \in Requests |-> "start"]
    /\ target = [w \in Requests |-> NoImport]
    /\ seen = [w \in Requests |-> NoRow]
    /\ captured = [w \in Requests |-> 0]
    /\ change = [w \in Requests |-> [adds |-> {}, drops |-> {}]]

Goto(w, step) == pc' = [pc EXCEPT ![w] = step]

(* A request that only moves on. *)
Moves(w, step) ==
    /\ Goto(w, step)
    /\ UNCHANGED <<tables, target, seen, captured, change>>

(* It reads an import row and works from what it saw. *)
Reads(w, b, step) ==
    /\ target' = [target EXCEPT ![w] = b]
    /\ seen' = [seen EXCEPT ![w] = import[b]]
    /\ Goto(w, step)
    /\ UNCHANGED <<tables, captured, change>>

Active(b) == import[b].status \notin {"NONE", "ARCHIVED"}
Visible(b) == import[b].status # "NONE"

(* Mutant of Holds: any claim will do. *)
HoldsAny(v) == import[target[v]].status = "VALIDATING"

(* The claim a worker was given is still the import's. *)
Holds(v) ==
    LET row == import[target[v]]
    IN row.status = "VALIDATING" /\ row.token = v /\ row.fence = seen[v].fence

(* Mutant of RowLocked: a refused generation returns with its lock held. *)
RowLockedForever(b) ==
    \/ \E v \in Validations : target[v] = b /\ pc[v] = "finalize" /\ Holds(v)
    \/ \E g \in Generations : target[g] = b /\ pc[g] \in {"generate", "refused"}

(* Mutant of RowLocked: outputs are generated without FOR UPDATE. *)
RowLockedByChecks(b) ==
    \E v \in Validations : target[v] = b /\ pc[v] = "finalize" /\ Holds(v)

(* A check that has written structure holds FOR SHARE, an output generation  *)
(* FOR UPDATE: every other transaction that writes the row waits.            *)
RowLocked(b) ==
    \/ \E v \in Validations : target[v] = b /\ pc[v] = "finalize" /\ Holds(v)
    \/ \E g \in Generations : target[g] = b /\ pc[g] = "generate"
-----------------------------------------------------------------------------
(* ingestSarinSource: ON CONFLICT DO NOTHING under the unique index on the   *)
(* identity of imports that are not ARCHIVED; on a conflict, a second        *)
(* statement looks for the import that was in the way.                       *)

UploadNew(u) ==
    /\ pc[u] = "start"
    /\ \A b \in Imports : ~Active(b)
    /\ \E b \in Imports :
          /\ ~Visible(b)
          /\ import' = [import EXCEPT ![b].status = "UPLOADED"]
          /\ target' = [target EXCEPT ![u] = b]
    /\ Goto(u, "done")
    /\ UNCHANGED <<attempts, findings, outputs, catalog, wanted, seen, captured, change>>

UploadDuplicate(u) ==
    /\ pc[u] = "start"
    /\ \E b \in Imports : Active(b)
    /\ Moves(u, "find")

UploadFind(u) ==
    /\ pc[u] = "find"
    /\ \/ \E b \in Imports : Active(b) /\ Reads(u, b, "done")
       \/ (\A b \in Imports : ~Active(b)) /\ Moves(u, "refused")
-----------------------------------------------------------------------------
(* deleteSarinImport: the status is read outside the transaction; the guard  *)
(* trigger sees the row the update finds.                                    *)

ArchiveRead(a) ==
    /\ pc[a] = "start"
    /\ \E b \in Imports :
          /\ Visible(b)
          /\ Reads(a, b, CASE import[b].status = "ARCHIVED" -> "done"
                           [] import[b].status = "VALIDATING" -> "refused"
                           [] OTHER -> "archive")

ArchiveAllowed(status) == status \notin {"VALIDATING", "ARCHIVED"}

ArchiveWrite(a) ==
    /\ pc[a] = "archive"
    /\ ~RowLocked(target[a])
    /\ ArchiveAllowed(import[target[a]].status)
    /\ import' = [import EXCEPT ![target[a]].status = "ARCHIVED"]
    /\ Goto(a, "done")
    /\ UNCHANGED <<attempts, findings, outputs, catalog, wanted, target, seen, captured,
                   change>>

ArchiveRefused(a) ==
    /\ pc[a] = "archive"
    /\ ~RowLocked(target[a])
    /\ ~ArchiveAllowed(import[target[a]].status)
    /\ Moves(a, "refused")
-----------------------------------------------------------------------------
(* saveShapeMapping and removeShapeMapping, under the advisory lock of the   *)
(* catalog: add a rule, replace one, or remove one, in a new version.        *)

Effective == Len(catalog)
RulesOf(n) == IF n = 0 THEN {} ELSE catalog[n]

CatalogBusy == \E s \in Saves : pc[s] \in {"edit", "commit"}
Replacing == \E s \in Saves : pc[s] = "commit" /\ captured[s] > 0
Capturing(n) == \E v \in Validations : pc[v] = "claim" /\ captured[v] = n

ChangesTo(s, rules) ==
    {c \in [adds: {{}, {s}}, drops: {{}} \cup {{r} : r \in rules}] :
        c.adds # {} \/ c.drops # {}}

(* Mutant of SaveBegin: the advisory lock is not taken. *)
SaveBeginUnlocked(s) ==
    /\ pc[s] = "start"
    /\ captured' = [captured EXCEPT ![s] = Effective]
    /\ \E c \in ChangesTo(s, RulesOf(Effective)) : change' = [change EXCEPT ![s] = c]
    /\ Goto(s, "edit")
    /\ UNCHANGED <<tables, target, seen>>

SaveBegin(s) ==
    /\ pc[s] = "start"
    /\ ~CatalogBusy
    /\ captured' = [captured EXCEPT ![s] = Effective]
    /\ \E c \in ChangesTo(s, RulesOf(Effective)) : change' = [change EXCEPT ![s] = c]
    /\ Goto(s, "edit")
    /\ UNCHANGED <<tables, target, seen>>

(* Mutant of SaveReplace: does not wait for the checks that captured the row. *)
SaveReplaceAtOnce(s) ==
    /\ pc[s] = "edit"
    /\ Moves(s, "commit")

(* The replaced version is marked SUPERSEDED, which locks its row. *)
SaveReplace(s) ==
    /\ pc[s] = "edit"
    /\ ~Capturing(captured[s])
    /\ Moves(s, "commit")

SaveCommit(s) ==
    LET apply(rules) == (rules \ change[s].drops) \cup change[s].adds
    IN /\ pc[s] = "commit"
       /\ catalog' = Append(catalog, apply(RulesOf(captured[s])))
       /\ wanted' = apply(wanted)
       /\ Goto(s, "done")
       /\ UNCHANGED <<import, attempts, findings, outputs, target, seen, captured, change>>

(* A duplicate, an overlap, a rule that no longer exists, or a failure. *)
SaveRefused(s) ==
    /\ pc[s] \in {"edit", "commit"}
    /\ Moves(s, "refused")
-----------------------------------------------------------------------------
(* claimSarinValidation. *)

ClaimRead(v) ==
    /\ pc[v] = "start"
    /\ \E b \in Imports :
          /\ Visible(b)
          /\ Reads(v, b, IF import[b].status = "ARCHIVED" THEN "refused" ELSE "capture")

Captures(v) ==
    /\ captured' = [captured EXCEPT ![v] = Effective]
    /\ Goto(v, IF Effective = 0 THEN "unconfigured" ELSE "claim")
    /\ UNCHANGED <<tables, target, seen, change>>

(* captureEffectiveSnapshot: SELECT ... WHERE status = 'EFFECTIVE' FOR SHARE. *)
Capture(v) ==
    /\ pc[v] = "capture"
    /\ ~Replacing
    /\ Captures(v)

(* The row is being replaced: the SELECT waits for it.  When the new version *)
(* commits, the row waited for no longer qualifies and the version that      *)
(* replaced it is not in the statement's snapshot: no row is returned.       *)
CaptureWaits(v) ==
    /\ pc[v] = "capture"
    /\ Replacing
    /\ captured' = [captured EXCEPT ![v] = Effective]
    /\ Goto(v, "blocked")
    /\ UNCHANGED <<tables, target, seen, change>>

CaptureResumes(v) ==
    /\ pc[v] = "blocked"
    /\ \A s \in Saves : ~(pc[s] = "commit" /\ captured[s] = captured[v])
    /\ IF captured[v] = Effective THEN Captures(v) ELSE Moves(v, "unconfigured")

(* A completed check of the same catalog is not repeated. *)
CheckedAlready(v) ==
    /\ seen[v].status \in Results
    /\ seen[v].set = captured[v]
    /\ attempts[target[v]][seen[v].attempt].status = "COMPLETED"
    /\ attempts[target[v]][seen[v].attempt].set = captured[v]

ClaimReuse(v) ==
    /\ pc[v] = "claim"
    /\ CheckedAlready(v)
    /\ Moves(v, "done")

(* The row is still what was read and, when validating, its lease ran out. *)
Claimable(v) ==
    LET row == import[target[v]]
    IN /\ row.status = seen[v].status
       /\ row.fence = seen[v].fence
       /\ seen[v].status = "VALIDATING" => seen[v].expired /\ row.token = seen[v].token

(* Mutant of Abandoned: an expired claim's attempt is left running. *)
NotAbandoned(list) == list

Abandoned(list) ==
    [n \in DOMAIN list |-> IF n = Len(list) /\ list[n].status = "RUNNING"
                           THEN [list[n] EXCEPT !.status = "ABANDONED"] ELSE list[n]]

Claim(v) ==
    LET b == target[v]
        row == [import[b] EXCEPT !.status = "VALIDATING", !.attempt = @ + 1,
                                 !.fence = @ + 1, !.token = v, !.expired = FALSE,
                                 !.set = captured[v]]
    IN /\ pc[v] = "claim"
       /\ ~CheckedAlready(v)
       /\ ~RowLocked(b)
       /\ Claimable(v)
       /\ import' = [import EXCEPT ![b] = row]
       /\ attempts' = [attempts EXCEPT ![b] = Append(Abandoned(@),
                         [status |-> "RUNNING", result |-> "NONE", set |-> captured[v]])]
       /\ seen' = [seen EXCEPT ![v] = row]
       /\ Goto(v, "run")
       /\ UNCHANGED <<findings, outputs, catalog, wanted, target, captured, change>>

(* VALIDATION_IN_PROGRESS. *)
ClaimRefused(v) ==
    /\ pc[v] = "claim"
    /\ ~CheckedAlready(v)
    /\ ~RowLocked(target[v])
    /\ ~Claimable(v)
    /\ Moves(v, "refused")
-----------------------------------------------------------------------------
(* runSarinValidationAttempt, one transaction. *)

RunBegin(v) ==
    /\ pc[v] = "run"
    /\ Moves(v, IF Holds(v) THEN "write" ELSE "refused")

(* The first block or finding takes the row FOR SHARE in a trigger, which    *)
(* refuses the findings of an attempt that is no longer the current one.     *)
RunWrite(v) ==
    /\ pc[v] = "write"
    /\ \A g \in Generations : ~(target[g] = target[v] /\ pc[g] = "generate")
    /\ \/ Holds(v) /\ Moves(v, "finalize")
       \/ ~Holds(v) /\ \E step \in {"finalize", "fail"} : Moves(v, step)

(* What a check can leave open: without a write, nothing. *)
FoundBy(v) ==
    LET n == seen[v].attempt
    IN IF pc[v] = "write" THEN {{}}
       ELSE SUBSET [attempt: {n}, blocking: BOOLEAN]

ResultOf(found) == IF \E f \in found : f.blocking THEN "NEEDS_REVIEW" ELSE "VALIDATED"

StillRunning(v) == attempts[target[v]][seen[v].attempt].status = "RUNNING"

(* Mutant of OpenAfter: the earlier findings stay open. *)
OpenAfterKeeping(v, found) == findings[target[v]] \cup found

(* Findings of earlier attempts are superseded in the same transaction. *)
OpenAfter(v, found) == {f \in findings[target[v]] : f.attempt >= seen[v].attempt} \cup found

RunFinalize(v) ==
    LET b == target[v]
    IN /\ pc[v] \in {"write", "finalize"}
       /\ pc[v] = "write" => ~RowLocked(b)
       /\ Holds(v) /\ StillRunning(v)
       /\ \E found \in FoundBy(v) :
             /\ import' = [import EXCEPT ![b].status = ResultOf(found), ![b].token = NoOne,
                                         ![b].expired = FALSE]
             /\ attempts' = [attempts EXCEPT ![b][seen[v].attempt].status = "COMPLETED",
                                             ![b][seen[v].attempt].result = ResultOf(found)]
             /\ findings' = [findings EXCEPT ![b] = OpenAfter(v, found)]
       /\ Goto(v, "done")
       /\ UNCHANGED <<outputs, catalog, wanted, target, seen, captured, change>>

(* StaleClaimError: everything the run wrote is rolled back. *)
RunStale(v) ==
    /\ pc[v] \in {"write", "finalize"}
    /\ ~(Holds(v) /\ StillRunning(v))
    /\ Moves(v, "refused")

(* Any other error rolls back too, and the attempt is to be recorded FAILED. *)
RunError(v) ==
    /\ pc[v] \in {"run", "write", "finalize"}
    /\ Moves(v, "fail")

FailRecord(v) ==
    LET b == target[v]
    IN /\ pc[v] = "fail"
       /\ ~RowLocked(b)
       /\ Holds(v)
       /\ import' = [import EXCEPT ![b].status = "FAILED", ![b].token = NoOne,
                                   ![b].expired = FALSE]
       /\ attempts' = [attempts EXCEPT ![b] = [n \in DOMAIN @ |->
                          IF n = seen[v].attempt /\ @[n].status = "RUNNING"
                          THEN [@[n] EXCEPT !.status = "FAILED"] ELSE @[n]]]
       /\ Goto(v, "refused")
       /\ UNCHANGED <<findings, outputs, catalog, wanted, target, seen, captured, change>>

FailUnrecorded(v) ==
    /\ pc[v] = "fail"
    /\ ~Holds(v)
    /\ Moves(v, "refused")

(* The process dies: an open transaction is rolled back, the claim stays. *)
Crash(v) ==
    /\ pc[v] \in {"run", "write", "finalize", "fail"}
    /\ Moves(v, "crashed")

Expire(b) ==
    /\ import[b].status = "VALIDATING" /\ ~import[b].expired
    /\ import' = [import EXCEPT ![b].expired = TRUE]
    /\ UNCHANGED <<attempts, findings, outputs, catalog, wanted, pc, target, seen, captured,
                   change>>
-----------------------------------------------------------------------------
(* generateSarinOutput: the row is locked FOR UPDATE, then read. *)

GenerateBegin(g) ==
    /\ pc[g] = "start"
    /\ \E b \in Imports :
          /\ Visible(b)
          /\ ~RowLocked(b)
          /\ Reads(g, b, IF import[b].status = "VALIDATED" THEN "generate" ELSE "refused")

(* OUTPUT_GENERATION_IN_PROGRESS: the lock was not granted in time. *)
GenerateBusy(g) ==
    /\ pc[g] = "start"
    /\ \E b \in Imports : RowLocked(b)
    /\ Moves(g, "refused")

(* The current attempt is complete and clean, with nothing blocking open. *)
CleanAttempt(g) ==
    LET b == target[g]
        n == seen[g].attempt
    IN /\ n \in DOMAIN attempts[b]
       /\ attempts[b][n].status = "COMPLETED" /\ attempts[b][n].result = "VALIDATED"
       /\ \A f \in findings[b] : ~(f.attempt = n /\ f.blocking)

(* The inputs hash of an output names its attempt: one version per attempt. *)
ExistingOutput(b, n) == \E i \in DOMAIN outputs[b] : outputs[b][i].attempt = n

Superseded(list) == [i \in DOMAIN list |-> [list[i] EXCEPT !.status = "SUPERSEDED"]]

GenerateCommit(g) ==
    LET b == target[g]
        n == seen[g].attempt
    IN /\ pc[g] = "generate"
       /\ CleanAttempt(g)
       /\ ~ExistingOutput(b, n)
       /\ outputs' = [outputs EXCEPT ![b] = Append(Superseded(@),
                        [attempt |-> n, set |-> attempts[b][n].set, status |-> "GENERATED"])]
       /\ Goto(g, "done")
       /\ UNCHANGED <<import, attempts, findings, catalog, wanted, target, seen, captured,
                      change>>

GenerateReuse(g) ==
    /\ pc[g] = "generate"
    /\ CleanAttempt(g)
    /\ ExistingOutput(target[g], seen[g].attempt)
    /\ Moves(g, "done")

(* Another attempt was reviewed, the inputs are incomplete, or an error. *)
GenerateRefused(g) ==
    /\ pc[g] = "generate"
    /\ Moves(g, "refused")
-----------------------------------------------------------------------------
(* A request for an import that does not exist is refused; a transaction     *)
(* that has changed nothing yet may fail.                                    *)
NotFound(w) ==
    /\ w \in Validations \cup Generations \cup Archives
    /\ pc[w] = "start"
    /\ \A b \in Imports : ~Visible(b)
    /\ Moves(w, "refused")

Abort(w) ==
    /\ pc[w] \in {"find", "archive", "capture", "blocked", "claim"}
    /\ Moves(w, "refused")

UploadStep(u) == UploadNew(u) \/ UploadDuplicate(u) \/ UploadFind(u)
ArchiveStep(a) == ArchiveRead(a) \/ ArchiveWrite(a) \/ ArchiveRefused(a)
SaveStep(s) == SaveBegin(s) \/ SaveReplace(s) \/ SaveCommit(s)
ClaimStep(v) ==
    \/ ClaimRead(v) \/ Capture(v) \/ CaptureWaits(v) \/ CaptureResumes(v)
    \/ ClaimReuse(v) \/ Claim(v) \/ ClaimRefused(v)
RunStep(v) ==
    \/ RunBegin(v) \/ RunWrite(v) \/ RunFinalize(v) \/ RunStale(v)
    \/ FailRecord(v) \/ FailUnrecorded(v)
GenerateStep(g) ==
    \/ GenerateBegin(g) \/ GenerateBusy(g) \/ GenerateCommit(g) \/ GenerateReuse(g)

Progress(w) ==
    \/ NotFound(w)
    \/ w \in Uploads /\ UploadStep(w)
    \/ w \in Archives /\ ArchiveStep(w)
    \/ w \in Saves /\ SaveStep(w)
    \/ w \in Validations /\ (ClaimStep(w) \/ RunStep(w))
    \/ w \in Generations /\ GenerateStep(w)

Trouble(w) ==
    \/ Abort(w)
    \/ w \in Saves /\ SaveRefused(w)
    \/ w \in Validations /\ (RunError(w) \/ Crash(w))
    \/ w \in Generations /\ GenerateRefused(w)

Next ==
    \/ \E w \in Requests : Progress(w) \/ Trouble(w)
    \/ \E b \in Imports : Expire(b)

Spec == Init /\ [][Next]_vars
FairSpec == Spec /\ \A w \in Requests : WF_vars(Progress(w))
-----------------------------------------------------------------------------
(* Types; an import has a claim token exactly while it is being validated. *)
TypeOK ==
    /\ import \in [Imports -> ImportRow]
    /\ attempts \in [Imports -> Seq(AttemptRow)]
    /\ findings \in [Imports -> SUBSET Finding]
    /\ outputs \in [Imports -> Seq(OutputRow)]
    /\ catalog \in Seq(SUBSET Saves)
    /\ wanted \in SUBSET Saves
    /\ pc \in [Requests -> Steps]
    /\ target \in [Requests -> Imports \cup {NoImport}]
    /\ seen \in [Requests -> ImportRow]
    /\ captured \in [Requests -> Nat]
    /\ change \in [Requests -> Change]
    /\ \A b \in Imports : import[b].token # NoOne <=> import[b].status = "VALIDATING"

(* The import and its attempts never disagree, whoever crashed, failed or    *)
(* was overtaken: attempts are numbered without gaps, only the last can be   *)
(* running, it runs exactly while the import is VALIDATING, and a verdict is *)
(* that of the last attempt under the catalog the import names.              *)
AttemptsAgree ==
    \A b \in Imports :
        LET row == import[b]
            list == attempts[b]
            last == Len(list)
        IN /\ row.attempt = last /\ row.fence = last
           /\ \A n \in DOMAIN list :
                 list[n].status = "RUNNING" <=> row.status = "VALIDATING" /\ n = last
           /\ row.status \in Results =>
                 /\ last > 0
                 /\ list[last] = [status |-> "COMPLETED", result |-> row.status, set |-> row.set]
           /\ row.status = "FAILED" => last > 0 /\ list[last].status = "FAILED"

(* The open findings are those of one check, the last that completed: a      *)
(* failed or abandoned attempt neither adds to them nor takes any away, and  *)
(* an import needs review exactly when one of its own blocks it.             *)
FindingsOfLastCheck ==
    \A b \in Imports :
        /\ \A f \in findings[b] :
              /\ f.attempt \in DOMAIN attempts[b]
              /\ attempts[b][f.attempt].status = "COMPLETED"
              /\ \A n \in DOMAIN attempts[b] :
                    n > f.attempt => attempts[b][n].status # "COMPLETED"
        /\ import[b].status \in Results =>
              (import[b].status = "NEEDS_REVIEW" <=> \E f \in findings[b] : f.blocking)

(* Every output derives from a clean completed attempt and the catalog that  *)
(* attempt captured; no attempt has two; only the newest is current.         *)
OutputLineage ==
    \A b \in Imports :
        LET list == outputs[b]
        IN \A i \in DOMAIN list :
              /\ list[i].attempt \in DOMAIN attempts[b]
              /\ attempts[b][list[i].attempt] =
                    [status |-> "COMPLETED", result |-> "VALIDATED", set |-> list[i].set]
              /\ list[i].status = "GENERATED" <=> i = Len(list)
              /\ \A j \in DOMAIN list : i < j => list[i].attempt < list[j].attempt

(* Concurrent changes of the catalog lose nothing: the effective version has *)
(* the rules that all committed changes, in their order, leave.              *)
CatalogKeepsEveryChange == RulesOf(Effective) = wanted

(* An attempt starts under the catalog that is effective when its claim      *)
(* commits, though the claim captured it several statements earlier.         *)
AttemptsStartOnEffectiveCatalog ==
    [][\A b \in Imports : Len(attempts'[b]) > Len(attempts[b]) =>
          attempts'[b][Len(attempts'[b])].set = Len(catalog')]_vars

(* A worker whose import has been claimed again changes no table, whichever  *)
(* statement it had reached.                                                 *)
StaleWorkerChangesNothing ==
    [][\A v \in Validations :
          /\ pc[v] \in {"run", "write", "finalize", "fail"} /\ pc'[v] # pc[v]
          /\ import[target[v]].attempt # seen[v].attempt
          => UNCHANGED tables]_vars

(* An archived import is history: no check or output under way when it was   *)
(* archived reaches its row, attempts, findings or outputs.                  *)
ArchivedIsFrozen ==
    [][\A b \in Imports : import[b].status = "ARCHIVED" =>
          /\ import'[b] = import[b] /\ attempts'[b] = attempts[b]
          /\ findings'[b] = findings[b] /\ outputs'[b] = outputs[b]]_vars

(* However requests, leases, crashes and catalog changes interleave, what is *)
(* stored changes as SarinPromise says, one whole operation at a time.       *)
Promise == INSTANCE SarinPromise WITH
              status <- [b \in Imports |-> import[b].status], checks <- attempts,
              open <- findings, published <- outputs,
              rules <- RulesOf(Effective), edition <- Effective

ImplementsPromise == Promise!Spec

(* Every request is answered: the waits for row locks and for the catalog's  *)
(* advisory lock all end.                                                    *)
EveryRequestAnswered == \A w \in Requests : <>(pc[w] \in Ended)
-----------------------------------------------------------------------------
(* mapping-service.ts: "Shape mappings are not configured."  A claim that    *)
(* waits for a replacement of the catalog is told so although one is         *)
(* effective before and after.                                               *)
NotConfiguredIsTrue ==
    [][\A v \in Validations :
          pc[v] # "unconfigured" /\ pc'[v] = "unconfigured" => catalog = <<>>]_vars
=============================================================================
