------------------------ MODULE SarinLifecycle_proofs ------------------------
(***************************************************************************)
(* SarinLifecycle for any sets of imports and requests.  The inductive     *)
(* invariant has three parts: TypeInv (types), CatalogInv (the catalog and *)
(* who has captured which version of it) and RecordsInv (what is stored of *)
(* an import).  The last two each rest on the first; together with what    *)
(* requests have read (ReadInv, ChangesOK) they give the refinement of     *)
(* SarinPromise, at the end.                                               *)
(***************************************************************************)
EXTENDS SarinLifecycle, SequenceTheorems, TLAPS

-----------------------------------------------------------------------------
(* Sequences that a step rewrites element by element. *)

(* A function on 1..n is a sequence. *)
LEMMA FunctionIsSeq ==
  ASSUME NEW S, NEW n \in Nat, NEW f \in [1..n -> S]
  PROVE  f \in Seq(S) /\ Len(f) = n
  BY SeqDef

(* Abandoning an attempt keeps the list and changes a running last one only. *)
LEMMA AbandonedList ==
  ASSUME NEW list \in Seq(AttemptRow)
  PROVE  /\ Abandoned(list) \in Seq(AttemptRow)
         /\ Len(Abandoned(list)) = Len(list)
         /\ \A n \in 1..Len(list) :
               Abandoned(list)[n] = IF n = Len(list) /\ list[n].status = "RUNNING"
                                    THEN [list[n] EXCEPT !.status = "ABANDONED"] ELSE list[n]
<1>1. Len(list) \in Nat /\ DOMAIN list = 1..Len(list)
  BY LenProperties
<1>2. \A n \in 1..Len(list) : list[n] \in AttemptRow
  BY ElementOfSeq
<1>3. \A n \in 1..Len(list) : [list[n] EXCEPT !.status = "ABANDONED"] \in AttemptRow
  BY <1>2 DEF AttemptRow
<1>4. Abandoned(list) \in [1..Len(list) -> AttemptRow]
  BY <1>1, <1>2, <1>3 DEF Abandoned
<1>5. Abandoned(list) \in Seq(AttemptRow) /\ Len(Abandoned(list)) = Len(list)
  BY <1>1, <1>4, FunctionIsSeq
<1> QED BY <1>1, <1>5 DEF Abandoned

(* Two fields of an attempt change. *)
LEMMA TwoFields ==
  ASSUME NEW a \in AttemptRow, NEW s, NEW r
  PROVE  [[a EXCEPT !.status = s] EXCEPT !.result = r]
            = [status |-> s, result |-> r, set |-> a.set]
<1> DEFINE one == [a EXCEPT !.status = s]
<1>1. a = [status |-> a.status, result |-> a.result, set |-> a.set]
  BY DEF AttemptRow
<1>2. one = [status |-> s, result |-> a.result, set |-> a.set]
  BY <1>1
<1> HIDE DEF one
<1>3. [one EXCEPT !.result = r] = [status |-> s, result |-> r, set |-> a.set]
  BY <1>2
<1> QED BY <1>3 DEF one

(* The attempt with number n has finished. *)
Finish(list, n, status, result) ==
  [i \in DOMAIN list |-> IF i = n THEN [status |-> status, result |-> result, set |-> list[i].set]
                         ELSE list[i]]

LEMMA FinishList ==
  ASSUME NEW list \in Seq(AttemptRow), NEW n,
         NEW status \in {"COMPLETED", "FAILED"}, NEW result \in Results \cup {"NONE"}
  PROVE  /\ Finish(list, n, status, result) \in Seq(AttemptRow)
         /\ Len(Finish(list, n, status, result)) = Len(list)
         /\ \A i \in 1..Len(list) : i # n => Finish(list, n, status, result)[i] = list[i]
         /\ n \in 1..Len(list) =>
               /\ Finish(list, n, status, result)[n].status = status
               /\ Finish(list, n, status, result)[n].result = result
               /\ Finish(list, n, status, result)[n].set = list[n].set
<1>1. Len(list) \in Nat /\ DOMAIN list = 1..Len(list)
  BY LenProperties
<1>2. \A i \in 1..Len(list) : list[i] \in AttemptRow
  BY ElementOfSeq
<1>3. \A i \in 1..Len(list) :
         [status |-> status, result |-> result, set |-> list[i].set] \in AttemptRow
  BY <1>2 DEF AttemptRow
<1>4. Finish(list, n, status, result) \in [1..Len(list) -> AttemptRow]
  BY <1>1, <1>2, <1>3 DEF Finish
<1>5. /\ Finish(list, n, status, result) \in Seq(AttemptRow)
      /\ Len(Finish(list, n, status, result)) = Len(list)
  BY <1>1, <1>4, FunctionIsSeq
<1> QED BY <1>1, <1>5 DEF Finish

(* An attempt has finished when two of its fields have changed. *)
LEMMA FinishedList ==
  ASSUME NEW list \in Seq(AttemptRow), NEW n, NEW r
  PROVE  [list EXCEPT ![n].status = "COMPLETED", ![n].result = r]
            = Finish(list, n, "COMPLETED", r)
<1> DEFINE one == [list EXCEPT ![n].status = "COMPLETED"]
           two == [one EXCEPT ![n].result = r]
<1>1. list \in [1..Len(list) -> AttemptRow] /\ DOMAIN list = 1..Len(list)
  BY LenProperties
<1>2. ASSUME NEW i \in 1..Len(list) PROVE two[i] = Finish(list, n, "COMPLETED", r)[i]
  <2>1. list[i] \in AttemptRow BY <1>1
  <2>2. [[list[i] EXCEPT !.status = "COMPLETED"] EXCEPT !.result = r]
           = [status |-> "COMPLETED", result |-> r, set |-> list[i].set]
    BY <2>1, TwoFields
  <2>3. CASE i = n
    <3>1. one[i] = [list[i] EXCEPT !.status = "COMPLETED"] BY <1>1, <2>3
    <3>2. two[i] = [one[i] EXCEPT !.result = r] BY <1>1, <2>3
    <3> QED BY <1>1, <2>2, <2>3, <3>1, <3>2 DEF Finish
  <2>4. CASE i # n
    BY <1>1, <2>4 DEF Finish
  <2> QED BY <2>3, <2>4
<1>3. DOMAIN two = 1..Len(list) /\ DOMAIN Finish(list, n, "COMPLETED", r) = 1..Len(list)
  BY <1>1 DEF Finish
<1>4. two = Finish(list, n, "COMPLETED", r)
  BY <1>1, <1>2, <1>3 DEF Finish
<1> QED BY <1>4

(* A verdict keeps the number of attempts. *)
LEMMA FinishLength ==
  ASSUME NEW list \in Seq(AttemptRow), NEW n, NEW found
  PROVE  Len(Finish(list, n, "COMPLETED", ResultOf(found))) = Len(list)
<1>1. Len(list) \in Nat /\ DOMAIN list = 1..Len(list)
  BY LenProperties
<1>2. \A i \in 1..Len(list) : list[i] \in AttemptRow
  BY ElementOfSeq
<1> DEFINE r == ResultOf(found)
<1>3. r \in Results BY DEF ResultOf, Results
<1> HIDE DEF r
<1>4. \A i \in 1..Len(list) :
         [status |-> "COMPLETED", result |-> r, set |-> list[i].set] \in AttemptRow
  BY <1>2, <1>3 DEF AttemptRow
<1>5. Finish(list, n, "COMPLETED", r) \in [1..Len(list) -> AttemptRow]
  BY <1>1, <1>2, <1>4 DEF Finish
<1>6. Len(Finish(list, n, "COMPLETED", r)) = Len(list)
  BY <1>1, <1>5, FunctionIsSeq
<1> QED BY <1>6 DEF r

(* Superseding the outputs keeps their lineage. *)
LEMMA SupersededList ==
  ASSUME NEW list \in Seq(OutputRow)
  PROVE  /\ Superseded(list) \in Seq(OutputRow)
         /\ Len(Superseded(list)) = Len(list)
         /\ \A i \in 1..Len(list) :
               /\ Superseded(list)[i].attempt = list[i].attempt
               /\ Superseded(list)[i].set = list[i].set
               /\ Superseded(list)[i].status = "SUPERSEDED"
<1>1. Len(list) \in Nat /\ DOMAIN list = 1..Len(list)
  BY LenProperties
<1>2. \A i \in 1..Len(list) : list[i] \in OutputRow
  BY ElementOfSeq
<1>3. \A i \in 1..Len(list) : [list[i] EXCEPT !.status = "SUPERSEDED"] \in OutputRow
  BY <1>2 DEF OutputRow
<1>4. Superseded(list) \in [1..Len(list) -> OutputRow]
  BY <1>1, <1>3 DEF Superseded
<1>5. Superseded(list) \in Seq(OutputRow) /\ Len(Superseded(list)) = Len(list)
  BY <1>1, <1>4, FunctionIsSeq
<1> QED BY <1>1, <1>2, <1>5 DEF Superseded, OutputRow

-----------------------------------------------------------------------------
(* Types. *)

Begun == {"archive", "capture", "blocked", "claim", "run", "write", "finalize", "fail",
          "generate"}

(* A request under way is about an import, and works from a version of the   *)
(* catalog that exists.                                                      *)
TargetOK == \A w \in Requests : pc[w] \in Begun => target[w] \in Imports
CapturedOK == \A w \in Requests : captured[w] <= Len(catalog)

TablesTyped ==
    /\ import \in [Imports -> ImportRow]
    /\ attempts \in [Imports -> Seq(AttemptRow)]
    /\ findings \in [Imports -> SUBSET Finding]
    /\ outputs \in [Imports -> Seq(OutputRow)]
    /\ \A b \in Imports : import[b].token # NoOne <=> import[b].status = "VALIDATING"

CatalogTyped ==
    /\ catalog \in Seq(SUBSET Saves)
    /\ wanted \in SUBSET Saves

RequestsTyped ==
    /\ pc \in [Requests -> Steps]
    /\ target \in [Requests -> Imports \cup {NoImport}]
    /\ seen \in [Requests -> ImportRow]
    /\ captured \in [Requests -> Nat]
    /\ change \in [Requests -> Change]

TypeInv == TablesTyped /\ CatalogTyped /\ RequestsTyped /\ TargetOK /\ CapturedOK

LEMMA TypeParts == TypeOK <=> TablesTyped /\ CatalogTyped /\ RequestsTyped
  BY DEF TypeOK, TablesTyped, CatalogTyped, RequestsTyped

(* The steps of requests that change no table. *)
LEMMA MovesType ==
  ASSUME TypeInv, NEW w \in Requests, NEW step \in Steps,
         step \in Begun => target[w] \in Imports, Moves(w, step)
  PROVE  TypeInv'
<1>1. TablesTyped' /\ CatalogTyped'
  BY DEF TypeInv, Moves, tables, TablesTyped, CatalogTyped
<1>2. RequestsTyped' /\ TargetOK' /\ CapturedOK'
  BY DEF TypeInv, Moves, Goto, tables, RequestsTyped, TargetOK, CapturedOK
<1> QED BY <1>1, <1>2 DEF TypeInv

LEMMA ReadsType ==
  ASSUME TypeInv, NEW w \in Requests, NEW b \in Imports, NEW step \in Steps,
         Reads(w, b, step)
  PROVE  TypeInv'
<1>1. TablesTyped' /\ CatalogTyped'
  BY DEF TypeInv, Reads, tables, TablesTyped, CatalogTyped
<1>2. import[b] \in ImportRow
  BY DEF TypeInv, TablesTyped
<1>3. RequestsTyped' /\ TargetOK' /\ CapturedOK'
  BY <1>2 DEF TypeInv, Reads, Goto, tables, RequestsTyped, TargetOK, CapturedOK
<1> QED BY <1>1, <1>3 DEF TypeInv

LEMMA CaptureType ==
  ASSUME TypeInv, NEW v \in Requests, NEW step \in Steps,
         step \in Begun => target[v] \in Imports,
         captured' = [captured EXCEPT ![v] = Effective], Goto(v, step),
         UNCHANGED <<tables, target, seen>>, change' \in [Requests -> Change]
  PROVE  TypeInv'
<1>1. TablesTyped' /\ CatalogTyped'
  BY DEF TypeInv, tables, TablesTyped, CatalogTyped
<1>2. Effective \in Nat /\ Effective = Len(catalog)
  BY LenProperties DEF Effective, TypeInv, CatalogTyped
<1>3. RequestsTyped'
  BY <1>2 DEF TypeInv, Goto, RequestsTyped
<1>4. TargetOK'
  BY DEF TypeInv, Goto, RequestsTyped, TargetOK
<1>5. CapturedOK'
  BY <1>2 DEF TypeInv, tables, RequestsTyped, CapturedOK
<1> QED BY <1>1, <1>3, <1>4, <1>5 DEF TypeInv

(* A step that ends a request, or starts its check, and changes the tables   *)
(* of imports.                                                               *)
LEMMA EndsType ==
  ASSUME TypeInv, NEW w \in Requests, NEW step \in Ended, Goto(w, step),
         TablesTyped', target' \in [Requests -> Imports \cup {NoImport}],
         \A x \in Requests \ {w} : target'[x] = target[x],
         UNCHANGED <<catalog, wanted, seen, captured, change>>
  PROVE  TypeInv'
<1>1. CatalogTyped' BY DEF TypeInv, CatalogTyped
<1>2. step \in Steps /\ step \notin Begun BY DEF Steps, Ended, Begun
<1>3. RequestsTyped' BY <1>2 DEF TypeInv, Goto, RequestsTyped
<1>4. TargetOK' BY <1>2 DEF TypeInv, Goto, RequestsTyped, TargetOK
<1>5. CapturedOK' BY DEF TypeInv, CapturedOK
<1> QED BY <1>1, <1>3, <1>4, <1>5 DEF TypeInv

LEMMA UploadType == ASSUME TypeInv, NEW u \in Uploads, UploadStep(u) PROVE TypeInv'
<1>0. u \in Requests BY DEF Requests
<1>1. CASE UploadNew(u)
  <2>1. PICK b \in Imports : /\ ~Visible(b)
                             /\ import' = [import EXCEPT ![b].status = "UPLOADED"]
                             /\ target' = [target EXCEPT ![u] = b]
    BY <1>1 DEF UploadNew
  <2>2. import[b] \in ImportRow BY DEF TypeInv, TablesTyped
  <2>3. [import[b] EXCEPT !.status = "UPLOADED"] \in ImportRow
    BY <2>2 DEF ImportRow, ImportStatuses
  <2>4. import[b].token = NoOne
    BY <2>1 DEF Visible, TypeInv, TablesTyped
  <2>5. TablesTyped'
    BY <1>1, <2>1, <2>2, <2>3, <2>4 DEF UploadNew, TypeInv, TablesTyped, ImportRow
  <2>6. "done" \in Ended /\ Goto(u, "done")
    BY <1>1 DEF Ended, UploadNew
  <2> QED
    BY <1>0, <1>1, <2>1, <2>5, <2>6, EndsType DEF UploadNew, TypeInv, RequestsTyped
<1>2. CASE UploadDuplicate(u)
  BY <1>0, <1>2, MovesType DEF UploadDuplicate, Steps, Begun
<1>3. CASE UploadFind(u)
  BY <1>0, <1>3, MovesType, ReadsType DEF UploadFind, Steps, Ended, Begun
<1> QED BY <1>1, <1>2, <1>3 DEF UploadStep

LEMMA ArchiveType == ASSUME TypeInv, NEW a \in Archives, ArchiveStep(a) PROVE TypeInv'
<1>0. a \in Requests BY DEF Requests
<1>1. CASE ArchiveRead(a)
  <2>1. PICK b \in Imports :
           Reads(a, b, CASE import[b].status = "ARCHIVED" -> "done"
                         [] import[b].status = "VALIDATING" -> "refused"
                         [] OTHER -> "archive")
    BY <1>1 DEF ArchiveRead
  <2>2. \E step \in Steps : Reads(a, b, step)
    BY <2>1 DEF Steps, Ended
  <2> QED BY <1>0, <2>2, ReadsType
<1>2. CASE ArchiveWrite(a)
  <2> DEFINE b == target[a]
  <2>1. b \in Imports /\ import[b] \in ImportRow
    BY <1>0, <1>2 DEF ArchiveWrite, TypeInv, TargetOK, Begun, TablesTyped
  <2>2. [import[b] EXCEPT !.status = "ARCHIVED"] \in ImportRow
    BY <2>1 DEF ImportRow, ImportStatuses
  <2>3. import[b].token = NoOne
    BY <1>2, <2>1 DEF ArchiveWrite, ArchiveAllowed, TypeInv, TablesTyped
  <2>4. TablesTyped'
    BY <1>2, <2>1, <2>2, <2>3 DEF ArchiveWrite, TypeInv, TablesTyped, ImportRow
  <2>5. "done" \in Ended /\ Goto(a, "done")
    BY <1>2 DEF Ended, ArchiveWrite
  <2> QED BY <1>0, <1>2, <2>4, <2>5, EndsType DEF ArchiveWrite, TypeInv, RequestsTyped
<1>3. CASE ArchiveRefused(a)
  BY <1>0, <1>3, MovesType DEF ArchiveRefused, Steps, Ended, Begun
<1> QED BY <1>1, <1>2, <1>3 DEF ArchiveStep

LEMMA SaveType ==
  ASSUME TypeInv, NEW s \in Saves, SaveStep(s) \/ SaveRefused(s)
  PROVE  TypeInv'
<1>0. s \in Requests BY DEF Requests
<1>1. CASE SaveBegin(s)
  <2>1. RulesOf(Effective) \subseteq Saves
    <3>1. Effective \in Nat /\ Effective = Len(catalog)
      BY LenProperties DEF Effective, TypeInv, CatalogTyped
    <3>2. CASE Effective = 0 BY <3>2 DEF RulesOf
    <3>3. CASE Effective # 0
      <4>1. Effective \in 1..Len(catalog) BY <3>1, <3>3
      <4>2. catalog[Effective] \in SUBSET Saves
        BY <4>1, ElementOfSeq DEF TypeInv, CatalogTyped
      <4> QED BY <3>3, <4>2 DEF RulesOf
    <3> QED BY <3>2, <3>3
  <2>2. PICK c \in ChangesTo(s, RulesOf(Effective)) : change' = [change EXCEPT ![s] = c]
    BY <1>1 DEF SaveBegin
  <2>3. c \in Change
    <3>1. c \in [adds: {{}, {s}}, drops: {{}} \cup {{r} : r \in RulesOf(Effective)}]
      BY <2>2 DEF ChangesTo
    <3>2. c.adds \in {{}, {s}} /\ c.drops \in {{}} \cup {{r} : r \in RulesOf(Effective)}
          /\ c = [adds |-> c.adds, drops |-> c.drops]
      BY <3>1
    <3>3. c.adds \subseteq Saves BY <3>2
    <3>4. c.drops \subseteq Saves BY <2>1, <3>2
    <3> QED BY <3>2, <3>3, <3>4 DEF Change
  <2>4. change' \in [Requests -> Change]
    BY <2>2, <2>3 DEF TypeInv, RequestsTyped
  <2>5. "edit" \in Steps /\ "edit" \notin Begun
    BY DEF Steps, Begun
  <2> QED BY <1>0, <1>1, <2>4, <2>5, CaptureType DEF SaveBegin
<1>2. CASE SaveReplace(s)
  BY <1>0, <1>2, MovesType DEF SaveReplace, Steps, Begun
<1>3. CASE SaveRefused(s)
  BY <1>0, <1>3, MovesType DEF SaveRefused, Steps, Ended, Begun
<1>4. CASE SaveCommit(s)
  <2> DEFINE apply(rules) == (rules \ change[s].drops) \cup change[s].adds
  <2>1. change[s].adds \subseteq Saves
    BY <1>0 DEF TypeInv, RequestsTyped, Change
  <2>2. RulesOf(captured[s]) \subseteq Saves
    <3>1. captured[s] \in Nat /\ captured[s] <= Len(catalog)
      BY <1>0 DEF TypeInv, RequestsTyped, CapturedOK
    <3>2. Len(catalog) \in Nat
      BY LenProperties DEF TypeInv, CatalogTyped
    <3>3. CASE captured[s] = 0 BY <3>3 DEF RulesOf
    <3>4. CASE captured[s] # 0
      <4>1. captured[s] \in 1..Len(catalog) BY <3>1, <3>2, <3>4
      <4>2. catalog[captured[s]] \in SUBSET Saves
        BY <4>1, ElementOfSeq DEF TypeInv, CatalogTyped
      <4> QED BY <3>4, <4>2 DEF RulesOf
    <3> QED BY <3>3, <3>4
  <2>3. apply(RulesOf(captured[s])) \in SUBSET Saves /\ apply(wanted) \in SUBSET Saves
    BY <2>1, <2>2 DEF TypeInv, CatalogTyped
  <2>4. catalog' = Append(catalog, apply(RulesOf(captured[s]))) /\ wanted' = apply(wanted)
    BY <1>4 DEF SaveCommit
  <2> HIDE DEF apply
  <2>5. CatalogTyped' /\ Len(catalog') = Len(catalog) + 1 /\ Len(catalog) \in Nat
    BY <2>3, <2>4, AppendProperties, LenProperties DEF TypeInv, CatalogTyped
  <2>6. TablesTyped'
    BY <1>4 DEF SaveCommit, TypeInv, TablesTyped
  <2>7. RequestsTyped' /\ TargetOK'
    BY <1>0, <1>4 DEF SaveCommit, Goto, TypeInv, RequestsTyped, TargetOK, Steps, Ended, Begun
  <2>8. CapturedOK'
    BY <1>4, <2>5 DEF SaveCommit, TypeInv, RequestsTyped, CapturedOK
  <2> QED BY <2>5, <2>6, <2>7, <2>8 DEF TypeInv
<1> QED BY <1>1, <1>2, <1>3, <1>4 DEF SaveStep

LEMMA GenerateType ==
  ASSUME TypeInv, NEW g \in Generations, GenerateStep(g) \/ GenerateRefused(g)
  PROVE  TypeInv'
<1>0. g \in Requests BY DEF Requests
<1>1. CASE GenerateBegin(g)
  BY <1>0, <1>1, ReadsType DEF GenerateBegin, Steps, Ended
<1>2. CASE GenerateBusy(g)
  BY <1>0, <1>2, MovesType DEF GenerateBusy, Steps, Ended, Begun
<1>3. CASE GenerateReuse(g)
  BY <1>0, <1>3, MovesType DEF GenerateReuse, Steps, Ended, Begun
<1>4. CASE GenerateRefused(g)
  BY <1>0, <1>4, MovesType DEF GenerateRefused, Steps, Ended, Begun
<1>5. CASE GenerateCommit(g)
  <2> DEFINE b == target[g]
             n == seen[g].attempt
             row == [attempt |-> n, set |-> attempts[b][n].set, status |-> "GENERATED"]
  <2>1. b \in Imports
    BY <1>0, <1>5 DEF GenerateCommit, TypeInv, TargetOK, Begun
  <2>2. attempts[b] \in Seq(AttemptRow) /\ outputs[b] \in Seq(OutputRow)
    BY <2>1 DEF TypeInv, TablesTyped
  <2>3. n \in 1..Len(attempts[b])
    BY <1>5, <2>2, LenProperties DEF GenerateCommit, CleanAttempt
  <2>4. attempts[b][n] \in AttemptRow
    BY <2>2, <2>3, ElementOfSeq
  <2>5. row \in OutputRow
    BY <2>2, <2>3, <2>4, LenProperties DEF AttemptRow, OutputRow
  <2>6. Append(Superseded(outputs[b]), row) \in Seq(OutputRow)
    BY <2>2, <2>5, SupersededList, AppendProperties
  <2>7. outputs' = [outputs EXCEPT ![b] = Append(Superseded(outputs[b]), row)]
    BY <1>5 DEF GenerateCommit
  <2>8. TablesTyped'
    BY <1>5, <2>1, <2>6, <2>7 DEF GenerateCommit, TypeInv, TablesTyped
  <2>9. "done" \in Ended /\ Goto(g, "done")
    BY <1>5 DEF Ended, GenerateCommit
  <2> QED BY <1>0, <1>5, <2>8, <2>9, EndsType DEF GenerateCommit, TypeInv, RequestsTyped
<1> QED BY <1>1, <1>2, <1>3, <1>4, <1>5 DEF GenerateStep

(* The row of an import that has just been claimed. *)
ClaimedRow(v) ==
  [import[target[v]] EXCEPT !.status = "VALIDATING",
                            !.attempt = import[target[v]].attempt + 1,
                            !.fence = import[target[v]].fence + 1,
                            !.token = v, !.expired = FALSE, !.set = captured[v]]

LEMMA ClaimedRowType ==
  ASSUME TypeInv, NEW v \in Validations, target[v] \in Imports
  PROVE  /\ ClaimedRow(v) \in ImportRow
         /\ ClaimedRow(v).status = "VALIDATING" /\ ClaimedRow(v).token = v
         /\ ClaimedRow(v).attempt = import[target[v]].attempt + 1
         /\ ClaimedRow(v).fence = import[target[v]].fence + 1
         /\ ClaimedRow(v).set = captured[v]
<1> DEFINE row == import[target[v]]
           nextAttempt == row.attempt + 1
           nextFence == row.fence + 1
<1>1. row \in ImportRow /\ captured[v] \in Nat
  BY DEF TypeInv, TablesTyped, RequestsTyped, Requests
<1>2. row.attempt \in Nat /\ row.fence \in Nat
  BY <1>1 DEF ImportRow
<1>3. nextAttempt \in Nat /\ nextFence \in Nat
  BY <1>2
<1>4. ClaimedRow(v) = [row EXCEPT !.status = "VALIDATING", !.attempt = nextAttempt,
                         !.fence = nextFence, !.token = v, !.expired = FALSE,
                         !.set = captured[v]]
  BY DEF ClaimedRow
<1> HIDE DEF row, nextAttempt, nextFence
<1>5. /\ ClaimedRow(v) \in ImportRow
      /\ ClaimedRow(v).status = "VALIDATING" /\ ClaimedRow(v).token = v
      /\ ClaimedRow(v).attempt = nextAttempt /\ ClaimedRow(v).fence = nextFence
      /\ ClaimedRow(v).set = captured[v]
  BY <1>1, <1>3, <1>4 DEF ImportRow, ImportStatuses
<1> QED BY <1>5 DEF row, nextAttempt, nextFence

LEMMA ClaimRows ==
  ASSUME NEW v \in Validations, Claim(v)
  PROVE  /\ import' = [import EXCEPT ![target[v]] = ClaimedRow(v)]
         /\ attempts' = [attempts EXCEPT ![target[v]] = Append(Abandoned(attempts[target[v]]),
                           [status |-> "RUNNING", result |-> "NONE", set |-> captured[v]])]
         /\ seen' = [seen EXCEPT ![v] = ClaimedRow(v)]
  BY Zenon DEF Claim, ClaimedRow

LEMMA ClaimType == ASSUME TypeInv, NEW v \in Validations, ClaimStep(v) PROVE TypeInv'
<1>0. v \in Requests BY DEF Requests
<1>1. CASE ClaimRead(v)
  BY <1>0, <1>1, ReadsType DEF ClaimRead, Steps, Ended
<1>2. ASSUME pc[v] \in {"capture", "blocked"}, Captures(v) PROVE TypeInv'
  <2>1. target[v] \in Imports
    BY <1>0, <1>2 DEF TypeInv, TargetOK, Begun
  <2>2. change' \in [Requests -> Change]
    BY <1>2 DEF Captures, TypeInv, RequestsTyped
  <2>3. \E step \in {"unconfigured", "claim"} : Goto(v, step)
    BY <1>2 DEF Captures
  <2> QED BY <1>0, <1>2, <2>1, <2>2, <2>3, CaptureType DEF Captures, Steps, Ended
<1>3. CASE Capture(v)
  BY <1>2, <1>3 DEF Capture
<1>4. CASE CaptureWaits(v)
  <2>1. target[v] \in Imports /\ "blocked" \in Steps
    BY <1>0, <1>4 DEF CaptureWaits, TypeInv, TargetOK, Begun, Steps
  <2>2. change' \in [Requests -> Change]
    BY <1>4 DEF CaptureWaits, TypeInv, RequestsTyped
  <2> QED BY <1>0, <1>4, <2>1, <2>2, CaptureType DEF CaptureWaits
<1>5. CASE CaptureResumes(v)
  BY <1>0, <1>2, <1>5, MovesType DEF CaptureResumes, Steps, Ended, Begun
<1>6. CASE ClaimReuse(v)
  BY <1>0, <1>6, MovesType DEF ClaimReuse, Steps, Ended, Begun
<1>7. CASE ClaimRefused(v)
  BY <1>0, <1>7, MovesType DEF ClaimRefused, Steps, Ended, Begun
<1>8. CASE Claim(v)
  <2> DEFINE b == target[v]
             row == ClaimedRow(v)
             new == [status |-> "RUNNING", result |-> "NONE", set |-> captured[v]]
  <2>1. b \in Imports /\ captured[v] \in Nat
    BY <1>0, <1>8 DEF Claim, TypeInv, TargetOK, Begun, RequestsTyped
  <2>2. /\ row \in ImportRow /\ row.status = "VALIDATING" /\ row.token = v
        /\ new \in AttemptRow
    BY <2>1, ClaimedRowType DEF AttemptRow
  <2>3. /\ import' = [import EXCEPT ![b] = row]
        /\ attempts' = [attempts EXCEPT ![b] = Append(Abandoned(attempts[b]), new)]
        /\ seen' = [seen EXCEPT ![v] = row]
    BY <1>8, ClaimRows
  <2> HIDE DEF row, new
  <2>4. attempts[b] \in Seq(AttemptRow)
    BY <2>1 DEF TypeInv, TablesTyped
  <2>5. Append(Abandoned(attempts[b]), new) \in Seq(AttemptRow)
    BY <2>2, <2>4, AbandonedList, AppendProperties
  <2>6. v # NoOne
    BY <1>0, NoOneAssumption
  <2>7. TablesTyped'
    BY <1>8, <2>1, <2>2, <2>3, <2>5, <2>6 DEF Claim, TypeInv, TablesTyped
  <2>8. RequestsTyped'
    <3>1. row \in ImportRow /\ seen' = [seen EXCEPT ![v] = row]
      BY <2>2, <2>3
    <3>2. seen' \in [Requests -> ImportRow]
      BY <3>1 DEF TypeInv, RequestsTyped
    <3>3. pc' \in [Requests -> Steps]
      BY <1>8 DEF Claim, Goto, TypeInv, RequestsTyped, Steps
    <3> QED BY <1>8, <3>2, <3>3 DEF Claim, TypeInv, RequestsTyped
  <2>9. CatalogTyped' /\ TargetOK' /\ CapturedOK'
    BY <1>0, <1>8, <2>1
    DEF Claim, Goto, TypeInv, CatalogTyped, RequestsTyped, TargetOK, CapturedOK, Begun
  <2> QED BY <2>7, <2>8, <2>9 DEF TypeInv
<1> QED BY <1>1, <1>3, <1>4, <1>5, <1>6, <1>7, <1>8 DEF ClaimStep

(* The rows of a check that reached its verdict, and of one recorded FAILED. *)
LEMMA VerdictRows ==
  ASSUME TypeInv, NEW v \in Validations, RunFinalize(v)
  PROVE  \E found \in SUBSET [attempt: {seen[v].attempt}, blocking: BOOLEAN] :
            /\ import' = [import EXCEPT ![target[v]] =
                            [import[target[v]] EXCEPT !.status = ResultOf(found),
                                                      !.token = NoOne, !.expired = FALSE]]
            /\ attempts' = [attempts EXCEPT ![target[v]] =
                              Finish(@, seen[v].attempt, "COMPLETED", ResultOf(found))]
            /\ findings' = [findings EXCEPT ![target[v]] = OpenAfter(v, found)]
<1> DEFINE b == target[v]
           n == seen[v].attempt
<1>1. b \in Imports /\ attempts[b] \in Seq(AttemptRow) /\ import[b] \in ImportRow
  BY DEF Requests, RunFinalize, TypeInv, TargetOK, Begun, TablesTyped
<1>2. PICK found \in FoundBy(v) :
         /\ import' = [import EXCEPT ![b].status = ResultOf(found), ![b].token = NoOne,
                                     ![b].expired = FALSE]
         /\ attempts' = [attempts EXCEPT ![b][n].status = "COMPLETED",
                                         ![b][n].result = ResultOf(found)]
         /\ findings' = [findings EXCEPT ![b] = OpenAfter(v, found)]
  BY DEF RunFinalize
<1>3. found \in SUBSET [attempt: {n}, blocking: BOOLEAN]
  BY <1>2 DEF FoundBy
<1> DEFINE r == ResultOf(found)
<1> HIDE DEF r
<1>4. import' = [import EXCEPT ![b] = [import[b] EXCEPT !.status = r, !.token = NoOne,
                                                         !.expired = FALSE]]
  BY <1>1, <1>2 DEF r, TypeInv, TablesTyped
<1>5. attempts' = [attempts EXCEPT ![b] = Finish(attempts[b], n, "COMPLETED", r)]
  <2> DEFINE list == attempts[b]
             one == [list EXCEPT ![n].status = "COMPLETED"]
             two == [one EXCEPT ![n].result = r]
  <2>1. attempts' = [attempts EXCEPT ![b] = two]
    BY <1>1, <1>2 DEF r, TypeInv, TablesTyped
  <2>2. two = Finish(list, n, "COMPLETED", r)
    BY <1>1, FinishedList
  <2> QED BY <2>1, <2>2
<1> QED BY <1>2, <1>3, <1>4, <1>5 DEF r

LEMMA FailureRows ==
  ASSUME TypeInv, NEW v \in Validations, FailRecord(v)
  PROVE  /\ import' = [import EXCEPT ![target[v]] =
                         [import[target[v]] EXCEPT !.status = "FAILED", !.token = NoOne,
                                                   !.expired = FALSE]]
         /\ attempts' = [attempts EXCEPT ![target[v]] =
               [i \in DOMAIN @ |-> IF i = seen[v].attempt /\ @[i].status = "RUNNING"
                                   THEN [@[i] EXCEPT !.status = "FAILED"] ELSE @[i]]]
<1>1. target[v] \in Imports
  BY DEF Requests, FailRecord, TypeInv, TargetOK, Begun
<1>2. import' = [import EXCEPT ![target[v]] =
                  [import[target[v]] EXCEPT !.status = "FAILED", !.token = NoOne,
                                            !.expired = FALSE]]
  BY <1>1 DEF FailRecord, TypeInv, TablesTyped
<1> QED BY <1>2 DEF FailRecord

(* The attempt with number n is recorded FAILED if it was running. *)
FailedList(list, n) ==
  [i \in DOMAIN list |-> IF i = n /\ list[i].status = "RUNNING"
                         THEN [list[i] EXCEPT !.status = "FAILED"] ELSE list[i]]

LEMMA FailedListType ==
  ASSUME NEW list \in Seq(AttemptRow), NEW n
  PROVE  /\ FailedList(list, n) \in Seq(AttemptRow)
         /\ Len(FailedList(list, n)) = Len(list)
         /\ \A i \in 1..Len(list) :
               FailedList(list, n)[i] = IF i = n /\ list[i].status = "RUNNING"
                                        THEN [list[i] EXCEPT !.status = "FAILED"] ELSE list[i]
<1>1. Len(list) \in Nat /\ DOMAIN list = 1..Len(list)
  BY LenProperties
<1>2. \A i \in 1..Len(list) : list[i] \in AttemptRow
  BY ElementOfSeq
<1>3. \A i \in 1..Len(list) : [list[i] EXCEPT !.status = "FAILED"] \in AttemptRow
  BY <1>2 DEF AttemptRow
<1>4. FailedList(list, n) \in [1..Len(list) -> AttemptRow]
  BY <1>1, <1>2, <1>3 DEF FailedList
<1>5. FailedList(list, n) \in Seq(AttemptRow) /\ Len(FailedList(list, n)) = Len(list)
  BY <1>1, <1>4, FunctionIsSeq
<1> QED BY <1>1, <1>5 DEF FailedList

LEMMA ResultType == \A found : ResultOf(found) \in Results
  BY DEF ResultOf, Results

(* What a check leaves open are findings. *)
LEMMA OpenType ==
  ASSUME TypeInv, NEW v \in Validations, target[v] \in Imports,
         NEW found \in SUBSET [attempt: {seen[v].attempt}, blocking: BOOLEAN]
  PROVE  OpenAfter(v, found) \in SUBSET Finding
<1>1. seen[v].attempt \in Nat
  BY DEF Requests, TypeInv, RequestsTyped, ImportRow
<1>2. found \subseteq Finding
  BY <1>1 DEF Finding
<1>3. findings[target[v]] \subseteq Finding
  BY DEF TypeInv, TablesTyped
<1> QED BY <1>2, <1>3 DEF OpenAfter

LEMMA RunType ==
  ASSUME TypeInv, NEW v \in Validations, RunStep(v) \/ RunError(v) \/ Crash(v)
  PROVE  TypeInv'
<1>0. v \in Requests BY DEF Requests
<1>1. CASE RunBegin(v)
  BY <1>0, <1>1, MovesType DEF RunBegin, TypeInv, TargetOK, Steps, Ended, Begun
<1>2. CASE RunWrite(v)
  BY <1>0, <1>2, MovesType DEF RunWrite, TypeInv, TargetOK, Steps, Begun
<1>3. CASE RunStale(v)
  BY <1>0, <1>3, MovesType DEF RunStale, Steps, Ended, Begun
<1>4. CASE RunError(v)
  BY <1>0, <1>4, MovesType DEF RunError, TypeInv, TargetOK, Steps, Begun
<1>5. CASE Crash(v)
  BY <1>0, <1>5, MovesType DEF Crash, Steps, Ended, Begun
<1>6. CASE FailUnrecorded(v)
  BY <1>0, <1>6, MovesType DEF FailUnrecorded, Steps, Ended, Begun
<1>7. CASE RunFinalize(v)
  <2> DEFINE b == target[v]
  <2>1. b \in Imports /\ import[b] \in ImportRow /\ attempts[b] \in Seq(AttemptRow)
    BY <1>0, <1>7 DEF RunFinalize, TypeInv, TargetOK, Begun, TablesTyped
  <2>2. PICK found \in SUBSET [attempt: {seen[v].attempt}, blocking: BOOLEAN] :
           /\ import' = [import EXCEPT ![b] =
                           [import[b] EXCEPT !.status = ResultOf(found),
                                             !.token = NoOne, !.expired = FALSE]]
           /\ attempts' = [attempts EXCEPT ![b] =
                             Finish(@, seen[v].attempt, "COMPLETED", ResultOf(found))]
           /\ findings' = [findings EXCEPT ![b] = OpenAfter(v, found)]
    BY <1>7, VerdictRows
  <2> DEFINE row == [import[b] EXCEPT !.status = ResultOf(found),
                                      !.token = NoOne, !.expired = FALSE]
             list == Finish(attempts[b], seen[v].attempt, "COMPLETED", ResultOf(found))
             open == OpenAfter(v, found)
  <2>3. row \in ImportRow /\ row.token = NoOne /\ row.status # "VALIDATING"
    BY <2>1, ResultType DEF ImportRow, ImportStatuses, Results
  <2>4. list \in Seq(AttemptRow)
    BY <2>1, FinishList, ResultType
  <2>5. open \in SUBSET Finding
    BY <2>1, OpenType
  <2>6. import' = [import EXCEPT ![b] = row] /\ attempts' = [attempts EXCEPT ![b] = list]
        /\ findings' = [findings EXCEPT ![b] = open]
    BY <2>2
  <2> HIDE DEF row, list, open
  <2>7. TablesTyped'
    BY <1>7, <2>1, <2>3, <2>4, <2>5, <2>6 DEF RunFinalize, TypeInv, TablesTyped
  <2>8. "done" \in Ended /\ Goto(v, "done")
    BY <1>7 DEF Ended, RunFinalize
  <2> QED BY <1>0, <1>7, <2>7, <2>8, EndsType DEF RunFinalize, TypeInv, RequestsTyped
<1>8. CASE FailRecord(v)
  <2> DEFINE b == target[v]
             row == [import[b] EXCEPT !.status = "FAILED", !.token = NoOne,
                                      !.expired = FALSE]
             list == FailedList(attempts[b], seen[v].attempt)
  <2>1. b \in Imports /\ import[b] \in ImportRow /\ attempts[b] \in Seq(AttemptRow)
    BY <1>0, <1>8 DEF FailRecord, TypeInv, TargetOK, Begun, TablesTyped
  <2>2. row \in ImportRow /\ row.token = NoOne /\ row.status # "VALIDATING"
    BY <2>1 DEF ImportRow, ImportStatuses
  <2>3. list \in Seq(AttemptRow)
    BY <2>1, FailedListType
  <2>4. import' = [import EXCEPT ![b] = row] /\ attempts' = [attempts EXCEPT ![b] = list]
    BY <1>8, FailureRows DEF FailedList
  <2> HIDE DEF row, list
  <2>5. TablesTyped'
    BY <1>8, <2>1, <2>2, <2>3, <2>4 DEF FailRecord, TypeInv, TablesTyped
  <2>6. "refused" \in Ended /\ Goto(v, "refused")
    BY <1>8 DEF Ended, FailRecord
  <2> QED BY <1>0, <1>8, <2>5, <2>6, EndsType DEF FailRecord, TypeInv, RequestsTyped
<1> QED BY <1>1, <1>2, <1>3, <1>4, <1>5, <1>6, <1>7, <1>8 DEF RunStep

LEMMA OtherType ==
  ASSUME TypeInv,
         \/ \E w \in Requests : NotFound(w) \/ Abort(w)
         \/ \E b \in Imports : Expire(b)
  PROVE  TypeInv'
<1>1. ASSUME NEW w \in Requests, NotFound(w) \/ Abort(w) PROVE TypeInv'
  BY <1>1, MovesType DEF NotFound, Abort, Steps, Ended, Begun
<1>2. ASSUME NEW b \in Imports, Expire(b) PROVE TypeInv'
  <2>1. import[b] \in ImportRow BY DEF TypeInv, TablesTyped
  <2>2. [import[b] EXCEPT !.expired = TRUE] \in ImportRow BY <2>1 DEF ImportRow
  <2>3. TablesTyped'
    BY <1>2, <2>1, <2>2 DEF Expire, TypeInv, TablesTyped, ImportRow
  <2>4. CatalogTyped' /\ RequestsTyped' /\ TargetOK' /\ CapturedOK'
    BY <1>2 DEF Expire, TypeInv, CatalogTyped, RequestsTyped, TargetOK, CapturedOK
  <2> QED BY <2>3, <2>4 DEF TypeInv
<1> QED BY <1>1, <1>2

(* The steps of the specification, by the kind of request that takes them. *)
LEMMA StepCases ==
  ASSUME Next
  PROVE  \/ \E u \in Uploads : UploadStep(u)
         \/ \E a \in Archives : ArchiveStep(a)
         \/ \E s \in Saves : SaveStep(s) \/ SaveRefused(s)
         \/ \E v \in Validations : ClaimStep(v)
         \/ \E v \in Validations : RunStep(v) \/ RunError(v) \/ Crash(v)
         \/ \E g \in Generations : GenerateStep(g) \/ GenerateRefused(g)
         \/ \/ \E w \in Requests : NotFound(w) \/ Abort(w)
            \/ \E b \in Imports : Expire(b)
  BY Zenon DEF Next, Progress, Trouble

LEMMA InitType == Init => TypeInv
<1> SUFFICES ASSUME Init PROVE TypeInv OBVIOUS
<1>1. NoRow \in ImportRow /\ NoRow.token = NoOne /\ NoRow.status # "VALIDATING"
  BY DEF NoRow, ImportRow, ImportStatuses
<1>2. /\ \A S : <<>> \in Seq(S) /\ Len(<<>>) = 0
      /\ <<{}>> \in Seq(SUBSET Saves)
  BY EmptySeq
<1>3. TablesTyped BY <1>1, <1>2 DEF Init, TablesTyped
<1>4. CatalogTyped BY <1>2 DEF Init, CatalogTyped
<1>5. [adds |-> {}, drops |-> {}] \in Change BY DEF Change
<1>6. "start" \in Steps /\ "start" \notin Begun BY DEF Steps, Begun
<1>7. RequestsTyped BY <1>1, <1>5, <1>6 DEF Init, RequestsTyped
<1>8. TargetOK BY <1>6 DEF Init, TargetOK
<1>9. CapturedOK
  BY <1>4, LenProperties DEF Init, CapturedOK, CatalogTyped
<1> QED BY <1>3, <1>4, <1>7, <1>8, <1>9 DEF TypeInv

LEMMA StepType == TypeInv /\ [Next]_vars => TypeInv'
<1> SUFFICES ASSUME TypeInv, [Next]_vars PROVE TypeInv' OBVIOUS
<1>1. CASE Next
  BY <1>1, StepCases, UploadType, ArchiveType, SaveType, ClaimType, RunType, GenerateType,
     OtherType
<1>2. CASE UNCHANGED vars
  BY <1>2 DEF vars, TypeInv, TablesTyped, CatalogTyped, RequestsTyped, TargetOK, CapturedOK
<1> QED BY <1>1, <1>2

LEMMA TypeInvCorrect == Spec => []TypeInv
  BY InitType, StepType, PTL DEF Spec

(* Types, and that an import has a claim token exactly while it is being     *)
(* validated, for any sets of requests and imports.                          *)
THEOREM TypeCorrect == Spec => []TypeOK
<1>1. TypeInv => TypeOK BY TypeParts DEF TypeInv
<1> QED BY <1>1, TypeInvCorrect, PTL

-----------------------------------------------------------------------------
(* The catalog: one change at a time, made from the effective version; a     *)
(* claim that has captured a version holds off the change that replaces it.  *)

Changing == {"edit", "commit"}

CatalogInv ==
    /\ \A s \in Saves : pc[s] \in Changing => captured[s] = Effective
    /\ \A s, t \in Saves : pc[s] \in Changing /\ pc[t] \in Changing => s = t
    /\ \A v \in Validations : pc[v] = "claim" => captured[v] = Effective /\ Effective # 0
    /\ \A s \in Saves, v \in Validations : pc[s] = "commit" => pc[v] # "claim"
    /\ RulesOf(Effective) = wanted

(* An attempt that starts does so on the effective version. *)
StartsEffective ==
    \A b \in Imports : Len(attempts'[b]) > Len(attempts[b]) =>
       attempts'[b][Len(attempts'[b])].set = Len(catalog')

(* A request moves on to another part of its work. *)
LEMMA CatalogFrame ==
  ASSUME TypeInv, CatalogInv, NEW w \in Requests, NEW step, Goto(w, step),
         step \notin Changing, step # "claim", UNCHANGED <<catalog, wanted>>,
         \A x \in Requests \ {w} : captured'[x] = captured[x]
  PROVE  CatalogInv'
<1>1. \A x \in Requests \ {w} : pc'[x] = pc[x]
  BY DEF Goto, TypeInv, RequestsTyped
<1>2. pc'[w] = step /\ "commit" \in Changing
  BY DEF Goto, TypeInv, RequestsTyped, Changing
<1>3. Effective' = Effective /\ RulesOf(Effective)' = RulesOf(Effective)
  BY DEF Effective, RulesOf
<1> QED BY <1>1, <1>2, <1>3 DEF CatalogInv, Requests

(* A step that starts no attempt. *)
LEMMA SameAttempts == ASSUME TypeInv, attempts' = attempts PROVE StartsEffective
<1>1. \A c \in Imports : Len(attempts[c]) \in Nat
  BY LenProperties DEF TypeInv, TablesTyped
<1> QED BY <1>1 DEF StartsEffective

LEMMA MovesCatalog ==
  ASSUME TypeInv, CatalogInv, NEW w \in Requests, NEW step, Moves(w, step),
         step \notin Changing, step # "claim"
  PROVE  CatalogInv' /\ StartsEffective
<1>1. CatalogInv' BY CatalogFrame DEF Moves, tables
<1> QED BY <1>1, SameAttempts DEF Moves, tables

LEMMA ReadsCatalog ==
  ASSUME TypeInv, CatalogInv, NEW w \in Requests, NEW b \in Imports, NEW step,
         Reads(w, b, step), step \notin Changing, step # "claim"
  PROVE  CatalogInv' /\ StartsEffective
<1>1. CatalogInv' BY CatalogFrame DEF Reads, tables
<1> QED BY <1>1, SameAttempts DEF Reads, tables

LEMMA UploadCatalog ==
  ASSUME TypeInv, CatalogInv, NEW u \in Uploads, UploadStep(u)
  PROVE  CatalogInv' /\ StartsEffective
<1>0. u \in Requests BY DEF Requests
<1>1. CASE UploadNew(u)
  BY <1>0, <1>1, CatalogFrame, SameAttempts DEF UploadNew, Changing
<1>2. CASE UploadDuplicate(u)
  BY <1>0, <1>2, MovesCatalog DEF UploadDuplicate, Changing
<1>3. CASE UploadFind(u)
  BY <1>0, <1>3, MovesCatalog, ReadsCatalog DEF UploadFind, Changing
<1> QED BY <1>1, <1>2, <1>3 DEF UploadStep

LEMMA ArchiveCatalog ==
  ASSUME TypeInv, CatalogInv, NEW a \in Archives, ArchiveStep(a)
  PROVE  CatalogInv' /\ StartsEffective
<1>0. a \in Requests BY DEF Requests
<1>1. CASE ArchiveRead(a)
  <2>1. PICK b \in Imports :
           Reads(a, b, CASE import[b].status = "ARCHIVED" -> "done"
                         [] import[b].status = "VALIDATING" -> "refused"
                         [] OTHER -> "archive")
    BY <1>1 DEF ArchiveRead
  <2>2. \E step \in {"done", "refused", "archive"} : Reads(a, b, step)
    BY <2>1
  <2> QED BY <1>0, <2>2, ReadsCatalog DEF Changing
<1>2. CASE ArchiveWrite(a)
  BY <1>0, <1>2, CatalogFrame, SameAttempts DEF ArchiveWrite, Changing
<1>3. CASE ArchiveRefused(a)
  BY <1>0, <1>3, MovesCatalog DEF ArchiveRefused, Changing
<1> QED BY <1>1, <1>2, <1>3 DEF ArchiveStep

LEMMA SaveCatalog ==
  ASSUME TypeInv, CatalogInv, NEW s \in Saves, SaveStep(s) \/ SaveRefused(s)
  PROVE  CatalogInv' /\ StartsEffective
<1>0. s \in Requests BY DEF Requests
<1>1. CASE SaveBegin(s)
  <2>1. /\ \A t \in Saves : pc[t] \notin Changing
        /\ captured' = [captured EXCEPT ![s] = Effective]
        /\ pc' = [pc EXCEPT ![s] = "edit"] /\ UNCHANGED tables
    BY <1>1 DEF SaveBegin, CatalogBusy, Changing, Goto
  <2>2. /\ \A x \in Requests \ {s} : pc'[x] = pc[x] /\ captured'[x] = captured[x]
        /\ pc'[s] = "edit" /\ captured'[s] = Effective
    BY <1>0, <2>1 DEF TypeInv, RequestsTyped
  <2>3. Effective' = Effective /\ RulesOf(Effective)' = RulesOf(Effective) /\ wanted' = wanted
    BY <2>1 DEF Effective, RulesOf, tables
  <2>4. \A t \in Saves : t # s => pc'[t] \notin Changing
    BY <2>1, <2>2 DEF Requests
  <2>5. CatalogInv'
    BY <2>2, <2>3, <2>4 DEF CatalogInv, Requests, Changing
  <2> QED BY <2>1, <2>5, SameAttempts DEF tables
<1>2. CASE SaveReplace(s)
  <2>1. /\ pc[s] = "edit" /\ pc' = [pc EXCEPT ![s] = "commit"]
        /\ UNCHANGED <<tables, captured>>
        /\ \A v \in Validations : ~(pc[v] = "claim" /\ captured[v] = captured[s])
    BY <1>2 DEF SaveReplace, Moves, Goto, Capturing
  <2>2. (\A x \in Requests \ {s} : pc'[x] = pc[x]) /\ pc'[s] = "commit"
    BY <1>0, <2>1 DEF TypeInv, RequestsTyped
  <2>3. Effective' = Effective /\ RulesOf(Effective)' = RulesOf(Effective) /\ wanted' = wanted
    BY <2>1 DEF Effective, RulesOf, tables
  <2>4. \A v \in Validations : pc[v] # "claim"
    BY <2>1 DEF CatalogInv, Changing
  <2>5. \A v \in Validations : pc'[v] # "claim"
    BY <2>2, <2>4 DEF Requests
  <2>6. \A t \in Saves : pc'[t] \in Changing => pc[t] \in Changing
    BY <2>1, <2>2 DEF Requests, Changing
  <2>7. CatalogInv'
    BY <2>1, <2>3, <2>5, <2>6 DEF CatalogInv
  <2> QED BY <2>1, <2>7, SameAttempts DEF tables
<1>3. CASE SaveRefused(s)
  BY <1>0, <1>3, MovesCatalog DEF SaveRefused, Changing
<1>4. CASE SaveCommit(s)
  <2> DEFINE apply(rules) == (rules \ change[s].drops) \cup change[s].adds
             next == apply(wanted)
  <2>1. captured[s] = Effective /\ RulesOf(Effective) = wanted
    BY <1>4 DEF SaveCommit, CatalogInv, Changing
  <2>2. catalog' = Append(catalog, next) /\ wanted' = next
    BY <1>4, <2>1 DEF SaveCommit
  <2>3. next \in SUBSET Saves
    BY <1>0 DEF TypeInv, CatalogTyped, RequestsTyped, Change
  <2> HIDE DEF next
  <2>4. /\ Len(catalog') = Len(catalog) + 1 /\ Len(catalog) \in Nat
        /\ catalog'[Len(catalog) + 1] = next
    BY <2>2, <2>3, AppendProperties, LenProperties DEF TypeInv, CatalogTyped
  <2>5. RulesOf(Effective)' = wanted'
    BY <2>2, <2>4 DEF RulesOf, Effective
  <2>6. /\ \A x \in Requests \ {s} : pc'[x] = pc[x]
        /\ pc'[s] = "done"
    BY <1>0, <1>4 DEF SaveCommit, Goto, TypeInv, RequestsTyped
  <2>7. \A t \in Saves : pc'[t] \notin Changing
    BY <1>4, <2>6 DEF SaveCommit, CatalogInv, Changing, Requests
  <2>8. \A v \in Validations : pc'[v] # "claim"
    BY <1>4, <2>6 DEF SaveCommit, CatalogInv, Requests
  <2>9. CatalogInv'
    BY <2>5, <2>7, <2>8 DEF CatalogInv, Changing
  <2> QED BY <1>4, <2>9, SameAttempts DEF SaveCommit
<1> QED BY <1>1, <1>2, <1>3, <1>4 DEF SaveStep

(* A claim that has captured the effective version while none replaces it. *)
LEMMA CapturesCatalog ==
  ASSUME TypeInv, CatalogInv, NEW v \in Validations, Captures(v),
         Effective # 0 => \A s \in Saves : pc[s] # "commit"
  PROVE  CatalogInv' /\ StartsEffective
<1>0. v \in Requests BY DEF Requests
<1>1. /\ captured' = [captured EXCEPT ![v] = Effective]
      /\ pc' = [pc EXCEPT ![v] = IF Effective = 0 THEN "unconfigured" ELSE "claim"]
      /\ UNCHANGED tables
  BY DEF Captures, Goto
<1>2. /\ \A x \in Requests \ {v} : pc'[x] = pc[x] /\ captured'[x] = captured[x]
      /\ pc'[v] = "unconfigured" \/ (pc'[v] = "claim" /\ Effective # 0)
      /\ captured'[v] = Effective
  BY <1>0, <1>1 DEF TypeInv, RequestsTyped
<1>3. Effective' = Effective /\ RulesOf(Effective)' = RulesOf(Effective) /\ wanted' = wanted
  BY <1>1 DEF Effective, RulesOf, tables
<1>4. \A s \in Saves : /\ pc'[s] \in Changing => pc[s] \in Changing /\ s # v
                       /\ pc'[s] = "commit" => pc[s] = "commit"
  BY <1>2 DEF Changing, Requests
<1>5. \A s \in Saves : pc'[s] \in Changing => captured'[s] = Effective
  BY <1>2, <1>4 DEF CatalogInv, Requests
<1>6. \A s, t \in Saves : pc'[s] \in Changing /\ pc'[t] \in Changing => s = t
  <2>1. \A s, t \in Saves : pc[s] \in Changing /\ pc[t] \in Changing => s = t
    BY DEF CatalogInv
  <2> QED BY <1>4, <2>1
<1>7. \A x \in Validations : pc'[x] = "claim" => captured'[x] = Effective /\ Effective # 0
  BY <1>2 DEF CatalogInv, Requests
<1>8. \A s \in Saves, x \in Validations : pc'[s] = "commit" => pc'[x] # "claim"
  BY <1>2, <1>4 DEF CatalogInv, Requests
<1>9. CatalogInv'
  BY <1>3, <1>5, <1>6, <1>7, <1>8 DEF CatalogInv
<1> QED BY <1>1, <1>9, SameAttempts DEF tables

LEMMA ClaimCatalog ==
  ASSUME TypeInv, CatalogInv, NEW v \in Validations, ClaimStep(v)
  PROVE  CatalogInv' /\ StartsEffective
<1>0. v \in Requests BY DEF Requests
<1>1. CASE ClaimRead(v)
  BY <1>0, <1>1, ReadsCatalog DEF ClaimRead, Changing
<1>2. CASE Capture(v)
  <2>1. \A s \in Saves : pc[s] = "commit" => ~(captured[s] > 0) /\ captured[s] = Effective
    BY <1>2 DEF Capture, Replacing, CatalogInv, Changing
  <2>2. \A s \in Saves : captured[s] \in Nat
    BY DEF TypeInv, RequestsTyped, Requests
  <2>3. \A s \in Saves : pc[s] = "commit" => Effective = 0
    BY <2>1, <2>2
  <2> QED BY <1>2, <2>3, CapturesCatalog DEF Capture
<1>3. CASE CaptureWaits(v)
  <2>1. /\ "blocked" \notin Changing /\ "blocked" # "claim" /\ Goto(v, "blocked")
        /\ UNCHANGED tables
        /\ \A x \in Requests \ {v} : captured'[x] = captured[x]
    BY <1>3 DEF CaptureWaits, Changing, TypeInv, RequestsTyped
  <2> QED BY <1>0, <2>1, CatalogFrame, SameAttempts DEF tables
<1>4. CASE CaptureResumes(v)
  <2>1. CASE captured[v] = Effective
    <3>1. Captures(v) BY <1>4, <2>1 DEF CaptureResumes
    <3>2. \A s \in Saves : pc[s] # "commit"
      BY <1>4, <2>1 DEF CaptureResumes, CatalogInv, Changing
    <3> QED BY <3>1, <3>2, CapturesCatalog
  <2>2. CASE captured[v] # Effective
    BY <1>0, <1>4, <2>2, MovesCatalog DEF CaptureResumes, Changing
  <2> QED BY <2>1, <2>2
<1>5. CASE ClaimReuse(v)
  BY <1>0, <1>5, MovesCatalog DEF ClaimReuse, Changing
<1>6. CASE ClaimRefused(v)
  BY <1>0, <1>6, MovesCatalog DEF ClaimRefused, Changing
<1>7. CASE Claim(v)
  <2> DEFINE b == target[v]
             new == [status |-> "RUNNING", result |-> "NONE", set |-> captured[v]]
             list == Append(Abandoned(attempts[b]), new)
  <2>1. /\ b \in Imports /\ attempts[b] \in Seq(AttemptRow)
        /\ new \in AttemptRow /\ new.set = captured[v]
    BY <1>0, <1>7
    DEF Claim, TypeInv, TargetOK, Begun, RequestsTyped, TablesTyped, AttemptRow
  <2>2. attempts' = [attempts EXCEPT ![b] = list]
    BY <1>7, ClaimRows
  <2> HIDE DEF new
  <2>3. list[Len(list)] = new
    BY <2>1, AbandonedList, AppendProperties
  <2> HIDE DEF list
  <2>4. \A c \in Imports : Len(attempts[c]) \in Nat /\ attempts'[c] =
                              IF c = b THEN list ELSE attempts[c]
    BY <2>2, LenProperties DEF TypeInv, TablesTyped
  <2>5. captured[v] = Len(catalog) /\ catalog' = catalog
    BY <1>7 DEF Claim, CatalogInv, Effective
  <2>6. StartsEffective
    BY <2>1, <2>3, <2>4, <2>5 DEF StartsEffective
  <2>7. CatalogInv'
    BY <1>0, <1>7, CatalogFrame DEF Claim, Changing
  <2> QED BY <2>6, <2>7
<1> QED BY <1>1, <1>2, <1>3, <1>4, <1>5, <1>6, <1>7 DEF ClaimStep

(* A step that rewrites the list of attempts of one import starts none. *)
LEMMA SameLength ==
  ASSUME TypeInv, NEW b \in Imports, NEW list, Len(list) = Len(attempts[b]),
         attempts' = [attempts EXCEPT ![b] = list]
  PROVE  StartsEffective
<1>1. \A c \in Imports : Len(attempts[c]) \in Nat /\ Len(attempts'[c]) = Len(attempts[c])
  BY LenProperties DEF TypeInv, TablesTyped
<1> QED BY <1>1 DEF StartsEffective

LEMMA RunCatalog ==
  ASSUME TypeInv, CatalogInv, NEW v \in Validations,
         RunStep(v) \/ RunError(v) \/ Crash(v)
  PROVE  CatalogInv' /\ StartsEffective
<1>0. v \in Requests BY DEF Requests
<1>1. CASE RunBegin(v)
  BY <1>0, <1>1, MovesCatalog DEF RunBegin, Changing
<1>2. CASE RunWrite(v)
  BY <1>0, <1>2, MovesCatalog DEF RunWrite, Changing
<1>3. CASE RunStale(v)
  BY <1>0, <1>3, MovesCatalog DEF RunStale, Changing
<1>4. CASE RunError(v)
  BY <1>0, <1>4, MovesCatalog DEF RunError, Changing
<1>5. CASE Crash(v)
  BY <1>0, <1>5, MovesCatalog DEF Crash, Changing
<1>6. CASE FailUnrecorded(v)
  BY <1>0, <1>6, MovesCatalog DEF FailUnrecorded, Changing
<1>7. CASE RunFinalize(v)
  <2> DEFINE b == target[v]
  <2>1. b \in Imports /\ attempts[b] \in Seq(AttemptRow)
    BY <1>0, <1>7 DEF RunFinalize, TypeInv, TargetOK, Begun, TablesTyped
  <2>2. PICK found : attempts' = [attempts EXCEPT ![b] =
                        Finish(attempts[b], seen[v].attempt, "COMPLETED", ResultOf(found))]
    BY <1>7, VerdictRows
  <2>3. Len(Finish(attempts[b], seen[v].attempt, "COMPLETED", ResultOf(found)))
           = Len(attempts[b])
    BY <2>1, FinishLength
  <2>4. StartsEffective
    BY <2>1, <2>2, <2>3, SameLength
  <2>5. CatalogInv'
    BY <1>0, <1>7, CatalogFrame DEF RunFinalize, Changing
  <2> QED BY <2>4, <2>5
<1>8. CASE FailRecord(v)
  <2> DEFINE b == target[v]
  <2>1. b \in Imports /\ attempts[b] \in Seq(AttemptRow)
    BY <1>0, <1>8 DEF FailRecord, TypeInv, TargetOK, Begun, TablesTyped
  <2>2. attempts' = [attempts EXCEPT ![b] = FailedList(attempts[b], seen[v].attempt)]
    BY <1>8, FailureRows DEF FailedList
  <2>3. Len(FailedList(attempts[b], seen[v].attempt)) = Len(attempts[b])
    BY <2>1, FailedListType
  <2>4. StartsEffective
    BY <2>1, <2>2, <2>3, SameLength
  <2>5. CatalogInv'
    BY <1>0, <1>8, CatalogFrame DEF FailRecord, Changing
  <2> QED BY <2>4, <2>5
<1> QED BY <1>1, <1>2, <1>3, <1>4, <1>5, <1>6, <1>7, <1>8 DEF RunStep

LEMMA GenerateCatalog ==
  ASSUME TypeInv, CatalogInv, NEW g \in Generations, GenerateStep(g) \/ GenerateRefused(g)
  PROVE  CatalogInv' /\ StartsEffective
<1>0. g \in Requests BY DEF Requests
<1>1. CASE GenerateBegin(g)
  BY <1>0, <1>1, ReadsCatalog DEF GenerateBegin, Changing
<1>2. CASE GenerateBusy(g)
  BY <1>0, <1>2, MovesCatalog DEF GenerateBusy, Changing
<1>3. CASE GenerateReuse(g)
  BY <1>0, <1>3, MovesCatalog DEF GenerateReuse, Changing
<1>4. CASE GenerateRefused(g)
  BY <1>0, <1>4, MovesCatalog DEF GenerateRefused, Changing
<1>5. CASE GenerateCommit(g)
  BY <1>0, <1>5, CatalogFrame, SameAttempts DEF GenerateCommit, Changing
<1> QED BY <1>1, <1>2, <1>3, <1>4, <1>5 DEF GenerateStep

LEMMA OtherCatalog ==
  ASSUME TypeInv, CatalogInv,
         \/ \E w \in Requests : NotFound(w) \/ Abort(w)
         \/ \E b \in Imports : Expire(b)
  PROVE  CatalogInv' /\ StartsEffective
<1>1. ASSUME NEW w \in Requests, NotFound(w) \/ Abort(w) PROVE CatalogInv' /\ StartsEffective
  BY <1>1, MovesCatalog DEF NotFound, Abort, Changing
<1>2. ASSUME NEW b \in Imports, Expire(b) PROVE CatalogInv' /\ StartsEffective
  BY <1>2, SameAttempts DEF Expire, CatalogInv, Effective, RulesOf
<1> QED BY <1>1, <1>2

LEMMA InitCatalog == Init => CatalogInv
<1> SUFFICES ASSUME Init PROVE CatalogInv OBVIOUS
<1>1. \A w \in Requests : pc[w] \notin Changing /\ pc[w] # "claim" /\ pc[w] # "commit"
  BY DEF Init, Changing
<1>2. RulesOf(Effective) = wanted
  <2>1. CASE catalog = <<>>
    BY <2>1, EmptySeq DEF Init, RulesOf, Effective
  <2>2. CASE catalog = <<{}>>
    BY <2>2 DEF Init, RulesOf, Effective
  <2> QED BY <2>1, <2>2 DEF Init
<1> QED BY <1>1, <1>2 DEF CatalogInv, Requests

LEMMA StepCatalog == TypeInv /\ CatalogInv /\ [Next]_vars => CatalogInv' /\ [StartsEffective]_vars
<1> SUFFICES ASSUME TypeInv, CatalogInv, [Next]_vars
             PROVE  CatalogInv' /\ [StartsEffective]_vars
  OBVIOUS
<1>1. CASE Next
  BY <1>1, StepCases, UploadCatalog, ArchiveCatalog, SaveCatalog, ClaimCatalog, RunCatalog,
     GenerateCatalog, OtherCatalog
<1>2. CASE UNCHANGED vars
  BY <1>2 DEF vars, CatalogInv, Effective, RulesOf
<1> QED BY <1>1, <1>2

LEMMA CatalogInvCorrect == Spec => [](TypeInv /\ CatalogInv)
<1>1. TypeInv /\ CatalogInv /\ [Next]_vars => CatalogInv'
  BY StepCatalog
<1> QED BY <1>1, InitCatalog, TypeInvCorrect, PTL DEF Spec

(* Concurrent changes of the catalog lose nothing. *)
THEOREM CatalogCorrect == Spec => []CatalogKeepsEveryChange
<1>1. CatalogInv => CatalogKeepsEveryChange
  BY DEF CatalogInv, CatalogKeepsEveryChange
<1> QED BY <1>1, CatalogInvCorrect, PTL

(* An attempt starts under the catalog effective when its claim commits. *)
THEOREM StartsCorrect == Spec => AttemptsStartOnEffectiveCatalog
<1>1. TypeInv /\ CatalogInv /\ [Next]_vars =>
        [\A b \in Imports : Len(attempts'[b]) > Len(attempts[b]) =>
            attempts'[b][Len(attempts'[b])].set = Len(catalog')]_vars
  BY StepCatalog DEF StartsEffective
<1> QED BY <1>1, CatalogInvCorrect, PTL DEF Spec, AttemptsStartOnEffectiveCatalog

-----------------------------------------------------------------------------
(***************************************************************************)
(* What SarinLifecycle keeps true of the rows of an import, for any sets   *)
(* of imports and requests: attempts, findings and outputs follow the      *)
(* import, a displaced worker changes nothing, an archive is final.        *)
(***************************************************************************)

(* The invariant, for the rows of one import. *)

(* AttemptsAgree, and the catalog of an attempt under way. *)
Agrees(row, list) ==
    /\ row.attempt = Len(list) /\ row.fence = Len(list)
    /\ \A n \in DOMAIN list :
          list[n].status = "RUNNING" <=> row.status = "VALIDATING" /\ n = Len(list)
    /\ row.status \in Results =>
          /\ Len(list) > 0
          /\ list[Len(list)] = [status |-> "COMPLETED", result |-> row.status, set |-> row.set]
    /\ row.status = "FAILED" => Len(list) > 0 /\ list[Len(list)].status = "FAILED"
    /\ row.status = "VALIDATING" => Len(list) > 0 /\ list[Len(list)].set = row.set

LastChecked(list, n) ==
    /\ n \in DOMAIN list /\ list[n].status = "COMPLETED"
    /\ \A m \in DOMAIN list : m > n => list[m].status # "COMPLETED"

FindingsAgree(row, list, open) ==
    /\ \A f \in open : LastChecked(list, f.attempt)
    /\ row.status \in Results =>
          (row.status = "NEEDS_REVIEW" <=> \E f \in open : f.blocking)

Clean(list, output) ==
    /\ output.attempt \in DOMAIN list
    /\ list[output.attempt] =
          [status |-> "COMPLETED", result |-> "VALIDATED", set |-> output.set]

Lineage(list, outs) ==
    \A i \in DOMAIN outs :
        /\ Clean(list, outs[i])
        /\ outs[i].status = "GENERATED" <=> i = Len(outs)
        /\ \A j \in DOMAIN outs : i < j => outs[i].attempt < outs[j].attempt

RowsOK(row, list, open, outs) ==
    Agrees(row, list) /\ FindingsAgree(row, list, open) /\ Lineage(list, outs)

ImportsOK == \A b \in Imports : RowsOK(import[b], attempts[b], findings[b], outputs[b])

-----------------------------------------------------------------------------
(* How the rows of one import change. *)

(* A step that keeps the completed attempts keeps the lineage of outputs. *)
LEMMA LineageKept ==
  ASSUME NEW list, NEW next, NEW outs, Lineage(list, outs),
         \A n \in DOMAIN list : list[n].status = "COMPLETED" =>
            n \in DOMAIN next /\ next[n] = list[n]
  PROVE  Lineage(next, outs)
<1>1. \A o : Clean(list, o) => Clean(next, o)
  BY DEF Clean
<1> QED BY <1>1 DEF Lineage

(* A step that completes no attempt keeps the last check. *)
LEMMA LastCheckedKept ==
  ASSUME NEW list, NEW next,
         \A n \in DOMAIN list : list[n].status = "COMPLETED" =>
            n \in DOMAIN next /\ next[n] = list[n],
         \A n \in DOMAIN next : next[n].status = "COMPLETED" =>
            n \in DOMAIN list /\ list[n].status = "COMPLETED",
         NEW n, LastChecked(list, n)
  PROVE  LastChecked(next, n)
  BY DEF LastChecked

(* Uploads and archives. *)
LEMMA StatusRows ==
  ASSUME NEW row \in ImportRow, NEW list, NEW open, NEW outs,
         RowsOK(row, list, open, outs), row.status # "VALIDATING",
         NEW status \in {"UPLOADED", "ARCHIVED"}
  PROVE  RowsOK([row EXCEPT !.status = status], list, open, outs)
<1> DEFINE new == [row EXCEPT !.status = status]
<1>1. /\ new.status = status /\ new.attempt = row.attempt /\ new.fence = row.fence
      /\ status \notin Results /\ status # "VALIDATING" /\ status # "FAILED"
  BY DEF ImportRow, Results
<1> HIDE DEF new
<1>2. Agrees(new, list)
  BY <1>1 DEF RowsOK, Agrees
<1>3. FindingsAgree(new, list, open)
  BY <1>1 DEF RowsOK, FindingsAgree
<1> QED BY <1>2, <1>3 DEF RowsOK, new

LEMMA ExpiredRows ==
  ASSUME NEW row \in ImportRow, NEW list, NEW open, NEW outs,
         RowsOK(row, list, open, outs)
  PROVE  RowsOK([row EXCEPT !.expired = TRUE], list, open, outs)
<1> DEFINE new == [row EXCEPT !.expired = TRUE]
<1>1. /\ new.status = row.status /\ new.attempt = row.attempt /\ new.fence = row.fence
      /\ new.set = row.set
  BY DEF ImportRow
<1> HIDE DEF new
<1>2. Agrees(new, list)
  BY <1>1 DEF RowsOK, Agrees
<1>3. FindingsAgree(new, list, open)
  BY <1>1 DEF RowsOK, FindingsAgree
<1> QED BY <1>2, <1>3 DEF RowsOK, new

(* A new claim: the attempt before it is abandoned if it was running. *)
LEMMA ClaimedRows ==
  ASSUME NEW row \in ImportRow, NEW list \in Seq(AttemptRow), NEW open, NEW outs,
         RowsOK(row, list, open, outs),
         NEW set \in Nat, NEW new, new.status = "VALIDATING", new.attempt = row.attempt + 1,
         new.fence = row.fence + 1, new.set = set,
         NEW attempt \in AttemptRow,
         attempt = [status |-> "RUNNING", result |-> "NONE", set |-> set]
  PROVE  RowsOK(new, Append(Abandoned(list), attempt), open, outs)
<1> DEFINE old == Abandoned(list)
           next == Append(old, attempt)
<1>1. /\ old \in Seq(AttemptRow) /\ Len(old) = Len(list) /\ Len(list) \in Nat
      /\ DOMAIN list = 1..Len(list)
      /\ \A n \in 1..Len(list) :
            old[n] = IF n = Len(list) /\ list[n].status = "RUNNING"
                     THEN [list[n] EXCEPT !.status = "ABANDONED"] ELSE list[n]
  BY AbandonedList, LenProperties
<1> HIDE DEF old
<1>2. /\ next \in Seq(AttemptRow) /\ Len(next) = Len(list) + 1
      /\ \A n \in 1..Len(list) : next[n] = old[n]
      /\ next[Len(list) + 1] = attempt
  BY <1>1, AppendProperties
<1>3. DOMAIN next = 1..(Len(list) + 1)
  BY <1>2, LenProperties
<1> HIDE DEF next
<1>4. \A n \in 1..Len(list) : list[n].status = "RUNNING" => n = Len(list)
  BY <1>1 DEF RowsOK, Agrees
<1>5. \A n \in 1..Len(list) : list[n] \in AttemptRow
  BY ElementOfSeq
<1>6. \A n \in 1..Len(list) :
         /\ next[n].status # "RUNNING"
         /\ list[n].status = "COMPLETED" => next[n] = list[n]
         /\ next[n].status = "COMPLETED" => list[n].status = "COMPLETED"
  BY <1>1, <1>2, <1>4, <1>5 DEF AttemptRow
<1>7. /\ row.attempt = Len(list) /\ row.fence = Len(list)
      /\ next[Len(list) + 1].status = "RUNNING" /\ next[Len(list) + 1].set = set
  BY <1>2 DEF RowsOK, Agrees
<1>8. Agrees(new, next)
  BY <1>1, <1>2, <1>3, <1>6, <1>7 DEF Agrees, Results
<1>9. /\ \A n \in DOMAIN list : list[n].status = "COMPLETED" =>
            n \in DOMAIN next /\ next[n] = list[n]
      /\ \A n \in DOMAIN next : next[n].status = "COMPLETED" =>
            n \in DOMAIN list /\ list[n].status = "COMPLETED"
  BY <1>1, <1>3, <1>6, <1>7
<1>10. FindingsAgree(new, next, open)
  BY <1>9, LastCheckedKept DEF RowsOK, FindingsAgree, Results
<1>11. Lineage(next, outs)
  BY <1>9, LineageKept DEF RowsOK
<1> QED BY <1>8, <1>10, <1>11 DEF RowsOK, next, old

(* A check of the last attempt reaches its verdict. *)
LEMMA VerdictAttempt ==
  ASSUME NEW row \in ImportRow, NEW list \in Seq(AttemptRow), Agrees(row, list),
         row.status = "VALIDATING", NEW r \in Results,
         NEW new, new.status = r, new.attempt = row.attempt,
         new.fence = row.fence, new.set = row.set
  PROVE  /\ Agrees(new, Finish(list, Len(list), "COMPLETED", r))
         /\ LastChecked(Finish(list, Len(list), "COMPLETED", r), Len(list))
         /\ \A outs : Lineage(list, outs) =>
                      Lineage(Finish(list, Len(list), "COMPLETED", r), outs)
<1> DEFINE last == Len(list)
           next == Finish(list, last, "COMPLETED", r)
<1>1. Len(next) = last /\ last \in Nat /\ DOMAIN list = 1..last /\ DOMAIN next = 1..last
  BY FinishList, LenProperties
<1>2. /\ last > 0 /\ list[last].set = row.set /\ list[last].status = "RUNNING"
      /\ row.attempt = last /\ row.fence = last
      /\ \A i \in 1..last : list[i].status = "RUNNING" => i = last
  BY <1>1 DEF Agrees
<1>3. next \in Seq(AttemptRow) /\ \A i \in 1..last : i # last => next[i] = list[i]
  BY FinishList
<1>4. last \in 1..last
  BY <1>1, <1>2
<1>5. /\ next[last].status = "COMPLETED" /\ next[last].result = r
      /\ next[last].set = list[last].set
  <2>1. next[last] = [status |-> "COMPLETED", result |-> r, set |-> list[last].set]
    BY <1>1, <1>4 DEF Finish
  <2> HIDE DEF next
  <2> QED BY <2>1
<1> HIDE DEF next
<1>6. \A n \in DOMAIN next : next[n].status # "RUNNING"
  BY <1>1, <1>2, <1>3, <1>5
<1>7. Agrees(new, next)
  <2>1. next[last] \in AttemptRow
    BY <1>1, <1>3, <1>4, ElementOfSeq
  <2>2. next[last] = [status |-> "COMPLETED", result |-> r, set |-> row.set]
    BY <1>2, <1>5, <2>1 DEF AttemptRow
  <2> QED BY <1>1, <1>2, <1>6, <2>2 DEF Agrees, Results
<1>8. LastChecked(next, last)
  BY <1>1, <1>4, <1>5 DEF LastChecked
<1>9. \A n \in DOMAIN list : list[n].status = "COMPLETED" =>
          n \in DOMAIN next /\ next[n] = list[n]
  BY <1>1, <1>2, <1>3
<1>10. \A outs : Lineage(list, outs) => Lineage(next, outs)
  BY <1>9, LineageKept
<1> QED BY <1>7, <1>8, <1>10 DEF next

(* What was open is superseded, what the check found is open. *)
LEMMA VerdictFindings ==
  ASSUME NEW row, NEW list, NEW open, NEW last \in Nat,
         \A f \in open : f.attempt \in 1..last /\ f.attempt # last,
         NEW next, LastChecked(next, last),
         NEW found, \A f \in found : f.attempt = last,
         NEW new, new.status = ResultOf(found)
  PROVE  FindingsAgree(new, next, {f \in open : f.attempt >= last} \cup found)
<1>1. {f \in open : f.attempt >= last} = {}
  OBVIOUS
<1>2. \A f \in {f \in open : f.attempt >= last} \cup found : LastChecked(next, f.attempt)
  BY <1>1
<1>3. ResultOf(found) = "NEEDS_REVIEW" <=> \E f \in found : f.blocking
  BY Zenon DEF ResultOf
<1> QED BY <1>1, <1>2, <1>3 DEF FindingsAgree

LEMMA VerdictKeeps ==
  ASSUME NEW row \in ImportRow, NEW list \in Seq(AttemptRow), NEW open, NEW outs,
         RowsOK(row, list, open, outs), row.status = "VALIDATING",
         NEW found, \A f \in found : f.attempt = Len(list),
         NEW new, new.status = ResultOf(found), new.attempt = row.attempt,
         new.fence = row.fence, new.set = row.set
  PROVE  RowsOK(new, Finish(list, Len(list), "COMPLETED", ResultOf(found)),
                {f \in open : f.attempt >= Len(list)} \cup found, outs)
<1> DEFINE next == Finish(list, Len(list), "COMPLETED", ResultOf(found))
<1>1. ResultOf(found) \in Results /\ Agrees(row, list)
  BY ResultType DEF RowsOK
<1>2. /\ Agrees(new, next)
      /\ LastChecked(next, Len(list))
      /\ Lineage(next, outs)
  BY <1>1, VerdictAttempt DEF RowsOK
<1>3. Len(list) \in Nat /\ DOMAIN list = 1..Len(list)
  BY LenProperties
<1>4. \A f \in open : f.attempt \in 1..Len(list) /\ f.attempt # Len(list)
  BY <1>3 DEF RowsOK, Agrees, FindingsAgree, LastChecked
<1> HIDE DEF next
<1>5. FindingsAgree(new, next, {f \in open : f.attempt >= Len(list)} \cup found)
  BY <1>2, <1>3, <1>4, VerdictFindings
<1> QED BY <1>2, <1>5 DEF RowsOK, next

(* The last attempt is recorded FAILED. *)
LEMMA FailureKeeps ==
  ASSUME NEW row \in ImportRow, NEW list \in Seq(AttemptRow), NEW open, NEW outs,
         RowsOK(row, list, open, outs), row.status = "VALIDATING",
         NEW new, new.status = "FAILED", new.attempt = row.attempt, new.fence = row.fence
  PROVE  RowsOK(new, FailedList(list, Len(list)), open, outs)
<1> DEFINE last == Len(list)
           next == FailedList(list, last)
<1>1. /\ Len(next) = last /\ last \in Nat
      /\ DOMAIN list = 1..last /\ DOMAIN next = 1..last
      /\ \A i \in 1..last : next[i] = IF i = last /\ list[i].status = "RUNNING"
                                     THEN [list[i] EXCEPT !.status = "FAILED"] ELSE list[i]
  BY FailedListType, LenProperties
<1> HIDE DEF next
<1>2. /\ last > 0 /\ list[last].status = "RUNNING"
      /\ row.attempt = last /\ row.fence = last
      /\ \A i \in 1..last : list[i].status = "RUNNING" => i = last
  BY <1>1 DEF RowsOK, Agrees
<1>3. list[last] \in AttemptRow
  BY <1>1, <1>2, ElementOfSeq
<1>4. next[last].status = "FAILED"
  BY <1>1, <1>2, <1>3 DEF AttemptRow
<1>5. \A n \in DOMAIN next : next[n].status # "RUNNING"
  BY <1>1, <1>2, <1>4
<1>6. Agrees(new, next)
  BY <1>1, <1>2, <1>4, <1>5 DEF Agrees, Results
<1>7. /\ \A n \in DOMAIN list : list[n].status = "COMPLETED" =>
            n \in DOMAIN next /\ next[n] = list[n]
      /\ \A n \in DOMAIN next : next[n].status = "COMPLETED" =>
            n \in DOMAIN list /\ list[n].status = "COMPLETED"
  BY <1>1, <1>2, <1>4
<1>8. FindingsAgree(new, next, open)
  BY <1>7, LastCheckedKept DEF RowsOK, FindingsAgree, Results
<1>9. Lineage(next, outs)
  BY <1>7, LineageKept DEF RowsOK
<1> QED BY <1>6, <1>8, <1>9 DEF RowsOK, next

(* An output of the last attempt, which had none. *)
LEMMA OutputKeeps ==
  ASSUME NEW row \in ImportRow, NEW list \in Seq(AttemptRow), NEW open,
         NEW outs \in Seq(OutputRow), RowsOK(row, list, open, outs),
         NEW output \in OutputRow, output.status = "GENERATED",
         output.attempt = Len(list), Clean(list, output),
         \A i \in DOMAIN outs : outs[i].attempt # Len(list)
  PROVE  RowsOK(row, list, open, Append(Superseded(outs), output))
<1> DEFINE old == Superseded(outs)
           next == Append(old, output)
           last == Len(outs) + 1
<1>1. /\ old \in Seq(OutputRow) /\ Len(old) = Len(outs) /\ Len(outs) \in Nat
      /\ DOMAIN outs = 1..Len(outs)
      /\ \A i \in 1..Len(outs) : /\ old[i].attempt = outs[i].attempt
                                  /\ old[i].set = outs[i].set
                                  /\ old[i].status = "SUPERSEDED"
  BY SupersededList, LenProperties
<1> HIDE DEF old
<1>2. /\ next \in Seq(OutputRow) /\ Len(next) = last
      /\ \A i \in 1..Len(outs) : next[i] = old[i]
      /\ next[last] = output
  BY <1>1, AppendProperties
<1>3. DOMAIN next = 1..last
  BY <1>2, LenProperties
<1> HIDE DEF next
<1>4. \A i \in 1..Len(outs) : Clean(list, outs[i]) /\ outs[i].attempt < Len(list)
  <2>1. DOMAIN list = 1..Len(list) /\ Len(list) \in Nat
    BY LenProperties
  <2> QED BY <1>1, <2>1 DEF RowsOK, Lineage, Clean
<1>5. \A i \in 1..Len(outs) : Clean(list, next[i]) /\ next[i].attempt = outs[i].attempt
                               /\ next[i].status = "SUPERSEDED"
  BY <1>1, <1>2, <1>4 DEF Clean
<1>6. \A i, j \in 1..Len(outs) : i < j => next[i].attempt < next[j].attempt
  BY <1>1, <1>5 DEF RowsOK, Lineage
<1>7. Lineage(list, next)
  <2> SUFFICES ASSUME NEW i \in 1..last
               PROVE  /\ Clean(list, next[i])
                      /\ next[i].status = "GENERATED" <=> i = last
                      /\ \A j \in 1..last : i < j => next[i].attempt < next[j].attempt
    BY <1>2, <1>3 DEF Lineage
  <2>1. CASE i = last BY <1>1, <1>2, <2>1
  <2>2. CASE i # last
    <3>1. i \in 1..Len(outs) BY <1>1, <2>2
    <3>2. \A j \in 1..last : j = last \/ j \in 1..Len(outs) BY <1>1
    <3> QED BY <1>2, <1>4, <1>5, <1>6, <2>2, <3>1, <3>2
  <2> QED BY <2>1, <2>2
<1> QED BY <1>7 DEF RowsOK, next, old

-----------------------------------------------------------------------------
(* The requests. *)

Claiming == {"capture", "blocked", "claim"}
Checking == {"run", "write", "finalize", "fail"}

(* A worker checks the attempt its claim created; a claim does not start     *)
(* from an archived import; an output is generated from the row as it is.    *)
WorkerOK(w, step, row, now) ==
    /\ step \in Checking => row.attempt = row.fence
    /\ step \in Claiming => row.status # "ARCHIVED"
    /\ step = "generate" => w \in Generations /\ now = row /\ row.status = "VALIDATED"

WorkersOK == \A w \in Requests : WorkerOK(w, pc[w], seen[w], import[target[w]])

RecordsInv == ImportsOK /\ WorkersOK

Frozen == \A b \in Imports : import[b].status = "ARCHIVED" =>
              /\ import'[b] = import[b] /\ attempts'[b] = attempts[b]
              /\ findings'[b] = findings[b] /\ outputs'[b] = outputs[b]

Kept == RecordsInv' /\ Frozen

(* One request moves, and no output under way is about a row that changes. *)
LEMMA OneWorker ==
  ASSUME TypeInv, WorkersOK, NEW w \in Requests, NEW step, Goto(w, step),
         \A x \in Requests \ {w} : seen'[x] = seen[x] /\ target'[x] = target[x],
         \A x \in Requests \ {w} :
            pc[x] = "generate" => import'[target[x]] = import[target[x]],
         WorkerOK(w, step, seen'[w], import'[target'[w]])
  PROVE  WorkersOK'
<1> SUFFICES ASSUME NEW x \in Requests
             PROVE  WorkerOK(x, pc'[x], seen'[x], import'[target'[x]])
  BY DEF WorkersOK
<1>1. CASE x = w
  BY <1>1 DEF Goto, TypeInv, RequestsTyped
<1>2. CASE x # w
  <2>1. pc'[x] = pc[x] /\ seen'[x] = seen[x] /\ target'[x] = target[x]
    BY <1>2 DEF Goto, TypeInv, RequestsTyped
  <2>2. WorkerOK(x, pc[x], seen[x], import[target[x]])
    BY DEF WorkersOK
  <2> QED BY <1>2, <2>1, <2>2 DEF WorkerOK
<1> QED BY <1>1, <1>2

(* A step that changes the rows of no import. *)
LEMMA OnlyMoves ==
  ASSUME TypeInv, RecordsInv, NEW w \in Requests, NEW step, Goto(w, step),
         UNCHANGED <<import, attempts, findings, outputs, target, seen>>,
         step \in Checking => pc[w] \in Checking,
         step \in Claiming => pc[w] \in Claiming, step # "generate"
  PROVE  Kept
<1>1. ImportsOK' /\ Frozen
  BY DEF RecordsInv, ImportsOK, Frozen
<1>2. WorkerOK(w, step, seen'[w], import'[target'[w]])
  BY DEF RecordsInv, WorkersOK, WorkerOK
<1>3. WorkersOK'
  BY <1>2, OneWorker DEF RecordsInv
<1> QED BY <1>1, <1>3 DEF Kept, RecordsInv

LEMMA MovesKeeps ==
  ASSUME TypeInv, RecordsInv, NEW w \in Requests, NEW step, Moves(w, step),
         step \in Checking => pc[w] \in Checking,
         step \in Claiming => pc[w] \in Claiming, step # "generate"
  PROVE  Kept
  BY OnlyMoves DEF Moves, tables

LEMMA ReadsKeeps ==
  ASSUME TypeInv, RecordsInv, NEW w \in Requests, NEW b \in Imports, NEW step,
         Reads(w, b, step), step \notin Checking,
         step \in Claiming => import[b].status # "ARCHIVED",
         step = "generate" => w \in Generations /\ import[b].status = "VALIDATED"
  PROVE  Kept
<1>1. ImportsOK' /\ Frozen
  BY DEF RecordsInv, ImportsOK, Frozen, Reads, tables
<1>2. seen'[w] = import[b] /\ target'[w] = b /\ import' = import
  BY DEF Reads, tables, TypeInv, RequestsTyped
<1>3. WorkerOK(w, step, seen'[w], import'[target'[w]])
  BY <1>2 DEF WorkerOK
<1>4. \A x \in Requests \ {w} : seen'[x] = seen[x] /\ target'[x] = target[x]
  BY DEF Reads, TypeInv, RequestsTyped
<1>5. WorkersOK'
  BY <1>2, <1>3, <1>4, OneWorker DEF RecordsInv, Reads
<1> QED BY <1>1, <1>5 DEF Kept, RecordsInv

(* A step that changes the rows of one import. *)
LEMMA OneImport ==
  ASSUME TypeInv, ImportsOK, NEW b \in Imports, import[b].status # "ARCHIVED",
         NEW row, NEW list, NEW open, NEW outs, RowsOK(row, list, open, outs),
         import' = [import EXCEPT ![b] = row], attempts' = [attempts EXCEPT ![b] = list],
         findings' = [findings EXCEPT ![b] = open], outputs' = [outputs EXCEPT ![b] = outs]
  PROVE  ImportsOK' /\ Frozen
<1>1. /\ import'[b] = row /\ attempts'[b] = list
      /\ findings'[b] = open /\ outputs'[b] = outs
  BY DEF TypeInv, TablesTyped
<1>2. \A c \in Imports : c # b =>
         /\ import'[c] = import[c] /\ attempts'[c] = attempts[c]
         /\ findings'[c] = findings[c] /\ outputs'[c] = outputs[c]
  BY DEF TypeInv, TablesTyped
<1>3. ASSUME NEW c \in Imports
      PROVE  RowsOK(import'[c], attempts'[c], findings'[c], outputs'[c])
  <2>1. CASE c = b BY <1>1, <2>1
  <2>2. CASE c # b
    <3>1. RowsOK(import[c], attempts[c], findings[c], outputs[c]) BY DEF ImportsOK
    <3> QED BY <1>2, <2>2, <3>1
  <2> QED BY <2>1, <2>2
<1>4. ImportsOK' BY <1>3 DEF ImportsOK
<1>5. Frozen BY <1>2 DEF Frozen
<1> QED BY <1>4, <1>5

(* Nobody generates an output of an import that is not VALIDATED or whose    *)
(* row is not locked.                                                        *)
LEMMA NotGenerating ==
  ASSUME WorkersOK, NEW b \in Imports, import[b].status # "VALIDATED" \/ ~RowLocked(b),
         NEW x \in Requests, pc[x] = "generate"
  PROVE  target[x] # b
<1>1. WorkerOK(x, pc[x], seen[x], import[target[x]])
  BY DEF WorkersOK
<1>2. x \in Generations /\ import[target[x]].status = "VALIDATED"
  BY <1>1 DEF WorkerOK
<1> QED BY <1>2 DEF RowLocked

(* A step of one request that changes the rows of one import. *)
LEMMA OneChange ==
  ASSUME TypeInv, RecordsInv, NEW w \in Requests, NEW step, Goto(w, step),
         NEW b \in Imports, import[b].status # "ARCHIVED",
         import[b].status # "VALIDATED" \/ ~RowLocked(b),
         NEW row, NEW list, NEW open, NEW outs, RowsOK(row, list, open, outs),
         import' = [import EXCEPT ![b] = row], attempts' = [attempts EXCEPT ![b] = list],
         findings' = [findings EXCEPT ![b] = open], outputs' = [outputs EXCEPT ![b] = outs],
         \A x \in Requests \ {w} : seen'[x] = seen[x] /\ target'[x] = target[x],
         step \in Checking => seen'[w].attempt = seen'[w].fence,
         step \notin Claiming, step # "generate"
  PROVE  Kept
<1>1. ImportsOK' /\ Frozen
  BY OneImport DEF RecordsInv
<1>2. \A x \in Requests \ {w} :
         pc[x] = "generate" => import'[target[x]] = import[target[x]]
  BY NotGenerating DEF RecordsInv, TypeInv, TablesTyped, TargetOK, Begun
<1>3. WorkerOK(w, step, seen'[w], import'[target'[w]])
  BY DEF WorkerOK
<1>4. WorkersOK'
  BY <1>2, <1>3, OneWorker DEF RecordsInv
<1> QED BY <1>1, <1>4 DEF Kept, RecordsInv

(* What stays the same is set to what it is. *)
LEMMA SameRows ==
  ASSUME TypeInv, NEW b \in Imports
  PROVE  /\ import = [import EXCEPT ![b] = import[b]]
         /\ attempts = [attempts EXCEPT ![b] = attempts[b]]
         /\ findings = [findings EXCEPT ![b] = findings[b]]
         /\ outputs = [outputs EXCEPT ![b] = outputs[b]]
  BY DEF TypeInv, TablesTyped

-----------------------------------------------------------------------------
(* Every step keeps the records, and leaves archived imports as they are. *)

LEMMA UploadKeeps ==
  ASSUME TypeInv, RecordsInv, NEW u \in Uploads, UploadStep(u)
  PROVE  Kept
<1>0. u \in Requests BY DEF Requests
<1>1. CASE UploadNew(u)
  <2>1. PICK b \in Imports : /\ ~Visible(b)
                             /\ import' = [import EXCEPT ![b].status = "UPLOADED"]
                             /\ target' = [target EXCEPT ![u] = b]
    BY <1>1 DEF UploadNew
  <2> DEFINE row == [import[b] EXCEPT !.status = "UPLOADED"]
  <2>2. import[b] \in ImportRow /\ import[b].status = "NONE"
    BY <2>1 DEF Visible, TypeInv, TablesTyped
  <2>3. RowsOK(row, attempts[b], findings[b], outputs[b])
    BY <2>2, StatusRows DEF RecordsInv, ImportsOK, TypeInv, TablesTyped
  <2>4. import' = [import EXCEPT ![b] = row]
    BY <2>1 DEF TypeInv, TablesTyped
  <2> HIDE DEF row
  <2>5. /\ attempts' = [attempts EXCEPT ![b] = attempts[b]]
        /\ findings' = [findings EXCEPT ![b] = findings[b]]
        /\ outputs' = [outputs EXCEPT ![b] = outputs[b]]
    BY <1>1, SameRows DEF UploadNew
  <2>6. /\ "done" \notin Checking /\ "done" \notin Claiming /\ "done" # "generate"
        /\ Goto(u, "done")
    BY <1>1 DEF UploadNew, Checking, Claiming
  <2>7. \A x \in Requests \ {u} : seen'[x] = seen[x] /\ target'[x] = target[x]
    BY <1>1, <2>1 DEF UploadNew, TypeInv, RequestsTyped
  <2> QED BY <1>0, <2>2, <2>3, <2>4, <2>5, <2>6, <2>7, OneChange
<1>2. CASE UploadDuplicate(u)
  BY <1>0, <1>2, MovesKeeps DEF UploadDuplicate, Checking, Claiming
<1>3. CASE UploadFind(u)
  BY <1>0, <1>3, MovesKeeps, ReadsKeeps DEF UploadFind, Checking, Claiming
<1> QED BY <1>1, <1>2, <1>3 DEF UploadStep

LEMMA ArchiveKeeps ==
  ASSUME TypeInv, RecordsInv, NEW a \in Archives, ArchiveStep(a)
  PROVE  Kept
<1>0. a \in Requests BY DEF Requests
<1>1. CASE ArchiveRead(a)
  <2>1. PICK b \in Imports :
           Reads(a, b, CASE import[b].status = "ARCHIVED" -> "done"
                         [] import[b].status = "VALIDATING" -> "refused"
                         [] OTHER -> "archive")
    BY <1>1 DEF ArchiveRead
  <2>2. \E step \in {"done", "refused", "archive"} : Reads(a, b, step)
    BY <2>1
  <2> QED BY <1>0, <2>2, ReadsKeeps DEF Checking, Claiming
<1>2. CASE ArchiveWrite(a)
  <2> DEFINE b == target[a]
             row == [import[b] EXCEPT !.status = "ARCHIVED"]
  <2>1. b \in Imports /\ import[b] \in ImportRow
    BY <1>0, <1>2 DEF ArchiveWrite, TypeInv, TargetOK, Begun, TablesTyped
  <2>2. /\ import[b].status # "VALIDATING" /\ import[b].status # "ARCHIVED"
        /\ ~RowLocked(b)
    BY <1>2 DEF ArchiveWrite, ArchiveAllowed
  <2>3. RowsOK(row, attempts[b], findings[b], outputs[b])
    BY <2>1, <2>2, StatusRows DEF RecordsInv, ImportsOK
  <2>4. import' = [import EXCEPT ![b] = row]
    BY <1>2, <2>1 DEF ArchiveWrite, TypeInv, TablesTyped
  <2> HIDE DEF row
  <2>5. /\ attempts' = [attempts EXCEPT ![b] = attempts[b]]
        /\ findings' = [findings EXCEPT ![b] = findings[b]]
        /\ outputs' = [outputs EXCEPT ![b] = outputs[b]]
    BY <1>2, <2>1, SameRows DEF ArchiveWrite
  <2>6. /\ "done" \notin Checking /\ "done" \notin Claiming /\ "done" # "generate"
        /\ Goto(a, "done") /\ UNCHANGED <<seen, target>>
    BY <1>2 DEF ArchiveWrite, Checking, Claiming
  <2> QED BY <1>0, <2>1, <2>2, <2>3, <2>4, <2>5, <2>6, OneChange
<1>3. CASE ArchiveRefused(a)
  BY <1>0, <1>3, MovesKeeps DEF ArchiveRefused, Checking, Claiming
<1> QED BY <1>1, <1>2, <1>3 DEF ArchiveStep

LEMMA SaveKeeps ==
  ASSUME TypeInv, RecordsInv, NEW s \in Saves, SaveStep(s) \/ SaveRefused(s)
  PROVE  Kept
<1>0. s \in Requests BY DEF Requests
<1>1. CASE SaveBegin(s)
  BY <1>0, <1>1, OnlyMoves DEF SaveBegin, tables, Checking, Claiming
<1>2. CASE SaveReplace(s)
  BY <1>0, <1>2, MovesKeeps DEF SaveReplace, Checking, Claiming
<1>3. CASE SaveRefused(s)
  BY <1>0, <1>3, MovesKeeps DEF SaveRefused, Checking, Claiming
<1>4. CASE SaveCommit(s)
  BY <1>0, <1>4, OnlyMoves DEF SaveCommit, Checking, Claiming
<1> QED BY <1>1, <1>2, <1>3, <1>4 DEF SaveStep

LEMMA ClaimKeeps ==
  ASSUME TypeInv, RecordsInv, NEW v \in Validations, ClaimStep(v)
  PROVE  Kept
<1>0. v \in Requests BY DEF Requests
<1>1. CASE ClaimRead(v)
  BY <1>0, <1>1, ReadsKeeps DEF ClaimRead, Checking, Claiming
<1>2. ASSUME pc[v] \in {"capture", "blocked"}, Captures(v) PROVE Kept
  BY <1>0, <1>2, OnlyMoves DEF Captures, tables, Checking, Claiming
<1>3. CASE Capture(v)
  BY <1>2, <1>3 DEF Capture
<1>4. CASE CaptureWaits(v)
  BY <1>0, <1>4, OnlyMoves DEF CaptureWaits, tables, Checking, Claiming
<1>5. CASE CaptureResumes(v)
  BY <1>0, <1>2, <1>5, MovesKeeps DEF CaptureResumes, Checking, Claiming
<1>6. CASE ClaimReuse(v)
  BY <1>0, <1>6, MovesKeeps DEF ClaimReuse, Checking, Claiming
<1>7. CASE ClaimRefused(v)
  BY <1>0, <1>7, MovesKeeps DEF ClaimRefused, Checking, Claiming
<1>8. CASE Claim(v)
  <2> DEFINE b == target[v]
             row == ClaimedRow(v)
             new == [status |-> "RUNNING", result |-> "NONE", set |-> captured[v]]
             list == Append(Abandoned(attempts[b]), new)
  <2>1. b \in Imports /\ captured[v] \in Nat
    BY <1>0, <1>8 DEF Claim, TypeInv, TargetOK, Begun, RequestsTyped
  <2>2. /\ row.status = "VALIDATING" /\ row.attempt = import[b].attempt + 1
        /\ row.fence = import[b].fence + 1 /\ row.set = captured[v]
        /\ new \in AttemptRow
    BY <2>1, ClaimedRowType DEF AttemptRow
  <2>3. /\ import' = [import EXCEPT ![b] = row]
        /\ attempts' = [attempts EXCEPT ![b] = list]
        /\ seen' = [seen EXCEPT ![v] = row]
    BY <1>8, ClaimRows
  <2>4. /\ import[b] \in ImportRow /\ attempts[b] \in Seq(AttemptRow)
        /\ RowsOK(import[b], attempts[b], findings[b], outputs[b])
    BY <2>1 DEF TypeInv, TablesTyped, RecordsInv, ImportsOK
  <2> HIDE DEF row
  <2>5. RowsOK(row, list, findings[b], outputs[b])
    BY <2>1, <2>2, <2>4, ClaimedRows
  <2> HIDE DEF list
  <2>6. import[b].status # "ARCHIVED"
    <3>1. WorkerOK(v, pc[v], seen[v], import[target[v]])
      BY <1>0 DEF RecordsInv, WorkersOK
    <3> QED BY <1>8, <3>1 DEF Claim, Claimable, WorkerOK, Claiming
  <2>7. /\ findings' = [findings EXCEPT ![b] = findings[b]]
        /\ outputs' = [outputs EXCEPT ![b] = outputs[b]]
    BY <1>8, <2>1, SameRows DEF Claim
  <2>8. /\ "run" \notin Claiming /\ "run" # "generate" /\ Goto(v, "run")
        /\ ~RowLocked(b)
    BY <1>8 DEF Claim, Claiming
  <2>9. /\ \A x \in Requests \ {v} : seen'[x] = seen[x] /\ target'[x] = target[x]
        /\ seen'[v] = row
    BY <1>0, <1>8, <2>3 DEF Claim, TypeInv, RequestsTyped
  <2>10. row.attempt = row.fence
    BY <2>2, <2>4 DEF RowsOK, Agrees
  <2> QED BY <1>0, <2>1, <2>3, <2>5, <2>6, <2>7, <2>8, <2>9, <2>10, OneChange
<1> QED BY <1>1, <1>3, <1>4, <1>5, <1>6, <1>7, <1>8 DEF ClaimStep

(* A worker that holds its claim checks the last attempt of the import. *)
LEMMA HoldsLast ==
  ASSUME TypeInv, RecordsInv, NEW v \in Validations, pc[v] \in Checking, Holds(v)
  PROVE  /\ target[v] \in Imports /\ import[target[v]] \in ImportRow
         /\ attempts[target[v]] \in Seq(AttemptRow)
         /\ RowsOK(import[target[v]], attempts[target[v]], findings[target[v]],
                   outputs[target[v]])
         /\ import[target[v]].status = "VALIDATING"
         /\ seen[v].attempt = Len(attempts[target[v]])
         /\ seen[v].attempt = import[target[v]].attempt
<1>1. v \in Requests BY DEF Requests
<1>2. /\ target[v] \in Imports /\ import[target[v]] \in ImportRow
      /\ attempts[target[v]] \in Seq(AttemptRow)
  BY <1>1 DEF TypeInv, TargetOK, Begun, Checking, TablesTyped
<1>3. RowsOK(import[target[v]], attempts[target[v]], findings[target[v]], outputs[target[v]])
  BY <1>2 DEF RecordsInv, ImportsOK
<1>4. WorkerOK(v, pc[v], seen[v], import[target[v]])
  BY <1>1 DEF RecordsInv, WorkersOK
<1> QED BY <1>2, <1>3, <1>4 DEF WorkerOK, Holds, RowsOK, Agrees

LEMMA FinalizeKeeps ==
  ASSUME TypeInv, RecordsInv, NEW v \in Validations, RunFinalize(v)
  PROVE  Kept
<1> DEFINE b == target[v]
           n == seen[v].attempt
<1>1. pc[v] \in Checking /\ Holds(v) /\ v \in Requests
  BY DEF RunFinalize, Checking, Requests
<1>2. /\ b \in Imports /\ import[b] \in ImportRow /\ attempts[b] \in Seq(AttemptRow)
      /\ RowsOK(import[b], attempts[b], findings[b], outputs[b])
      /\ import[b].status = "VALIDATING" /\ n = Len(attempts[b])
  BY <1>1, HoldsLast
<1>3. PICK found \in SUBSET [attempt: {n}, blocking: BOOLEAN] :
         /\ import' = [import EXCEPT ![b] =
                         [import[b] EXCEPT !.status = ResultOf(found),
                                           !.token = NoOne, !.expired = FALSE]]
         /\ attempts' = [attempts EXCEPT ![b] =
                           Finish(@, n, "COMPLETED", ResultOf(found))]
         /\ findings' = [findings EXCEPT ![b] = OpenAfter(v, found)]
  BY VerdictRows
<1> DEFINE r == ResultOf(found)
           row == [import[b] EXCEPT !.status = r, !.token = NoOne, !.expired = FALSE]
           list == Finish(attempts[b], n, "COMPLETED", r)
           open == OpenAfter(v, found)
<1>4. /\ row.status = r /\ row.attempt = import[b].attempt
      /\ row.fence = import[b].fence /\ row.set = import[b].set
  BY <1>2 DEF ImportRow
<1>5. \A f \in found : f.attempt = n
  BY <1>3
<1>6. /\ import' = [import EXCEPT ![b] = row] /\ attempts' = [attempts EXCEPT ![b] = list]
      /\ findings' = [findings EXCEPT ![b] = open]
  BY <1>3
<1>7. open = {f \in findings[b] : f.attempt >= Len(attempts[b])} \cup found
  BY <1>2 DEF OpenAfter
<1> HIDE DEF row, open, r
<1>8. RowsOK(row, list, open, outputs[b])
  BY <1>2, <1>4, <1>5, <1>7, VerdictKeeps DEF r
<1> HIDE DEF list
<1>9. outputs' = [outputs EXCEPT ![b] = outputs[b]]
  BY <1>2, SameRows DEF RunFinalize
<1>10. /\ "done" \notin Checking /\ "done" \notin Claiming /\ "done" # "generate"
       /\ Goto(v, "done") /\ UNCHANGED <<seen, target>>
  BY DEF RunFinalize, Checking, Claiming
<1> QED BY <1>1, <1>2, <1>6, <1>8, <1>9, <1>10, OneChange

LEMMA FailKeeps ==
  ASSUME TypeInv, RecordsInv, NEW v \in Validations, FailRecord(v)
  PROVE  Kept
<1> DEFINE b == target[v]
           n == seen[v].attempt
           row == [import[b] EXCEPT !.status = "FAILED", !.token = NoOne,
                                    !.expired = FALSE]
           list == FailedList(attempts[b], n)
<1>1. pc[v] \in Checking /\ Holds(v) /\ v \in Requests
  BY DEF FailRecord, Checking, Requests
<1>2. /\ b \in Imports /\ import[b] \in ImportRow /\ attempts[b] \in Seq(AttemptRow)
      /\ RowsOK(import[b], attempts[b], findings[b], outputs[b])
      /\ import[b].status = "VALIDATING" /\ n = Len(attempts[b])
  BY <1>1, HoldsLast
<1>3. import' = [import EXCEPT ![b] = row] /\ attempts' = [attempts EXCEPT ![b] = list]
  BY FailureRows DEF FailedList
<1>4. /\ row.status = "FAILED" /\ row.attempt = import[b].attempt
      /\ row.fence = import[b].fence
  BY <1>2 DEF ImportRow
<1> HIDE DEF row
<1>5. RowsOK(row, list, findings[b], outputs[b])
  BY <1>2, <1>4, FailureKeeps
<1> HIDE DEF list
<1>6. /\ findings' = [findings EXCEPT ![b] = findings[b]]
      /\ outputs' = [outputs EXCEPT ![b] = outputs[b]]
  BY <1>2, SameRows DEF FailRecord
<1>7. /\ "refused" \notin Checking /\ "refused" \notin Claiming /\ "refused" # "generate"
      /\ Goto(v, "refused") /\ UNCHANGED <<seen, target>>
  BY DEF FailRecord, Checking, Claiming
<1> QED BY <1>1, <1>2, <1>3, <1>5, <1>6, <1>7, OneChange

LEMMA RunKeeps ==
  ASSUME TypeInv, RecordsInv, NEW v \in Validations,
         RunStep(v) \/ RunError(v) \/ Crash(v)
  PROVE  Kept
<1>0. v \in Requests BY DEF Requests
<1>1. CASE RunBegin(v)
  BY <1>0, <1>1, MovesKeeps DEF RunBegin, Checking, Claiming
<1>2. CASE RunWrite(v)
  BY <1>0, <1>2, MovesKeeps DEF RunWrite, Checking, Claiming
<1>3. CASE RunStale(v)
  BY <1>0, <1>3, MovesKeeps DEF RunStale, Checking, Claiming
<1>4. CASE RunError(v)
  BY <1>0, <1>4, MovesKeeps DEF RunError, Checking, Claiming
<1>5. CASE Crash(v)
  BY <1>0, <1>5, MovesKeeps DEF Crash, Checking, Claiming
<1>6. CASE FailUnrecorded(v)
  BY <1>0, <1>6, MovesKeeps DEF FailUnrecorded, Checking, Claiming
<1> QED
  BY <1>1, <1>2, <1>3, <1>4, <1>5, <1>6, FinalizeKeeps, FailKeeps DEF RunStep

LEMMA GenerateKeeps ==
  ASSUME TypeInv, RecordsInv, NEW g \in Generations, GenerateStep(g) \/ GenerateRefused(g)
  PROVE  Kept
<1>0. g \in Requests BY DEF Requests
<1>1. CASE GenerateBegin(g)
  BY <1>0, <1>1, ReadsKeeps DEF GenerateBegin, Checking, Claiming
<1>2. CASE GenerateBusy(g)
  BY <1>0, <1>2, MovesKeeps DEF GenerateBusy, Checking, Claiming
<1>3. CASE GenerateReuse(g)
  BY <1>0, <1>3, MovesKeeps DEF GenerateReuse, Checking, Claiming
<1>4. CASE GenerateRefused(g)
  BY <1>0, <1>4, MovesKeeps DEF GenerateRefused, Checking, Claiming
<1>5. CASE GenerateCommit(g)
  <2> DEFINE b == target[g]
             n == seen[g].attempt
             output == [attempt |-> n, set |-> attempts[b][n].set, status |-> "GENERATED"]
             outs == Append(Superseded(outputs[b]), output)
  <2>1. b \in Imports
    BY <1>0, <1>5 DEF GenerateCommit, TypeInv, TargetOK, Begun
  <2>2. /\ import[b] \in ImportRow /\ attempts[b] \in Seq(AttemptRow)
        /\ outputs[b] \in Seq(OutputRow)
        /\ RowsOK(import[b], attempts[b], findings[b], outputs[b])
    BY <2>1 DEF TypeInv, TablesTyped, RecordsInv, ImportsOK
  <2>3. import[b].status = "VALIDATED" /\ n = Len(attempts[b])
    <3>1. WorkerOK(g, pc[g], seen[g], import[b])
      BY <1>0 DEF RecordsInv, WorkersOK
    <3> QED BY <1>5, <2>2, <3>1 DEF GenerateCommit, WorkerOK, RowsOK, Agrees
  <2>4. /\ n \in DOMAIN attempts[b]
        /\ attempts[b][n].status = "COMPLETED" /\ attempts[b][n].result = "VALIDATED"
    BY <1>5 DEF GenerateCommit, CleanAttempt
  <2>5. attempts[b][n] \in AttemptRow /\ n \in Nat
    BY <2>2, <2>4, LenProperties, ElementOfSeq
  <2>6. /\ attempts[b][n].set \in Nat
        /\ attempts[b][n] = [status |-> "COMPLETED", result |-> "VALIDATED",
                             set |-> attempts[b][n].set]
    BY <2>4, <2>5 DEF AttemptRow
  <2>7. /\ output \in OutputRow /\ output.status = "GENERATED"
        /\ output.attempt = n /\ output.set = attempts[b][n].set
    BY <2>5, <2>6 DEF OutputRow
  <2>8. outputs' = [outputs EXCEPT ![b] = outs]
    BY <1>5 DEF GenerateCommit
  <2> HIDE DEF output
  <2>9. Clean(attempts[b], output)
    BY <2>4, <2>6, <2>7 DEF Clean
  <2>10. \A i \in DOMAIN outputs[b] : outputs[b][i].attempt # Len(attempts[b])
    BY <1>5, <2>3 DEF GenerateCommit, ExistingOutput
  <2>11. RowsOK(import[b], attempts[b], findings[b], outs)
    BY <2>2, <2>3, <2>7, <2>9, <2>10, OutputKeeps
  <2> HIDE DEF outs
  <2>12. /\ import' = [import EXCEPT ![b] = import[b]]
         /\ attempts' = [attempts EXCEPT ![b] = attempts[b]]
         /\ findings' = [findings EXCEPT ![b] = findings[b]]
    BY <1>5, <2>1, SameRows DEF GenerateCommit
  <2>13. ImportsOK' /\ Frozen
    BY <2>1, <2>3, <2>8, <2>11, <2>12, OneImport DEF RecordsInv
  <2>14. /\ WorkerOK(g, "done", seen'[g], import'[target'[g]])
         /\ Goto(g, "done") /\ UNCHANGED <<seen, target, import>>
    BY <1>5 DEF GenerateCommit, WorkerOK, Checking, Claiming
  <2>15. WorkersOK'
    BY <1>0, <2>14, OneWorker DEF RecordsInv
  <2> QED BY <2>13, <2>15 DEF Kept, RecordsInv
<1> QED BY <1>1, <1>2, <1>3, <1>4, <1>5 DEF GenerateStep

LEMMA OtherKeeps ==
  ASSUME TypeInv, RecordsInv,
         \/ \E w \in Requests : NotFound(w) \/ Abort(w)
         \/ \E b \in Imports : Expire(b)
  PROVE  Kept
<1>1. ASSUME NEW w \in Requests, NotFound(w) \/ Abort(w) PROVE Kept
  BY <1>1, MovesKeeps DEF NotFound, Abort, Checking, Claiming
<1>2. ASSUME NEW b \in Imports, Expire(b) PROVE Kept
  <2> DEFINE row == [import[b] EXCEPT !.expired = TRUE]
  <2>1. /\ import[b] \in ImportRow
        /\ RowsOK(import[b], attempts[b], findings[b], outputs[b])
    BY DEF TypeInv, TablesTyped, RecordsInv, ImportsOK
  <2>2. RowsOK(row, attempts[b], findings[b], outputs[b])
    BY <2>1, ExpiredRows
  <2>3. import' = [import EXCEPT ![b] = row] /\ import[b].status = "VALIDATING"
    BY <1>2 DEF Expire, TypeInv, TablesTyped
  <2> HIDE DEF row
  <2>4. /\ attempts' = [attempts EXCEPT ![b] = attempts[b]]
        /\ findings' = [findings EXCEPT ![b] = findings[b]]
        /\ outputs' = [outputs EXCEPT ![b] = outputs[b]]
        /\ UNCHANGED <<pc, seen, target>>
    BY <1>2, SameRows DEF Expire
  <2>5. ImportsOK' /\ Frozen
    BY <2>2, <2>3, <2>4, OneImport DEF RecordsInv
  <2>6. ASSUME NEW x \in Requests
        PROVE  WorkerOK(x, pc[x], seen[x], import'[target[x]])
    <3>1. WorkerOK(x, pc[x], seen[x], import[target[x]])
      BY DEF RecordsInv, WorkersOK
    <3>2. pc[x] = "generate" => target[x] # b
      BY <2>3, NotGenerating DEF RecordsInv
    <3>3. pc[x] = "generate" => import'[target[x]] = import[target[x]]
      BY <2>3, <3>2 DEF TypeInv, TargetOK, Begun, TablesTyped
    <3> QED BY <3>1, <3>3 DEF WorkerOK
  <2>7. WorkersOK'
    BY <2>4, <2>6 DEF WorkersOK
  <2> QED BY <2>5, <2>7 DEF Kept, RecordsInv
<1> QED BY <1>1, <1>2

LEMMA InitRecords == Init => RecordsInv
<1> SUFFICES ASSUME Init PROVE RecordsInv OBVIOUS
<1>1. NoRow.status = "NONE" /\ NoRow.attempt = 0 /\ NoRow.fence = 0
  BY DEF NoRow
<1>2. Len(<<>>) = 0 /\ DOMAIN <<>> = {}
  BY EmptySeq
<1>3. RowsOK(NoRow, <<>>, {}, <<>>)
  BY <1>1, <1>2 DEF RowsOK, Agrees, FindingsAgree, Lineage, Results
<1>4. ImportsOK BY <1>3 DEF Init, ImportsOK
<1>5. WorkersOK
  BY DEF Init, WorkersOK, WorkerOK, Checking, Claiming
<1> QED BY <1>4, <1>5 DEF RecordsInv

LEMMA StepKeeps == TypeInv /\ RecordsInv /\ [Next]_vars => Kept
<1> SUFFICES ASSUME TypeInv, RecordsInv, [Next]_vars PROVE Kept OBVIOUS
<1>1. CASE Next
  BY <1>1, StepCases, UploadKeeps, ArchiveKeeps, SaveKeeps, ClaimKeeps, RunKeeps,
     GenerateKeeps, OtherKeeps
<1>2. CASE UNCHANGED vars
  BY <1>2 DEF vars, Kept, Frozen, RecordsInv, ImportsOK, WorkersOK
<1> QED BY <1>1, <1>2

LEMMA RecordsInvCorrect == Spec => [](TypeInv /\ RecordsInv)
<1>1. TypeInv /\ RecordsInv /\ [Next]_vars => RecordsInv'
  BY StepKeeps DEF Kept
<1> QED BY <1>1, InitRecords, TypeInvCorrect, PTL DEF Spec

-----------------------------------------------------------------------------
(* An import and its attempts agree, whatever crashed, failed or was         *)
(* overtaken.                                                                *)
THEOREM AttemptsAgreeCorrect == Spec => []AttemptsAgree
<1>1. RecordsInv => AttemptsAgree
  BY Zenon DEF RecordsInv, ImportsOK, RowsOK, Agrees, AttemptsAgree
<1> QED BY <1>1, RecordsInvCorrect, PTL

(* The open findings are those of the last check that completed, and decide  *)
(* whether its import needs review.                                          *)
THEOREM FindingsCorrect == Spec => []FindingsOfLastCheck
<1>1. ASSUME RecordsInv, NEW b \in Imports
      PROVE  /\ \A f \in findings[b] : LastChecked(attempts[b], f.attempt)
             /\ import[b].status \in Results =>
                   (import[b].status = "NEEDS_REVIEW" <=> \E f \in findings[b] : f.blocking)
  BY <1>1, Zenon DEF RecordsInv, ImportsOK, RowsOK, FindingsAgree
<1>2. ASSUME RecordsInv, NEW b \in Imports, NEW f \in findings[b]
      PROVE  /\ f.attempt \in DOMAIN attempts[b]
             /\ attempts[b][f.attempt].status = "COMPLETED"
             /\ \A n \in DOMAIN attempts[b] :
                   n > f.attempt => attempts[b][n].status # "COMPLETED"
  <2>1. LastChecked(attempts[b], f.attempt)
    BY <1>1, <1>2
  <2> QED BY <2>1, Zenon DEF LastChecked
<1>3. RecordsInv => FindingsOfLastCheck
  BY <1>1, <1>2, Zenon DEF FindingsOfLastCheck
<1> QED BY <1>3, RecordsInvCorrect, PTL

(* Every output derives from a clean attempt of its own; the newest is       *)
(* current.                                                                  *)
THEOREM LineageCorrect == Spec => []OutputLineage
<1>1. RecordsInv => OutputLineage
  BY Zenon DEF RecordsInv, ImportsOK, RowsOK, Lineage, Clean, OutputLineage
<1> QED BY <1>1, RecordsInvCorrect, PTL

(* Nothing reaches the rows of an archived import. *)
THEOREM ArchiveCorrect == Spec => ArchivedIsFrozen
<1>1. TypeInv /\ RecordsInv /\ [Next]_vars =>
        [\A b \in Imports : import[b].status = "ARCHIVED" =>
            /\ import'[b] = import[b] /\ attempts'[b] = attempts[b]
            /\ findings'[b] = findings[b] /\ outputs'[b] = outputs[b]]_vars
  BY StepKeeps DEF Kept, Frozen
<1> QED BY <1>1, RecordsInvCorrect, PTL DEF Spec, ArchivedIsFrozen

(* A step of a worker whose import was claimed again. *)
LEMMA StaleStep ==
  ASSUME TypeInv, RecordsInv, Next, NEW v \in Validations,
         pc[v] \in Checking, pc'[v] # pc[v], import[target[v]].attempt # seen[v].attempt
  PROVE  UNCHANGED tables
<1>0. v \in Requests BY DEF Requests
<1>1. ASSUME NEW w \in Requests, NEW step, Goto(w, step) PROVE v = w
  BY <1>0, <1>1 DEF Goto, TypeInv, RequestsTyped
<1>2. ~Holds(v)
  BY HoldsLast
<1>3. ASSUME NEW w \in Validations, RunStep(w) \/ RunError(w) \/ Crash(w)
      PROVE  UNCHANGED tables
  <2>1. v = w
    BY <1>1, <1>3
    DEF RunStep, RunBegin, RunWrite, RunFinalize, RunStale, RunError, FailRecord,
        FailUnrecorded, Crash, Moves, Requests
  <2> QED
    BY <1>2, <1>3, <2>1
    DEF RunStep, RunBegin, RunWrite, RunFinalize, RunStale, RunError, FailRecord,
        FailUnrecorded, Crash, Moves
<1>4. ASSUME NEW u \in Uploads, UploadStep(u) PROVE FALSE
  BY <1>1, <1>4
  DEF UploadStep, UploadNew, UploadDuplicate, UploadFind, Moves, Reads, Requests, Checking
<1>5. ASSUME NEW a \in Archives, ArchiveStep(a) PROVE FALSE
  BY <1>1, <1>5
  DEF ArchiveStep, ArchiveRead, ArchiveWrite, ArchiveRefused, Moves, Reads, Requests, Checking
<1>6. ASSUME NEW s \in Saves, SaveStep(s) \/ SaveRefused(s) PROVE FALSE
  BY <1>1, <1>6
  DEF SaveStep, SaveBegin, SaveReplace, SaveCommit, SaveRefused, Moves, Requests, Checking
<1>7. ASSUME NEW w \in Validations, ClaimStep(w) PROVE FALSE
  BY <1>1, <1>7
  DEF ClaimStep, ClaimRead, Capture, Captures, CaptureWaits, CaptureResumes, ClaimReuse,
      Claim, ClaimRefused, Moves, Reads, Requests, Checking
<1>8. ASSUME NEW g \in Generations, GenerateStep(g) \/ GenerateRefused(g) PROVE FALSE
  BY <1>1, <1>8
  DEF GenerateStep, GenerateBegin, GenerateBusy, GenerateCommit, GenerateReuse,
      GenerateRefused, Moves, Reads, Requests, Checking
<1>9. ASSUME NEW w \in Requests, NotFound(w) \/ Abort(w) PROVE FALSE
  BY <1>1, <1>9 DEF NotFound, Abort, Moves, Checking
<1>10. ASSUME NEW b \in Imports, Expire(b) PROVE FALSE
  BY <1>10 DEF Expire
<1> QED BY <1>3, <1>4, <1>5, <1>6, <1>7, <1>8, <1>9, <1>10, StepCases, Zenon

(* A worker whose import has been claimed again changes no table. *)
THEOREM StaleCorrect == Spec => StaleWorkerChangesNothing
<1>1. TypeInv /\ RecordsInv /\ [Next]_vars =>
        [\A v \in Validations :
            /\ pc[v] \in {"run", "write", "finalize", "fail"} /\ pc'[v] # pc[v]
            /\ import[target[v]].attempt # seen[v].attempt
            => UNCHANGED tables]_vars
  BY StaleStep DEF Checking
<1> QED BY <1>1, RecordsInvCorrect, PTL DEF Spec, StaleWorkerChangesNothing

-----------------------------------------------------------------------------
(***************************************************************************)
(* The refinement of SarinPromise.  Two more invariants: what a request    *)
(* read of an import some statements ago is the import's row or an earlier *)
(* state of it (ReadInv), and a change of the catalog that is under way is *)
(* one of the effective version (ChangesOK).                               *)
(***************************************************************************)

(* row is what became of old: an import stays, and its fence rises with its  *)
(* attempts.                                                                 *)
Follows(old, row) ==
    /\ old.status # "NONE" => row.status # "NONE"
    /\ old.fence <= row.fence
    /\ old.fence = row.fence => old.attempt = row.attempt /\ old.set = row.set

LEMMA FollowsTwice ==
  ASSUME NEW r \in ImportRow, NEW s \in ImportRow, NEW t \in ImportRow,
         Follows(r, s), Follows(s, t)
  PROVE  Follows(r, t)
  BY DEF Follows, ImportRow

Reading == Claiming \cup {"archive"}

ReadInv == \A w \in Requests : pc[w] \in Reading =>
              seen[w].status # "NONE" /\ Follows(seen[w], import[target[w]])

ChangesOK == \A s \in Saves : pc[s] \in Changing => change[s] \in ChangesTo(s, RulesOf(Effective))

(* A step replaces the row of at most one import, by one that follows it. *)
LEMMA OneFollows ==
  ASSUME TypeInv, NEW b \in Imports, NEW row, Follows(import[b], row),
         import' = [import EXCEPT ![b] = row]
  PROVE  \A c \in Imports : Follows(import[c], import'[c])
<1> SUFFICES ASSUME NEW c \in Imports PROVE Follows(import[c], import'[c])
  OBVIOUS
<1>1. CASE c = b
  BY <1>1 DEF TypeInv, TablesTyped
<1>2. CASE c # b
  <2>1. import'[c] = import[c] /\ import[c] \in ImportRow
    BY <1>2 DEF TypeInv, TablesTyped
  <2> QED BY <2>1 DEF Follows, ImportRow
<1> QED BY <1>1, <1>2

LEMMA SameFollows ==
  ASSUME TypeInv, import' = import
  PROVE  \A c \in Imports : Follows(import[c], import'[c])
  BY DEF TypeInv, TablesTyped, Follows, ImportRow

LEMMA ImportsFollow ==
  ASSUME TypeInv, Next
  PROVE  \A c \in Imports : Follows(import[c], import'[c])
<1>1. ASSUME NEW u \in Uploads, UploadStep(u)
      PROVE  \A c \in Imports : Follows(import[c], import'[c])
  <2>1. CASE UploadNew(u)
    <3>1. PICK b \in Imports : ~Visible(b) /\ import' = [import EXCEPT ![b].status = "UPLOADED"]
      BY <2>1 DEF UploadNew
    <3> DEFINE row == [import[b] EXCEPT !.status = "UPLOADED"]
    <3>2. import[b] \in ImportRow /\ import' = [import EXCEPT ![b] = row]
      BY <3>1 DEF TypeInv, TablesTyped
    <3>3. Follows(import[b], row)
      BY <3>2 DEF Follows, ImportRow
    <3> HIDE DEF row
    <3> QED BY <3>2, <3>3, OneFollows
  <2>2. CASE UploadDuplicate(u) \/ UploadFind(u)
    BY <2>2, SameFollows DEF UploadDuplicate, UploadFind, Moves, Reads, tables
  <2> QED BY <1>1, <2>1, <2>2 DEF UploadStep
<1>2. ASSUME NEW a \in Archives, ArchiveStep(a)
      PROVE  \A c \in Imports : Follows(import[c], import'[c])
  <2>1. CASE ArchiveWrite(a)
    <3> DEFINE b == target[a]
               row == [import[b] EXCEPT !.status = "ARCHIVED"]
    <3>1. b \in Imports
      BY <2>1 DEF ArchiveWrite, TypeInv, TargetOK, Begun, Requests
    <3>2. import[b] \in ImportRow /\ import' = [import EXCEPT ![b] = row]
      BY <2>1, <3>1 DEF ArchiveWrite, TypeInv, TablesTyped
    <3>3. Follows(import[b], row)
      BY <3>2 DEF Follows, ImportRow
    <3> HIDE DEF row
    <3> QED BY <3>1, <3>2, <3>3, OneFollows
  <2>2. CASE ArchiveRead(a) \/ ArchiveRefused(a)
    BY <2>2, SameFollows DEF ArchiveRead, ArchiveRefused, Moves, Reads, tables
  <2> QED BY <1>2, <2>1, <2>2 DEF ArchiveStep
<1>3. ASSUME NEW s \in Saves, SaveStep(s) \/ SaveRefused(s)
      PROVE  \A c \in Imports : Follows(import[c], import'[c])
  BY <1>3, SameFollows
  DEF SaveStep, SaveBegin, SaveReplace, SaveCommit, SaveRefused, Moves, tables
<1>4. ASSUME NEW v \in Validations, ClaimStep(v)
      PROVE  \A c \in Imports : Follows(import[c], import'[c])
  <2>1. CASE Claim(v)
    <3> DEFINE b == target[v]
               row == ClaimedRow(v)
    <3>1. b \in Imports
      BY <2>1 DEF Claim, TypeInv, TargetOK, Begun, Requests
    <3>2. import[b] \in ImportRow /\ import' = [import EXCEPT ![b] = row]
      BY <2>1, <3>1, ClaimRows DEF TypeInv, TablesTyped
    <3>3. row.status = "VALIDATING" /\ row.fence = import[b].fence + 1
      BY <3>1, ClaimedRowType
    <3> HIDE DEF row
    <3>4. Follows(import[b], row)
      BY <3>2, <3>3 DEF Follows, ImportRow
    <3> QED BY <3>1, <3>2, <3>4, OneFollows
  <2>2. CASE ~Claim(v)
    <3>1. import' = import
      BY <1>4, <2>2
      DEF ClaimStep, ClaimRead, Capture, Captures, CaptureWaits, CaptureResumes, ClaimReuse,
          ClaimRefused, Moves, Reads, tables
    <3> QED BY <3>1, SameFollows
  <2> QED BY <2>1, <2>2
<1>5. ASSUME NEW v \in Validations, RunStep(v) \/ RunError(v) \/ Crash(v)
      PROVE  \A c \in Imports : Follows(import[c], import'[c])
  <2>1. CASE RunFinalize(v)
    <3> DEFINE b == target[v]
    <3>1. b \in Imports
      BY <2>1 DEF RunFinalize, TypeInv, TargetOK, Begun, Requests
    <3>2. PICK found : import' = [import EXCEPT ![b] =
                         [import[b] EXCEPT !.status = ResultOf(found),
                                           !.token = NoOne, !.expired = FALSE]]
      BY <2>1, VerdictRows
    <3> DEFINE r == ResultOf(found)
               row == [import[b] EXCEPT !.status = r, !.token = NoOne, !.expired = FALSE]
    <3>3. import[b] \in ImportRow /\ import' = [import EXCEPT ![b] = row] /\ r # "NONE"
      BY <3>1, <3>2 DEF TypeInv, TablesTyped, ResultOf
    <3> HIDE DEF r
    <3>4. Follows(import[b], row)
      BY <3>3 DEF Follows, ImportRow
    <3> HIDE DEF row
    <3> QED BY <3>1, <3>3, <3>4, OneFollows
  <2>2. CASE FailRecord(v)
    <3> DEFINE b == target[v]
               row == [import[b] EXCEPT !.status = "FAILED", !.token = NoOne,
                                        !.expired = FALSE]
    <3>1. b \in Imports
      BY <2>2 DEF FailRecord, TypeInv, TargetOK, Begun, Requests
    <3>2. import[b] \in ImportRow /\ import' = [import EXCEPT ![b] = row]
      BY <2>2, <3>1, FailureRows DEF TypeInv, TablesTyped
    <3>3. Follows(import[b], row)
      BY <3>2 DEF Follows, ImportRow
    <3> HIDE DEF row
    <3> QED BY <3>1, <3>2, <3>3, OneFollows
  <2>3. CASE ~RunFinalize(v) /\ ~FailRecord(v)
    <3>1. import' = import
      BY <1>5, <2>3
      DEF RunStep, RunBegin, RunWrite, RunStale, FailUnrecorded, RunError, Crash, Moves, tables
    <3> QED BY <3>1, SameFollows
  <2> QED BY <2>1, <2>2, <2>3
<1>6. ASSUME NEW g \in Generations, GenerateStep(g) \/ GenerateRefused(g)
      PROVE  \A c \in Imports : Follows(import[c], import'[c])
  <2>1. import' = import
    BY <1>6
    DEF GenerateStep, GenerateBegin, GenerateBusy, GenerateCommit, GenerateReuse,
        GenerateRefused, Moves, Reads, tables
  <2> QED BY <2>1, SameFollows
<1>7. ASSUME NEW w \in Requests, NotFound(w) \/ Abort(w)
      PROVE  \A c \in Imports : Follows(import[c], import'[c])
  BY <1>7, SameFollows DEF NotFound, Abort, Moves, tables
<1>8. ASSUME NEW b \in Imports, Expire(b)
      PROVE  \A c \in Imports : Follows(import[c], import'[c])
  <2> DEFINE row == [import[b] EXCEPT !.expired = TRUE]
  <2>1. import[b] \in ImportRow /\ import' = [import EXCEPT ![b] = row]
    BY <1>8 DEF Expire, TypeInv, TablesTyped
  <2>2. Follows(import[b], row)
    BY <2>1 DEF Follows, ImportRow
  <2> HIDE DEF row
  <2> QED BY <2>1, <2>2, OneFollows
<1> QED BY <1>1, <1>2, <1>3, <1>4, <1>5, <1>6, <1>7, <1>8, StepCases, Zenon

(* Whoever works from a row after a step did so before it, or has just read  *)
(* one that is there.                                                        *)
StillReads(w) == pc[w] \in Reading /\ seen'[w] = seen[w] /\ target'[w] = target[w]
ReadsNow(w) == \E b \in Imports : /\ Visible(b) /\ import' = import
                                  /\ seen'[w] = import[b] /\ target'[w] = b

(* A request in the way of nobody else. *)
LEMMA OtherReader ==
  ASSUME TypeInv, NEW x \in Requests, NEW step, Goto(x, step),
         \A w \in Requests \ {x} : seen'[w] = seen[w] /\ target'[w] = target[w],
         step \in Reading => StillReads(x) \/ ReadsNow(x),
         NEW w \in Requests, pc'[w] \in Reading
  PROVE  StillReads(w) \/ ReadsNow(w)
<1>1. CASE w = x
  BY <1>1 DEF Goto, TypeInv, RequestsTyped
<1>2. CASE w # x
  BY <1>2 DEF Goto, TypeInv, RequestsTyped, StillReads
<1> QED BY <1>1, <1>2

LEMMA MovesReads ==
  ASSUME TypeInv, NEW x \in Requests, NEW step, Goto(x, step), UNCHANGED <<seen, target>>,
         step \in Reading => pc[x] \in Reading,
         NEW w \in Requests, pc'[w] \in Reading
  PROVE  StillReads(w) \/ ReadsNow(w)
  BY OtherReader DEF StillReads

LEMMA ReadsReads ==
  ASSUME TypeInv, NEW x \in Requests, NEW b \in Imports, NEW step, Reads(x, b, step),
         step \in Reading => Visible(b),
         NEW w \in Requests, pc'[w] \in Reading
  PROVE  StillReads(w) \/ ReadsNow(w)
<1>1. /\ Goto(x, step) /\ import' = import
      /\ \A y \in Requests \ {x} : seen'[y] = seen[y] /\ target'[y] = target[y]
      /\ seen'[x] = import[b] /\ target'[x] = b
  BY DEF Reads, tables, TypeInv, RequestsTyped
<1> QED BY <1>1, OtherReader DEF ReadsNow

LEMMA Readers ==
  ASSUME TypeInv, Next, NEW w \in Requests, pc'[w] \in Reading
  PROVE  StillReads(w) \/ ReadsNow(w)
<1>1. ASSUME NEW u \in Uploads, UploadStep(u) PROVE StillReads(w) \/ ReadsNow(w)
  <2>0. u \in Requests /\ "done" \notin Reading /\ "find" \notin Reading /\ "refused" \notin Reading
    BY DEF Requests, Reading, Claiming
  <2>1. CASE UploadNew(u)
    <3>1. /\ Goto(u, "done")
          /\ \A y \in Requests \ {u} : seen'[y] = seen[y] /\ target'[y] = target[y]
      BY <2>1 DEF UploadNew, TypeInv, RequestsTyped
    <3> QED BY <2>0, <3>1, OtherReader
  <2>2. CASE UploadDuplicate(u)
    BY <2>0, <2>2, MovesReads DEF UploadDuplicate, Moves
  <2>3. CASE UploadFind(u)
    BY <2>0, <2>3, MovesReads, ReadsReads DEF UploadFind, Moves
  <2> QED BY <1>1, <2>1, <2>2, <2>3 DEF UploadStep
<1>2. ASSUME NEW a \in Archives, ArchiveStep(a) PROVE StillReads(w) \/ ReadsNow(w)
  <2>0. a \in Requests /\ "done" \notin Reading /\ "refused" \notin Reading
    BY DEF Requests, Reading, Claiming
  <2>1. CASE ArchiveRead(a)
    BY <2>0, <2>1, ReadsReads DEF ArchiveRead
  <2>2. CASE ArchiveWrite(a) \/ ArchiveRefused(a)
    BY <2>0, <2>2, MovesReads DEF ArchiveWrite, ArchiveRefused, Moves
  <2> QED BY <1>2, <2>1, <2>2 DEF ArchiveStep
<1>3. ASSUME NEW s \in Saves, SaveStep(s) \/ SaveRefused(s)
      PROVE  StillReads(w) \/ ReadsNow(w)
  BY <1>3, MovesReads
  DEF SaveStep, SaveBegin, SaveReplace, SaveCommit, SaveRefused, Moves, Requests, Reading,
      Claiming
<1>4. ASSUME NEW v \in Validations, ClaimStep(v) PROVE StillReads(w) \/ ReadsNow(w)
  <2>0. v \in Requests /\ "refused" \notin Reading /\ "run" \notin Reading /\ "done" \notin Reading
        /\ "unconfigured" \notin Reading
    BY DEF Requests, Reading, Claiming
  <2>1. CASE ClaimRead(v)
    BY <2>0, <2>1, ReadsReads DEF ClaimRead
  <2>2. ASSUME pc[v] \in {"capture", "blocked"}, Captures(v)
        PROVE  StillReads(w) \/ ReadsNow(w)
    BY <2>0, <2>2, MovesReads DEF Captures, Reading, Claiming
  <2>3. CASE Capture(v)
    BY <2>2, <2>3 DEF Capture
  <2>4. CASE CaptureWaits(v)
    BY <2>0, <2>4, MovesReads DEF CaptureWaits, Reading, Claiming
  <2>5. CASE CaptureResumes(v)
    BY <2>0, <2>2, <2>5, MovesReads DEF CaptureResumes, Moves
  <2>6. CASE ClaimReuse(v) \/ ClaimRefused(v)
    BY <2>0, <2>6, MovesReads DEF ClaimReuse, ClaimRefused, Moves
  <2>7. CASE Claim(v)
    <3>1. /\ Goto(v, "run")
          /\ \A y \in Requests \ {v} : seen'[y] = seen[y] /\ target'[y] = target[y]
      BY <2>7, ClaimRows DEF Claim, TypeInv, RequestsTyped
    <3> QED BY <2>0, <3>1, OtherReader
  <2> QED BY <1>4, <2>1, <2>3, <2>4, <2>5, <2>6, <2>7 DEF ClaimStep
<1>5. ASSUME NEW v \in Validations, RunStep(v) \/ RunError(v) \/ Crash(v)
      PROVE  StillReads(w) \/ ReadsNow(w)
  <2>1. \E step \in {"write", "refused", "finalize", "fail", "done", "crashed"} :
           Goto(v, step) /\ UNCHANGED <<seen, target>>
    BY <1>5
    DEF RunStep, RunBegin, RunWrite, RunFinalize, RunStale, FailRecord, FailUnrecorded,
        RunError, Crash, Moves
  <2> QED BY <2>1, MovesReads DEF Requests, Reading, Claiming
<1>6. ASSUME NEW g \in Generations, GenerateStep(g) \/ GenerateRefused(g)
      PROVE  StillReads(w) \/ ReadsNow(w)
  <2>1. CASE GenerateBegin(g)
    BY <2>1, ReadsReads DEF GenerateBegin, Requests, Reading, Claiming
  <2>2. CASE ~GenerateBegin(g)
    BY <1>6, <2>2, MovesReads
    DEF GenerateStep, GenerateBusy, GenerateCommit, GenerateReuse, GenerateRefused, Moves,
        Requests, Reading, Claiming
  <2> QED BY <2>1, <2>2
<1>7. ASSUME NEW x \in Requests, NotFound(x) \/ Abort(x) PROVE StillReads(w) \/ ReadsNow(w)
  BY <1>7, MovesReads DEF NotFound, Abort, Moves, Reading, Claiming
<1>8. ASSUME NEW b \in Imports, Expire(b) PROVE StillReads(w) \/ ReadsNow(w)
  BY <1>8 DEF Expire, StillReads
<1> QED BY <1>1, <1>2, <1>3, <1>4, <1>5, <1>6, <1>7, <1>8, StepCases, Zenon

LEMMA StepReads == ASSUME TypeInv, ReadInv, [Next]_vars PROVE ReadInv'
<1>1. CASE Next
  <2> SUFFICES ASSUME NEW w \in Requests, pc'[w] \in Reading
               PROVE  seen'[w].status # "NONE" /\ Follows(seen'[w], import'[target'[w]])
    BY DEF ReadInv
  <2>1. CASE StillReads(w)
    <3>1. /\ seen[w].status # "NONE" /\ Follows(seen[w], import[target[w]])
          /\ seen'[w] = seen[w] /\ target'[w] = target[w]
      BY <2>1 DEF ReadInv, StillReads
    <3>2. target[w] \in Imports
      BY <2>1 DEF StillReads, Reading, Claiming, TypeInv, TargetOK, Begun
    <3>3. Follows(import[target[w]], import'[target[w]])
      BY <1>1, <3>2, ImportsFollow
    <3>4. /\ seen[w] \in ImportRow /\ import[target[w]] \in ImportRow
          /\ import'[target[w]] \in ImportRow
      BY <3>2, StepType DEF TypeInv, RequestsTyped, TablesTyped
    <3> QED BY <3>1, <3>3, <3>4, FollowsTwice
  <2>2. CASE ReadsNow(w)
    <3>1. PICK b \in Imports : /\ Visible(b) /\ import' = import
                               /\ seen'[w] = import[b] /\ target'[w] = b
      BY <2>2 DEF ReadsNow
    <3> QED BY <3>1, SameFollows DEF Visible
  <2> QED BY <1>1, <2>1, <2>2, Readers
<1>2. CASE UNCHANGED vars
  BY <1>2 DEF vars, ReadInv
<1> QED BY <1>1, <1>2

(* A change is made to the version that was effective when it began. *)
LEMMA StepChanges == ASSUME TypeInv, CatalogInv, ChangesOK, [Next]_vars PROVE ChangesOK'
<1>0. ASSUME UNCHANGED <<catalog, change>>,
             \A s \in Saves : pc'[s] \in Changing => pc[s] \in Changing
      PROVE  ChangesOK'
  BY <1>0, Zenon DEF ChangesOK, ChangesTo, RulesOf, Effective
<1>1. ASSUME NEW w \in Requests, NEW step, Goto(w, step), UNCHANGED <<catalog, change>>,
             w \notin Saves \/ step \notin Changing \/ pc[w] \in Changing
      PROVE  ChangesOK'
  BY <1>0, <1>1 DEF Goto, TypeInv, RequestsTyped
<1>2. ASSUME NEW u \in Uploads, UploadStep(u) PROVE ChangesOK'
  BY <1>1, <1>2
  DEF UploadStep, UploadNew, UploadDuplicate, UploadFind, Moves, Reads, tables, Requests,
      Changing
<1>3. ASSUME NEW a \in Archives, ArchiveStep(a) PROVE ChangesOK'
  <2>0. a \in Requests /\ a \notin Saves
    BY KindsAssumption DEF Requests
  <2>1. CASE ArchiveRead(a)
    BY <1>1, <2>0, <2>1 DEF ArchiveRead, Reads, tables
  <2>2. CASE ~ArchiveRead(a)
    BY <1>1, <1>3, <2>0, <2>2
    DEF ArchiveStep, ArchiveWrite, ArchiveRefused, Moves, tables
  <2> QED BY <2>1, <2>2
<1>4. ASSUME NEW s \in Saves, SaveStep(s) \/ SaveRefused(s) PROVE ChangesOK'
  <2>0. s \in Requests BY DEF Requests
  <2>1. CASE SaveBegin(s)
    <3>1. PICK c \in ChangesTo(s, RulesOf(Effective)) : change' = [change EXCEPT ![s] = c]
      BY <2>1 DEF SaveBegin
    <3>2. /\ \A t \in Saves : pc[t] \notin Changing
          /\ pc' = [pc EXCEPT ![s] = "edit"] /\ catalog' = catalog
      BY <2>1 DEF SaveBegin, CatalogBusy, Changing, Goto, tables
    <3>3. \A t \in Saves : pc'[t] \in Changing => t = s
      BY <3>2 DEF TypeInv, RequestsTyped, Requests
    <3>4. change'[s] = c
      BY <2>0, <3>1 DEF TypeInv, RequestsTyped
    <3>5. ChangesTo(s, RulesOf(Effective))' = ChangesTo(s, RulesOf(Effective))
      BY <3>2 DEF ChangesTo, RulesOf, Effective
    <3> QED BY <3>1, <3>3, <3>4, <3>5 DEF ChangesOK
  <2>2. CASE SaveReplace(s)
    BY <1>1, <2>0, <2>2 DEF SaveReplace, Moves, tables, Changing
  <2>3. CASE SaveCommit(s)
    <3>1. \A t \in Saves : pc'[t] \notin Changing
      BY <2>0, <2>3
      DEF SaveCommit, Goto, TypeInv, RequestsTyped, CatalogInv, Changing, Requests
    <3> QED BY <3>1 DEF ChangesOK
  <2>4. CASE SaveRefused(s)
    BY <1>1, <2>0, <2>4 DEF SaveRefused, Moves, tables, Changing
  <2> QED BY <1>4, <2>1, <2>2, <2>3, <2>4 DEF SaveStep
<1>5. ASSUME NEW v \in Validations, ClaimStep(v) PROVE ChangesOK'
  <2>0. v \in Requests /\ v \notin Saves
    BY KindsAssumption DEF Requests
  <2>1. /\ \E step : Goto(v, step)
        /\ UNCHANGED <<catalog, change>>
    BY <1>5
    DEF ClaimStep, ClaimRead, Capture, Captures, CaptureWaits, CaptureResumes, ClaimReuse,
        Claim, ClaimRefused, Moves, Reads, tables
  <2> QED BY <1>1, <2>0, <2>1
<1>6. ASSUME NEW v \in Validations, RunStep(v) \/ RunError(v) \/ Crash(v) PROVE ChangesOK'
  <2>0. v \in Requests /\ v \notin Saves
    BY KindsAssumption DEF Requests
  <2>1. /\ \E step : Goto(v, step)
        /\ UNCHANGED <<catalog, change>>
    BY <1>6
    DEF RunStep, RunBegin, RunWrite, RunFinalize, RunStale, FailRecord, FailUnrecorded,
        RunError, Crash, Moves, tables
  <2> QED BY <1>1, <2>0, <2>1
<1>7. ASSUME NEW g \in Generations, GenerateStep(g) \/ GenerateRefused(g) PROVE ChangesOK'
  <2>0. g \in Requests /\ g \notin Saves
    BY KindsAssumption DEF Requests
  <2>1. /\ \E step : Goto(g, step)
        /\ UNCHANGED <<catalog, change>>
    BY <1>7
    DEF GenerateStep, GenerateBegin, GenerateBusy, GenerateCommit, GenerateReuse,
        GenerateRefused, Moves, Reads, tables
  <2> QED BY <1>1, <2>0, <2>1
<1>8. ASSUME NEW w \in Requests, NotFound(w) \/ Abort(w) PROVE ChangesOK'
  BY <1>1, <1>8 DEF NotFound, Abort, Moves, tables, Changing
<1>9. ASSUME NEW b \in Imports, Expire(b) PROVE ChangesOK'
  BY <1>0, <1>9 DEF Expire
<1>10. CASE Next
  BY <1>10, <1>2, <1>3, <1>4, <1>5, <1>6, <1>7, <1>8, <1>9, StepCases, Zenon
<1>11. CASE UNCHANGED vars
  BY <1>0, <1>11 DEF vars
<1> QED BY <1>10, <1>11

-----------------------------------------------------------------------------
(* How the stored state is seen through SarinPromise. *)

(* What is promised does not change. *)
Unseen == UNCHANGED Promise!promised

LEMMA StatusesChange ==
  ASSUME TypeInv, NEW b \in Imports, NEW row, import' = [import EXCEPT ![b] = row]
  PROVE  [c \in Imports |-> import'[c].status]
            = [[c \in Imports |-> import[c].status] EXCEPT ![b] = row.status]
  BY DEF TypeInv, TablesTyped

LEMMA TablesUnseen ==
  ASSUME UNCHANGED <<import, attempts, findings, outputs, catalog>>
  PROVE  Unseen
  BY DEF Unseen, Promise!promised, RulesOf, Effective

LEMMA CatalogUnseen ==
  ASSUME catalog' = catalog
  PROVE  RulesOf(Effective)' = RulesOf(Effective) /\ Effective' = Effective
  BY DEF RulesOf, Effective

LEMMA UploadImplements ==
  ASSUME TypeInv, NEW u \in Uploads, UploadStep(u)
  PROVE  Promise!Next \/ Unseen
<1>1. CASE UploadNew(u)
  <2>1. PICK b \in Imports : ~Visible(b) /\ import' = [import EXCEPT ![b].status = "UPLOADED"]
    BY <1>1 DEF UploadNew
  <2> DEFINE row == [import[b] EXCEPT !.status = "UPLOADED"]
  <2>2. import[b] \in ImportRow /\ import' = [import EXCEPT ![b] = row]
    BY <2>1 DEF TypeInv, TablesTyped
  <2>3. row.status = "UPLOADED"
    BY <2>2 DEF ImportRow
  <2> HIDE DEF row
  <2>4. [c \in Imports |-> import'[c].status]
           = [[c \in Imports |-> import[c].status] EXCEPT ![b] = "UPLOADED"]
    BY <2>2, <2>3, StatusesChange
  <2>5. \A c \in Imports : import[c].status \in {"NONE", "ARCHIVED"}
    BY <1>1 DEF UploadNew, Active
  <2>6. Promise!Upload(b)
    BY <1>1, <2>1, <2>4, <2>5, CatalogUnseen
    DEF Promise!Upload, Promise!Gone, UploadNew, Visible
  <2> QED BY <2>6 DEF Promise!Next
<1>2. CASE ~UploadNew(u)
  BY <1>2, TablesUnseen DEF UploadStep, UploadDuplicate, UploadFind, Moves, Reads, tables
<1> QED BY <1>1, <1>2

LEMMA ArchiveImplements ==
  ASSUME TypeInv, ReadInv, NEW a \in Archives, ArchiveStep(a)
  PROVE  Promise!Next \/ Unseen
<1>1. CASE ArchiveWrite(a)
  <2>0. a \in Requests /\ pc[a] \in Reading
    BY <1>1 DEF ArchiveWrite, Requests, Reading
  <2>1. PICK b \in Imports : b = target[a]
    BY <2>0, <1>1 DEF ArchiveWrite, TypeInv, TargetOK, Begun
  <2> DEFINE row == [import[b] EXCEPT !.status = "ARCHIVED"]
  <2>2. import[b] \in ImportRow /\ import' = [import EXCEPT ![b] = row]
    BY <1>1, <2>1 DEF ArchiveWrite, TypeInv, TablesTyped
  <2>3. row.status = "ARCHIVED"
    BY <2>2 DEF ImportRow
  <2> HIDE DEF row
  <2>4. [c \in Imports |-> import'[c].status]
           = [[c \in Imports |-> import[c].status] EXCEPT ![b] = "ARCHIVED"]
    BY <2>1, <2>2, <2>3, StatusesChange
  <2>5. import[b].status \notin {"NONE", "ARCHIVED", "VALIDATING"}
    BY <1>1, <2>0, <2>1 DEF ArchiveWrite, ArchiveAllowed, ReadInv, Follows
  <2>6. Promise!Archive(b)
    BY <1>1, <2>1, <2>4, <2>5, CatalogUnseen
    DEF Promise!Archive, Promise!Gone, ArchiveWrite
  <2> QED BY <2>6 DEF Promise!Next
<1>2. CASE ~ArchiveWrite(a)
  BY <1>2, TablesUnseen DEF ArchiveStep, ArchiveRead, ArchiveRefused, Moves, Reads, tables
<1> QED BY <1>1, <1>2

LEMMA SaveImplements ==
  ASSUME TypeInv, CatalogInv, ChangesOK, NEW s \in Saves, SaveStep(s) \/ SaveRefused(s)
  PROVE  Promise!Next \/ Unseen
<1>1. CASE SaveCommit(s)
  <2> DEFINE rules == RulesOf(Effective)
             next == (rules \ change[s].drops) \cup change[s].adds
  <2>1. captured[s] = Effective /\ change[s] \in ChangesTo(s, rules)
    BY <1>1 DEF SaveCommit, CatalogInv, ChangesOK, Changing
  <2>2. catalog' = Append(catalog, next)
    BY <1>1, <2>1 DEF SaveCommit
  <2>3. rules \in SUBSET Saves /\ rules = wanted
    BY DEF CatalogInv, TypeInv, CatalogTyped
  <2>4. next \in SUBSET Saves
    BY <2>1, <2>3 DEF ChangesTo
  <2> HIDE DEF next
  <2>5. /\ Len(catalog') = Len(catalog) + 1 /\ Len(catalog) \in Nat
        /\ catalog'[Len(catalog) + 1] = next
    BY <2>2, <2>4, AppendProperties, LenProperties DEF TypeInv, CatalogTyped
  <2>6. RulesOf(Effective)' = next /\ Effective' = Effective + 1
    BY <2>5 DEF RulesOf, Effective
  <2>7. /\ change[s].adds \in {{}, {s}} /\ change[s].drops \in {{}} \cup {{r} : r \in rules}
        /\ change[s].adds # {} \/ change[s].drops # {}
    BY <2>1, Zenon DEF ChangesTo
  <2>8. UNCHANGED <<import, attempts, findings, outputs>>
    BY <1>1 DEF SaveCommit
  <2>9. Promise!Amend(s)
    BY <2>6, <2>7, <2>8 DEF Promise!Amend, next
  <2> QED BY <2>9 DEF Promise!Next
<1>2. CASE ~SaveCommit(s)
  BY <1>2, TablesUnseen DEF SaveStep, SaveBegin, SaveReplace, SaveRefused, Moves, tables
<1> QED BY <1>1, <1>2

(* The attempts a claim closes are those SarinPromise closes. *)
LEMMA SameClosed == \A list : Promise!Closed(list) = Abandoned(list)
  BY DEF Promise!Closed, Abandoned

LEMMA ClaimImplements ==
  ASSUME TypeInv, CatalogInv, RecordsInv, ReadInv, NEW v \in Validations, ClaimStep(v)
  PROVE  Promise!Next \/ Unseen
<1>1. CASE Claim(v)
  <2>0. v \in Requests /\ pc[v] \in Claiming /\ pc[v] \in Reading
    BY <1>1 DEF Claim, Requests, Claiming, Reading
  <2>1. PICK b \in Imports : b = target[v]
    BY <1>1, <2>0 DEF Claim, TypeInv, TargetOK, Begun
  <2> DEFINE row == ClaimedRow(v)
             list == attempts[b]
             new == [status |-> "RUNNING", result |-> "NONE", set |-> captured[v]]
  <2>2. /\ import' = [import EXCEPT ![b] = row] /\ row.status = "VALIDATING"
        /\ attempts' = [attempts EXCEPT ![b] = Append(Abandoned(list), new)]
    BY <1>1, <2>1, ClaimRows, ClaimedRowType
  <2> HIDE DEF row
  <2>3. [c \in Imports |-> import'[c].status]
           = [[c \in Imports |-> import[c].status] EXCEPT ![b] = "VALIDATING"]
    BY <2>1, <2>2, StatusesChange
  <2>4. captured[v] = Effective /\ Effective # 0 /\ Effective \in Nat
    BY <1>1, LenProperties DEF Claim, CatalogInv, TypeInv, CatalogTyped, Effective
  <2>5. /\ seen[v].status # "NONE" /\ seen[v].status # "ARCHIVED"
        /\ import[b].status = seen[v].status
        /\ seen[v].attempt = import[b].attempt /\ seen[v].set = import[b].set
    <3>1. WorkerOK(v, pc[v], seen[v], import[b])
      BY <2>0, <2>1 DEF RecordsInv, WorkersOK
    <3>2. seen[v].status # "NONE" /\ Follows(seen[v], import[b])
      BY <2>0, <2>1 DEF ReadInv
    <3> QED BY <1>1, <2>0, <2>1, <3>1, <3>2 DEF Claim, Claimable, WorkerOK, Follows
  <2>6. import[b].status \in Results => list[Len(list)].set # Effective
    <3> SUFFICES ASSUME import[b].status \in Results, list[Len(list)].set = Effective
                 PROVE  FALSE
      OBVIOUS
    <3>1. Agrees(import[b], list)
      BY <2>1 DEF RecordsInv, ImportsOK, RowsOK
    <3>2. /\ import[b].attempt = Len(list)
          /\ list[Len(list)] = [status |-> "COMPLETED", result |-> import[b].status,
                                set |-> import[b].set]
      BY <3>1, Zenon DEF Agrees
    <3>3. list[Len(list)].status = "COMPLETED" /\ list[Len(list)].set = import[b].set
      BY <3>2
    <3>4. CheckedAlready(v)
      BY <2>1, <2>4, <2>5, <3>2, <3>3 DEF CheckedAlready
    <3> QED BY <1>1, <3>4 DEF Claim
  <2>7. UNCHANGED <<findings, outputs, catalog>>
    BY <1>1 DEF Claim
  <2>8. Promise!Start(b)
    <3>1. [c \in Imports |-> import[c].status][b] = import[b].status
      BY <2>1
    <3>2. /\ import[b].status \notin {"NONE", "ARCHIVED"} /\ Effective > 0
      BY <2>4, <2>5
    <3>3. attempts' = [attempts EXCEPT ![b] = Append(Promise!Closed(attempts[b]),
                         [status |-> "RUNNING", result |-> "NONE", set |-> Effective])]
      BY <2>2, <2>4, SameClosed
    <3> QED
      BY <2>3, <2>6, <2>7, <3>1, <3>2, <3>3, CatalogUnseen
      DEF Promise!Start, Promise!Gone, Promise!Verdicts, Promise!Latest, Results
  <2> QED BY <2>8 DEF Promise!Next
<1>2. CASE ~Claim(v)
  BY <1>2, TablesUnseen
  DEF ClaimStep, ClaimRead, Capture, Captures, CaptureWaits, CaptureResumes, ClaimReuse,
      ClaimRefused, Moves, Reads, tables
<1> QED BY <1>1, <1>2


LEMMA FinalizeImplements ==
  ASSUME TypeInv, RecordsInv, NEW v \in Validations, RunFinalize(v)
  PROVE  Promise!Next
<1>0. pc[v] \in Checking /\ Holds(v)
  BY DEF RunFinalize, Checking
<1>1. PICK b \in Imports : b = target[v]
  BY <1>0, HoldsLast
<1> DEFINE list == attempts[b]
           n == Len(list)
<1>2. /\ import[b] \in ImportRow /\ list \in Seq(AttemptRow)
      /\ RowsOK(import[b], list, findings[b], outputs[b])
      /\ import[b].status = "VALIDATING" /\ seen[v].attempt = n
  BY <1>0, <1>1, HoldsLast
<1>3. /\ n \in 1..Len(list) /\ n \in Nat /\ DOMAIN list = 1..n
      /\ list[n].status = "RUNNING"
  <2>1. Len(list) > 0 /\ \A m \in DOMAIN list : m = n => list[m].status = "RUNNING"
    BY <1>2 DEF RowsOK, Agrees
  <2> QED BY <1>2, <2>1, LenProperties
<1>4. PICK found \in SUBSET [attempt: {n}, blocking: BOOLEAN] :
         /\ import' = [import EXCEPT ![b] =
                         [import[b] EXCEPT !.status = ResultOf(found),
                                           !.token = NoOne, !.expired = FALSE]]
         /\ attempts' = [attempts EXCEPT ![b] =
                           Finish(@, n, "COMPLETED", ResultOf(found))]
         /\ findings' = [findings EXCEPT ![b] = OpenAfter(v, found)]
  BY <1>1, <1>2, VerdictRows
<1> DEFINE r == ResultOf(found)
           row == [import[b] EXCEPT !.status = r, !.token = NoOne, !.expired = FALSE]
<1> HIDE DEF r
<1>5. import' = [import EXCEPT ![b] = row] /\ row.status = r
  BY <1>2, <1>4 DEF ImportRow, r
<1> HIDE DEF row
<1>6. [c \in Imports |-> import'[c].status]
         = [[c \in Imports |-> import[c].status] EXCEPT ![b] = r]
  BY <1>5, StatusesChange
<1>7. OpenAfter(v, found) = found
  <2>1. \A f \in findings[b] : f.attempt \in DOMAIN list /\ list[f.attempt].status = "COMPLETED"
    BY <1>2 DEF RowsOK, FindingsAgree, LastChecked
  <2>2. \A f \in findings[b] : ~(f.attempt >= n)
    BY <1>3, <2>1
  <2> QED BY <1>1, <1>2, <2>2 DEF OpenAfter
<1>8. findings' = [findings EXCEPT ![b] = found]
  BY <1>4, <1>7
<1>9. attempts' = [attempts EXCEPT ![b][n].status = "COMPLETED", ![b][n].result = r]
  <2>1. attempts' = [attempts EXCEPT ![b] =
                        [list EXCEPT ![n].status = "COMPLETED", ![n].result = r]]
    BY <1>2, <1>3, <1>4, FinishedList DEF r
  <2> QED BY <2>1 DEF TypeInv, TablesTyped
<1>10. UNCHANGED <<outputs, catalog>>
  BY DEF RunFinalize
<1>11. r = IF \E f \in found : f.blocking THEN "NEEDS_REVIEW" ELSE "VALIDATED"
  BY Zenon DEF r, ResultOf
<1>12. [c \in Imports |-> import[c].status][b] = "VALIDATING"
  BY <1>2
<1>13. Promise!Finish(b)
  BY <1>6, <1>8, <1>9, <1>10, <1>11, <1>12, CatalogUnseen
  DEF Promise!Finish, Promise!Latest
<1> QED BY <1>13 DEF Promise!Next

LEMMA FailImplements ==
  ASSUME TypeInv, RecordsInv, NEW v \in Validations, FailRecord(v)
  PROVE  Promise!Next
<1>0. pc[v] \in Checking /\ Holds(v)
  BY DEF FailRecord, Checking
<1>1. PICK b \in Imports : b = target[v]
  BY <1>0, HoldsLast
<1> DEFINE list == attempts[b]
           n == Len(list)
           row == [import[b] EXCEPT !.status = "FAILED", !.token = NoOne,
                                    !.expired = FALSE]
<1>2. /\ import[b] \in ImportRow /\ list \in Seq(AttemptRow)
      /\ RowsOK(import[b], list, findings[b], outputs[b])
      /\ import[b].status = "VALIDATING" /\ seen[v].attempt = n
  BY <1>0, <1>1, HoldsLast
<1>3. n \in 1..n /\ DOMAIN list = 1..n /\ list[n].status = "RUNNING"
  <2>1. Len(list) > 0 /\ \A m \in DOMAIN list : m = n => list[m].status = "RUNNING"
    BY <1>2 DEF RowsOK, Agrees
  <2> QED BY <1>2, <2>1, LenProperties
<1>4. /\ import' = [import EXCEPT ![b] = row]
      /\ attempts' = [attempts EXCEPT ![b] = FailedList(list, n)]
  <2>1. attempts' = [attempts EXCEPT ![target[v]] =
                        FailedList(attempts[target[v]], seen[v].attempt)]
    BY FailureRows DEF FailedList
  <2>2. import' = [import EXCEPT ![b] = row]
    BY <1>1, FailureRows
  <2> QED BY <1>1, <1>2, <2>1, <2>2
<1>5. row.status = "FAILED"
  BY <1>2 DEF ImportRow
<1> HIDE DEF row
<1>6. [c \in Imports |-> import'[c].status]
         = [[c \in Imports |-> import[c].status] EXCEPT ![b] = "FAILED"]
  BY <1>4, <1>5, StatusesChange
<1>7. FailedList(list, n) = [list EXCEPT ![n].status = "FAILED"]
  BY <1>3 DEF FailedList
<1>8. attempts' = [attempts EXCEPT ![b][n].status = "FAILED"]
  BY <1>4, <1>7 DEF TypeInv, TablesTyped
<1>9. UNCHANGED <<findings, outputs, catalog>>
  BY DEF FailRecord
<1>10. [c \in Imports |-> import[c].status][b] = "VALIDATING"
  BY <1>2
<1>11. Promise!Fail(b)
  BY <1>6, <1>8, <1>9, <1>10, CatalogUnseen DEF Promise!Fail, Promise!Latest
<1> QED BY <1>11 DEF Promise!Next

LEMMA RunImplements ==
  ASSUME TypeInv, RecordsInv, NEW v \in Validations, RunStep(v) \/ RunError(v) \/ Crash(v)
  PROVE  Promise!Next \/ Unseen
<1>1. CASE ~RunFinalize(v) /\ ~FailRecord(v)
  BY <1>1, TablesUnseen
  DEF RunStep, RunBegin, RunWrite, RunStale, FailUnrecorded, RunError, Crash, Moves, tables
<1> QED BY <1>1, FinalizeImplements, FailImplements

LEMMA GenerateImplements ==
  ASSUME TypeInv, RecordsInv, NEW g \in Generations, GenerateStep(g) \/ GenerateRefused(g)
  PROVE  Promise!Next \/ Unseen
<1>1. CASE GenerateCommit(g)
  <2>0. g \in Requests
    BY DEF Requests
  <2>1. PICK b \in Imports : b = target[g]
    BY <1>1, <2>0 DEF GenerateCommit, TypeInv, TargetOK, Begun
  <2> DEFINE n == Len(attempts[b])
  <2>2. import[b].status = "VALIDATED" /\ seen[g].attempt = n
    <3>1. WorkerOK(g, pc[g], seen[g], import[b])
      BY <2>0, <2>1 DEF RecordsInv, WorkersOK
    <3>2. Agrees(import[b], attempts[b])
      BY DEF RecordsInv, ImportsOK, RowsOK
    <3> QED BY <1>1, <3>1, <3>2 DEF GenerateCommit, WorkerOK, Agrees
  <2>3. \A i \in DOMAIN outputs[b] : outputs[b][i].attempt # n
    BY <1>1, <2>1, <2>2 DEF GenerateCommit, ExistingOutput
  <2>4. outputs' = [outputs EXCEPT ![b] = Append(Superseded(@),
                      [attempt |-> n, set |-> attempts[b][n].set, status |-> "GENERATED"])]
    BY <1>1, <2>1, <2>2 DEF GenerateCommit
  <2>5. UNCHANGED <<import, attempts, findings, catalog>>
    BY <1>1 DEF GenerateCommit
  <2>6. [c \in Imports |-> import[c].status][b] = "VALIDATED"
    BY <2>2
  <2>7. Promise!Publish(b)
    BY <2>3, <2>4, <2>5, <2>6, CatalogUnseen
    DEF Promise!Publish, Promise!Latest, Superseded
  <2> QED BY <2>7 DEF Promise!Next
<1>2. CASE ~GenerateCommit(g)
  BY <1>2, TablesUnseen
  DEF GenerateStep, GenerateBegin, GenerateBusy, GenerateReuse, GenerateRefused, Moves,
      Reads, tables
<1> QED BY <1>1, <1>2

LEMMA OtherImplements ==
  ASSUME TypeInv,
         \/ \E w \in Requests : NotFound(w) \/ Abort(w)
         \/ \E b \in Imports : Expire(b)
  PROVE  Unseen
<1>1. ASSUME NEW w \in Requests, NotFound(w) \/ Abort(w) PROVE Unseen
  BY <1>1, TablesUnseen DEF NotFound, Abort, Moves, tables
<1>2. ASSUME NEW b \in Imports, Expire(b) PROVE Unseen
  <2>1. \A c \in Imports : import'[c].status = import[c].status
    BY <1>2 DEF Expire, TypeInv, TablesTyped, ImportRow
  <2>2. [c \in Imports |-> import'[c].status] = [c \in Imports |-> import[c].status]
    BY <2>1
  <2>3. UNCHANGED <<attempts, findings, outputs, catalog>>
    BY <1>2 DEF Expire
  <2> QED BY <2>2, <2>3, CatalogUnseen DEF Unseen, Promise!promised
<1> QED BY <1>1, <1>2

LEMMA StepImplements ==
  ASSUME TypeInv, CatalogInv, RecordsInv, ReadInv, ChangesOK, [Next]_vars
  PROVE  [Promise!Next]_(Promise!promised)
<1>1. CASE Next
  <2>1. Promise!Next \/ Unseen
    BY <1>1, StepCases, UploadImplements, ArchiveImplements, SaveImplements, ClaimImplements,
       RunImplements, GenerateImplements, OtherImplements, Zenon
  <2> QED BY <2>1 DEF Unseen
<1>2. CASE UNCHANGED vars
  <2>1. Unseen BY <1>2, TablesUnseen DEF vars
  <2> QED BY <2>1 DEF Unseen
<1> QED BY <1>1, <1>2

LEMMA InitImplements == Init => Promise!Init /\ ReadInv /\ ChangesOK
<1> SUFFICES ASSUME Init PROVE Promise!Init /\ ReadInv /\ ChangesOK OBVIOUS
<1>1. [b \in Imports |-> import[b].status] = [b \in Imports |-> "NONE"]
  BY DEF Init, NoRow
<1>2. Effective \in {0, 1} /\ RulesOf(Effective) = {}
  <2>1. Len(<<>>) = 0 /\ Len(<<{}>>) = 1 /\ <<{}>>[1] = {}
    OBVIOUS
  <2> QED BY <2>1 DEF Init, Effective, RulesOf
<1>3. Promise!Init
  BY <1>1, <1>2 DEF Promise!Init, Init
<1>4. ReadInv /\ ChangesOK
  BY DEF Init, ReadInv, ChangesOK, Reading, Claiming, Changing, Requests
<1> QED BY <1>3, <1>4

(* What is stored changes as SarinPromise says, for any sets of imports and  *)
(* requests: whole uploads, checks, verdicts, outputs, archives and changes  *)
(* of the catalog, one at a time.                                            *)
THEOREM ImplementsPromiseCorrect == Spec => ImplementsPromise
<1>1. TypeInv /\ CatalogInv /\ RecordsInv /\ ReadInv /\ ChangesOK /\ [Next]_vars =>
         ReadInv' /\ ChangesOK' /\ [Promise!Next]_(Promise!promised)
  BY StepReads, StepChanges, StepImplements
<1> QED BY <1>1, InitImplements, CatalogInvCorrect, RecordsInvCorrect, PTL
        DEF Spec, ImplementsPromise, Promise!Spec
=============================================================================
