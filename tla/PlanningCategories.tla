------------------------- MODULE PlanningCategories -------------------------
(***************************************************************************)
(* The planning category of a stone: as synchronization classifies a       *)
(* record (canonical.ts, category-classification.ts), and as a demand      *)
(* calculation looks it up again for work in progress (planning-           *)
(* category.ts, wip-classification.ts).                                    *)
(*                                                                         *)
(* Raw and normalized names are model values; the mappings are the active  *)
(* rows of the reference tables, keyed by trimmed upper-case raw names.    *)
(***************************************************************************)
EXTENDS Integers, Sequences

CONSTANTS NoText,
          Unknown,        \* the name "UNKNOWN"
          NonCert,        \* the normalized lab "Non-Cert"
          GIA,            \* the normalized lab "GIA"
          NonCertNames,   \* raw labs that mean no certificate
          GIANames,       \* raw labs that mean GIA whatever the mappings
          LabMapping,     \* raw lab -> normalized lab
          ShapeMapping,   \* raw shape -> normalized shape
          UpperCase,      \* normalized shape -> its upper-case spelling
          Placeholders,   \* normalizations that stand for no value
          Bands,          \* weight bands by sortOrder, [min, max] in tenths
          EligibleStages  \* of the confirmed rule BR-WIP-001; {}: not configured

ASSUME NamesAssumption ==
    /\ NoText \notin {NonCert, GIA, Unknown}
    /\ \A raw \in DOMAIN ShapeMapping : ShapeMapping[raw] \in DOMAIN UpperCase
ASSUME BandsAssumption == \A b \in 1..Len(Bands) : Bands[b].min > 0 /\ Bands[b].min <= Bands[b].max

NoBand == 0
NoKey == [lab |-> NoText, shape |-> NoText, band |-> NoBand]

(* resolveLabNormalization; a lab that is not recognized requires review. *)
LabOf(raw) ==
    IF raw = NoText \/ raw \in NonCertNames THEN [name |-> NonCert, recognized |-> TRUE]
    ELSE IF raw \in DOMAIN LabMapping THEN [name |-> LabMapping[raw], recognized |-> TRUE]
    ELSE IF raw \in GIANames THEN [name |-> GIA, recognized |-> TRUE]
    ELSE [name |-> raw, recognized |-> FALSE]

(* resolveWeightBand, resolveApprovedWeightBand: the first that holds it. *)
BandOf(tenths) ==
    LET holding == {b \in 1..Len(Bands) : Bands[b].min <= tenths /\ tenths <= Bands[b].max}
    IN IF holding = {} THEN NoBand ELSE CHOOSE b \in holding : \A c \in holding : b <= c
-----------------------------------------------------------------------------
(* classifyCanonicalCategory: what synchronization stores with a record.     *)
(* A stone is [lab, shape, tenths].                                          *)

LabApproved(stone) == LabOf(stone.lab).recognized /\ LabOf(stone.lab).name \notin Placeholders

ShapeApproved(stone) ==
    stone.shape \in DOMAIN ShapeMapping /\ ShapeMapping[stone.shape] \notin Placeholders

CategoryApproved(stone) ==
    LabApproved(stone) /\ ShapeApproved(stone) /\ BandOf(stone.tenths) # NoBand

(* labNormalized ?? labRes.normalized, as runSynchronization stores it. *)
StoredLab(stone) == LabOf(stone.lab).name
-----------------------------------------------------------------------------
(* resolvePlanningCategory on a synchronized record: the stored lab counts   *)
(* as approved, the shape is looked up in the mapping loadCategoryMappings   *)
(* reads in upper case.                                                      *)

Shape(raw) ==
    IF raw \in DOMAIN ShapeMapping THEN UpperCase[ShapeMapping[raw]] ELSE Unknown

PlanningKey(stone) == [lab |-> StoredLab(stone), shape |-> Shape(stone.shape),
                       band |-> BandOf(stone.tenths)]

Resolved(stone) ==
    PlanningKey(stone).band # NoBand /\ Unknown \notin {PlanningKey(stone).shape, StoredLab(stone)}

(* classifyWipRecord: a record in progress is [stone, stage, polished]. *)
CompletedStages == {"COMPLETED", "FINISHED", "CLOSED"}

WipOutcome(wip) ==
    IF wip.polished THEN "ALREADY_POLISHED"
    ELSE IF wip.stage \in CompletedStages THEN "COMPLETED"
    ELSE IF ~Resolved(wip.stone) THEN "AMBIGUOUS"
    ELSE IF EligibleStages = {} THEN "POLICY_NOT_CONFIGURED"
    ELSE IF wip.stage \notin EligibleStages THEN "INELIGIBLE_STAGE"
    ELSE "ELIGIBLE"
=============================================================================
