------------------------- MODULE FantasyRowContract -------------------------
(***************************************************************************)
(* What a delivered batch of raw rows is worth: the column contract        *)
(* (row-contract.ts), the encoding of cells (raw-encoding.ts) and the      *)
(* outcome of each row and of the batch (prepareBatch of raw-ingestion.ts).*)
(*                                                                         *)
(* A header cell is a record: the contract header it comes from, or NoName *)
(* for a foreign one, and how it is spelled.  A value stands for its type: *)
(* "text" (not blank), "blank" text, "other" (number, boolean), "null",    *)
(* "undefined" and "unsupported" (arrays, dates, NaN).                     *)
(***************************************************************************)
EXTENDS Naturals, Sequences, FiniteSets, SequencesExt

CONSTANTS Contract,  \* FANTASY_V1_HEADERS, in order
          LotID,     \* the identity header
          NoName     \* a foreign header, or no key

ASSUME ContractAssumption ==
    /\ Contract \in Seq(ToSet(Contract))
    /\ \A i, j \in 1..Len(Contract) : Contract[i] = Contract[j] => i = j
    /\ LotID \in ToSet(Contract)
    /\ NoName \notin ToSet(Contract)

Names == ToSet(Contract)
Spellings == {"exact", "space", "case", "punctuation", "empty"}
Values == {"text", "blank", "other", "null", "undefined", "unsupported"}

Exact(cell) == cell.spelling = "exact" /\ cell.name # NoName

FatalCodes == {"UNSUPPORTED_CONTRACT_VERSION", "MISSING_IDENTITY_HEADER", "DUPLICATE_HEADER",
               "EMPTY_HEADER", "UNSUPPORTED_VALUE_TYPE", "MISSING_IDENTITY_VALUE"}
DriftCodes == {"MISSING_HEADER", "UNKNOWN_HEADER", "HEADER_ORDER_CHANGED",
               "HEADER_CASE_MISMATCH", "HEADER_WHITESPACE_MISMATCH",
               "HEADER_PUNCTUATION_MISMATCH", "ROW_TOO_SHORT", "ROW_TOO_LONG"}
-----------------------------------------------------------------------------
(* validateFantasyHeaders.                                                   *)

(* An exact header seen for the first time carries its key. *)
ColumnKeys(headers) ==
    [c \in 1..Len(headers) |->
        IF Exact(headers[c]) /\ \A d \in 1..(c - 1) : headers[d] # headers[c]
        THEN headers[c].name ELSE NoName]

ColumnIssue(headers, c) ==
    LET spelling == headers[c].spelling
    IN IF spelling = "empty" THEN {"EMPTY_HEADER"}
       ELSE IF Exact(headers[c])
            THEN IF ColumnKeys(headers)[c] = NoName THEN {"DUPLICATE_HEADER"} ELSE {}
       ELSE IF headers[c].name = NoName THEN {"UNKNOWN_HEADER"}
       ELSE {CASE spelling = "space" -> "HEADER_WHITESPACE_MISMATCH"
               [] spelling = "case" -> "HEADER_CASE_MISMATCH"
               [] OTHER -> "HEADER_PUNCTUATION_MISMATCH"}

MissingHeaders(headers) == Names \ ToSet(ColumnKeys(headers))

OrderIssue(headers) ==
    IF MissingHeaders(headers) = {} /\ \E i \in 1..Len(Contract) : ColumnKeys(headers)[i] # Contract[i]
    THEN {"HEADER_ORDER_CHANGED"} ELSE {}

HeaderIssues(supported, headers) ==
    IF ~supported THEN {"UNSUPPORTED_CONTRACT_VERSION"}
    ELSE (UNION {ColumnIssue(headers, c) : c \in 1..Len(headers)})
         \cup {IF h = LotID THEN "MISSING_IDENTITY_HEADER" ELSE "MISSING_HEADER" :
                  h \in MissingHeaders(headers)}
         \cup OrderIssue(headers)

HeaderOk(supported, headers) == HeaderIssues(supported, headers) \cap FatalCodes = {}
-----------------------------------------------------------------------------
(* normalizeFantasyRow: a row is a sequence of values, or, [keyed |-> f],    *)
(* values under exact names and under foreign ones (NoName).                 *)

Cells(row) == IF row.form = "KEYED" THEN {row.fields[n] : n \in DOMAIN row.fields}
                                    ELSE ToSet(row.cells)

(* The value a key is assigned; "undefined" when there is none. *)
Assigned(row, headers, key) ==
    IF row.form = "KEYED"
    THEN IF key \in DOMAIN row.fields THEN row.fields[key] ELSE "undefined"
    ELSE LET at == {c \in 1..Len(headers) : c <= Len(row.cells) /\ ColumnKeys(headers)[c] = key}
         IN IF at = {} THEN "undefined" ELSE row.cells[CHOOSE c \in at : TRUE]

LengthIssue(row, headers) ==
    IF row.form = "KEYED" \/ Len(row.cells) = Len(headers) THEN {}
    ELSE IF Len(row.cells) < Len(headers) THEN {"ROW_TOO_SHORT"} ELSE {"ROW_TOO_LONG"}

RowIssues(row, headers) ==
    LengthIssue(row, headers)
    \cup (IF \E k \in Names : Assigned(row, headers, k) = "unsupported"
          THEN {"UNSUPPORTED_VALUE_TYPE"} ELSE {})
    \cup (IF Assigned(row, headers, LotID) # "text" THEN {"MISSING_IDENTITY_VALUE"} ELSE {})
-----------------------------------------------------------------------------
(* prepareBatch: a batch is [supported, headers, rows].                      *)

(* Mutant of QuarantineCodes: the drift of the headers is forgotten. *)
QuarantineCodesOfRow(batch, row) == RowIssues(row, batch.headers) \cap DriftCodes

QuarantineCodes(batch, row) ==
    (RowIssues(row, batch.headers) \cup HeaderIssues(batch.supported, batch.headers))
        \cap DriftCodes

RowOutcome(batch, row) ==
    IF \/ ~HeaderOk(batch.supported, batch.headers)
       \/ RowIssues(row, batch.headers) \cap FatalCodes # {}
       \/ "unsupported" \in Cells(row)
    THEN "REJECTED_STRUCTURE"
    ELSE IF QuarantineCodes(batch, row) # {} THEN "QUARANTINED"
    ELSE "ACCEPTED_RAW"

Outcomes(batch) == {RowOutcome(batch, batch.rows[i]) : i \in 1..Len(batch.rows)}

BatchStatus(batch) ==
    IF ~HeaderOk(batch.supported, batch.headers) THEN "REJECTED"
    ELSE IF \/ Outcomes(batch) \cap {"QUARANTINED", "REJECTED_STRUCTURE"} # {}
            \/ HeaderIssues(batch.supported, batch.headers) \cap DriftCodes # {}
    THEN "ACCEPTED_WITH_ISSUES"
    ELSE "ACCEPTED"
-----------------------------------------------------------------------------
(* The headers are the contract itself, in order. *)
Verbatim(headers) == headers = [c \in 1..Len(Contract) |-> [name |-> Contract[c], spelling |-> "exact"]]
=============================================================================
