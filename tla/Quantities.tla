----------------------------- MODULE Quantities -----------------------------
(***************************************************************************)
(* What a quantity or a weight of a record is worth (quantity-weight.ts),  *)
(* and the same decision as the SQL of the read models makes it            *)
(* (inventory-buckets.ts).                                                 *)
(*                                                                         *)
(* A raw value is "missing" (null, blank), "unreadable" (not a number, not *)
(* finite, out of range, too many decimals) or a number of tenths.         *)
(***************************************************************************)
EXTENDS Integers

None == -1  \* no pieces, no carats

Provenances == {"EXPLICIT_FIXTURE", "LIVE_CONFIRMED", "MISSING", "INVALID", "UNSUPPORTED",
                "LEGACY_DEFAULT_AMBIGUOUS", "SEMANTICS_NOT_CONFIGURED"}
Countable == {"EXPLICIT_FIXTURE", "LIVE_CONFIRMED"}
NotStored == "NOT_STORED"  \* quantityProvenance is null or no known value

RawValue == [kind: {"missing", "unreadable", "number"}, tenths: Int]
Quantity == [raw: RawValue, stored: Provenances \cup {NotStored}, fixture: BOOLEAN]

Whole(raw) == raw.tenths % 10 = 0

(* parseSourceNumeric, negative numbers not allowed. *)
Numeric(raw, zeroAllowed) ==
    IF raw.kind = "missing" THEN "MISSING"
    ELSE IF raw.kind = "unreadable" \/ raw.tenths < 0 \/ (raw.tenths = 0 /\ ~zeroAllowed) THEN "INVALID"
    ELSE "VALID"

(* interpretQuantity as resolveCanonicalQuantity calls it: any whole number  *)
(* of pieces of a simulated record, nothing of a live one.                   *)
QuantityState(raw, fixture) ==
    IF Numeric(raw, TRUE) # "VALID" THEN Numeric(raw, TRUE)
    ELSE IF ~fixture THEN "SEMANTICS_NOT_CONFIGURED"
    ELSE IF ~Whole(raw) THEN "UNSUPPORTED_VALUE"
    ELSE "USABLE"

Provenance(q) ==
    LET state == QuantityState(q.raw, q.fixture)
    IN IF q.stored \in Provenances \ Countable THEN q.stored
       ELSE IF q.stored \in Countable
            THEN IF Numeric(q.raw, FALSE) = "VALID" /\ Whole(q.raw) THEN q.stored ELSE "INVALID"
       ELSE IF state = "USABLE"
            THEN IF q.raw.tenths = 0 THEN "UNSUPPORTED" ELSE "EXPLICIT_FIXTURE"
       ELSE IF state = "UNSUPPORTED_VALUE" THEN "UNSUPPORTED"
       ELSE state

(* resolveCanonicalQuantity(..).pieces *)
Pieces(q) == IF Provenance(q) \in Countable THEN q.raw.tenths \div 10 ELSE None

(* confirmedQuantitySql: a column holds a number or nothing. *)
WholePositive(raw) == raw.kind = "number" /\ raw.tenths > 0 /\ Whole(raw)

PiecesInSql(q) ==
    IF /\ WholePositive(q.raw)
       /\ q.stored \in Countable \/ (q.stored = NotStored /\ q.fixture)
    THEN q.raw.tenths \div 10
    ELSE None

(* resolveCanonicalWeight(..).carats, in tenths: only a simulated record has *)
(* a unit.                                                                   *)
Carats(raw, fixture) ==
    IF Numeric(raw, FALSE) = "VALID" /\ fixture THEN raw.tenths ELSE None
=============================================================================
