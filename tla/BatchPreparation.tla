-------------------------- MODULE BatchPreparation --------------------------
(***************************************************************************)
(* prepareBatch of raw-ingestion.ts as the operation its callers see: a    *)
(* delivered batch becomes the status and the outcomes of its rows that    *)
(* are stored (RawIngestion) or, in a dry run, shown.  Calls share         *)
(* nothing, so one is enough.                                              *)
(***************************************************************************)
EXTENDS FantasyRowContract

CONSTANTS Deliveries   \* the batches a connector may deliver

HeaderCell == [name : Names \cup {NoName}, spelling : Spellings]

(* A batch as prepareBatch is given one. *)
Delivered(batch) ==
    /\ batch.supported \in BOOLEAN
    /\ batch.headers \in Seq(HeaderCell)
    /\ \A i \in 1..Len(batch.rows) :
          /\ batch.rows[i].form \in {"KEYED", "POSITIONAL"}
          /\ batch.rows[i].form = "POSITIONAL" => batch.rows[i].cells \in Seq(Values)

ASSUME DeliveriesAssumption == \A batch \in Deliveries : Delivered(batch)

VARIABLES prepared   \* what prepareBatch returned, with what it was given

Prepared(batch) ==
    [batch |-> batch, status |-> BatchStatus(batch),
     outcomes |-> [i \in 1..Len(batch.rows) |-> RowOutcome(batch, batch.rows[i])]]

PrepareInit == prepared = {}

Prepare ==
    /\ prepared = {}
    /\ \E batch \in Deliveries : prepared' = {Prepared(batch)}

PrepareSpec == PrepareInit /\ [][Prepare]_prepared
-----------------------------------------------------------------------------
(* A row accepted as it is maps one to one to the contract: the headers are  *)
(* the contract itself, the row has a value under each of them, none of them *)
(* unsupported, and a Lot ID; a keyed row may lack fields.                   *)
RowVerbatim(batch, row) ==
    /\ batch.supported
    /\ Verbatim(batch.headers)
    /\ "unsupported" \notin Cells(row)
    /\ row.form = "POSITIONAL" => Len(row.cells) = Len(Contract)
    /\ Assigned(row, batch.headers, LotID) = "text"

(* A batch stored as ACCEPTED has nothing for a person to look at.           *)
BatchVerbatim(result) ==
    /\ result.batch.supported
    /\ Verbatim(result.batch.headers)
    /\ \A i \in 1..Len(result.batch.rows) : result.outcomes[i] = "ACCEPTED_RAW"

(* A row is accepted as it is exactly when it maps one to one to the column  *)
(* contract, and a batch without remark exactly when all its rows do: no     *)
(* drift of a header or of a row's length passes (validateFantasyHeaders,    *)
(* normalizeFantasyRow and prepareBatch together).                           *)
AcceptedIsVerbatim ==
    \A result \in prepared :
        LET batch == result.batch
        IN /\ \A i \in 1..Len(batch.rows) :
                 result.outcomes[i] = "ACCEPTED_RAW" <=> RowVerbatim(batch, batch.rows[i])
           /\ result.status = "ACCEPTED" <=> BatchVerbatim(result)
=============================================================================
