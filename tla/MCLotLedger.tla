---------------------------- MODULE MCLotLedger ----------------------------
(* Instances of LotLedger for TLC. *)
EXTENDS LotLedger

CONSTANTS old, new,   \* a lot written before classification, a lot not yet seen
          r1

BothLots == {old, new}
OldOnly == {old}

(* A lot in stock, out on memo, or reported sold. *)
FeedRows == {[status |-> "STOCK", current |-> TRUE], [status |-> "MEMO", current |-> TRUE],
             [status |-> "SOLD", current |-> FALSE]}

=============================================================================
