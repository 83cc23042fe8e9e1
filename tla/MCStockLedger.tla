---------------------------- MODULE MCStockLedger ----------------------------
(* Small instances of StockLedger. *)
EXTENDS StockLedger, TLC

CONSTANTS w1, w2, w3, p1, p2

Move(i, x, d, t) ==
    [id |-> i, product |-> x, kind |-> "adjust", delta |-> d, counted |-> 0, at |-> t,
     reverses |-> None]
Count(i, x, c, t) ==
    [id |-> i, product |-> x, kind |-> "stocktake", delta |-> c, counted |-> c, at |-> t,
     reverses |-> None]
Reversal(i, x, d, o) ==
    [id |-> i, product |-> x, kind |-> "adjust", delta |-> d, counted |-> 0, at |-> 5,
     reverses |-> o]
Deletion(i, x) ==
    [id |-> i, product |-> x, kind |-> "delete", delta |-> 0, counted |-> 0, at |-> 0,
     reverses |-> None]

(* A product opens with one receipt. *)
Receipt(q0) == <<[id |-> 0, kind |-> "adjust", delta |-> q0, counted |-> 0, at |-> 1,
                  reverses |-> None]>>
OneOpening == (p1 :> Receipt(2))
TwoOpening == (p1 :> Receipt(2)) @@ (p2 :> << >>)

(* Counts of the same time, one of them out of range, against an issue, its *)
(* reversal on the right and on the wrong product, and the deletion.       *)
Mixed == {Count(1, p1, 3, 3), Count(2, p1, 1, 3), Count(3, p1, 9, 2), Move(4, p1, -1, 4),
          Reversal(5, p1, 1, 4), Reversal(6, p2, 1, 4), Deletion(7, p1)}

(* Two counts on stale balances; the greater key counted what is there.    *)
TwoCounts == {Count(1, p1, 3, 2), Count(2, p1, 2, 3)}
=============================================================================
