------------------------------ MODULE MCBarcodes ------------------------------
(* An instance of Barcodes: a swap, a deletion and a claim by another account. *)
EXTENDS Barcodes, TLC

CONSTANTS own, other, p1, p2, p3, codeA, codeB, codeC

Op(i, acc, k, p, x, v) ==
    [id |-> i, account |-> acc, kind |-> k, product |-> p, code |-> x, base |-> v]
Product(x) == [owner |-> own, version |-> 1, deleted |-> FALSE, code |-> x]

(* Two products of one account, each with a barcode. *)
TwoCodes == (p1 :> Product(codeA)) @@ (p2 :> Product(codeB)) @@ (p3 :> None)

(* p1 and p2 swap their barcodes, p2 is deleted, another edit gives p1 a new *)
(* one, and another account creates a product with that.                   *)
Swap == {Op(1, own, "upsert", p1, codeB, 1), Op(2, own, "upsert", p2, codeA, 1),
         Op(3, own, "delete", p2, None, 1), Op(4, own, "upsert", p1, codeC, 1),
         Op(5, other, "upsert", p3, codeC, 0)}
===============================================================================
