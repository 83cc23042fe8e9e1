------------------------- MODULE MCSyncTransactions -------------------------
(* An instance of SyncTransactions: one contended product. *)
EXTENDS SyncTransactions, TLC

CONSTANTS w1, w2, r1, own, other, p1

Op(i, a, k, b, d) ==
    [id |-> i, account |-> a, kind |-> k, product |-> p1, base |-> b, delta |-> d]

(* A creation, an edit and a delete that race for its first version, a      *)
(* movement, and an edit by an account that has no claim on the product but *)
(* shares the counter.                                                     *)
Mixed == {Op(1, own, "upsert", 0, 0), Op(2, own, "upsert", 1, 0),
          Op(3, own, "delete", 1, 0), Op(4, own, "move", 0, 2),
          Op(5, other, "upsert", 0, 0)}

ReaderOfOwn == (r1 :> own)
=============================================================================
