---------------------------- MODULE MCReplicaSync ----------------------------
(* Small instances of ReplicaSync: plans, and the sets of them that runs take. *)
EXTENDS ReplicaSync, TLC

CONSTANTS d1, d2, p, q, name, code

Act(i, k, x) ==
    [id |-> i, kind |-> k, product |-> x, field |-> name, value |-> 1, qty |-> 0, at |-> i]
Create(i, x) == Act(i, "create", x)
Edit(i, x, fld, v) == [Act(i, "edit", x) EXCEPT !.field = fld, !.value = v]
Delete(i, x) == Act(i, "delete", x)
Move(i, x, n) == [Act(i, "move", x) EXCEPT !.qty = n]
Count(i, x, n, t) == [Act(i, "count", x) EXCEPT !.qty = n, !.at = t]

Row ==
    [version |-> 1, deleted |-> FALSE, fields |-> (name :> 0) @@ (code :> Blank), stamp |-> 0]
Opened(ps) == [x \in Products |-> IF x \in ps THEN Row ELSE None]

Planned(opened, first, second, flts) ==
    [opening |-> Opened(opened), intents |-> (d1 :> first) @@ (d2 :> second), faults |-> flts]

Lossy == {"timeout", "unauthorized", "crash"}

(* One device edits one field; the other edits another one and deletes.     *)
EditAndDelete == Planned({p}, {Edit(1, p, name, 1)}, {Edit(3, p, code, 1), Delete(4, p)}, FaultKinds)

(* Two devices edit the same field. *)
Overlapping == Planned({p}, {Edit(1, p, name, 1)}, {Edit(3, p, name, 2)}, FaultKinds)

(* Two devices edit the same field and one of them deletes the product.     *)
EditsAndDelete ==
    Planned({p}, {Edit(1, p, name, 1)}, {Edit(3, p, name, 2), Delete(4, p)}, {})

(* One device edits a field and edits it back, the other edits another one. *)
EditTwice ==
    Planned({p}, {Edit(1, p, name, 1), Edit(2, p, name, 0)}, {Edit(3, p, code, 1)}, {})

(* One device creates the product and counts it; the other one, once it has *)
(* the product, counts it later.                                           *)
Counting == Planned({}, {Create(1, p), Count(2, p, 3, 2)}, {Count(3, p, 2, 3)}, FaultKinds)

(* Two devices count the product: one before the other. *)
Stocktakes == Planned({p}, {Count(1, p, 3, 2)}, {Count(3, p, 2, 3)}, Lossy)

(* Two devices give one barcode to two products. *)
OneCode == Planned({p, q}, {Edit(1, p, code, 1)}, {Edit(3, q, code, 1)}, FaultKinds)
OneCodeLossy == [OneCode EXCEPT !.faults = Lossy]

(* An edit fails on the server and the deletion behind it is ahead of it. *)
FailedEdit == Planned({p}, {Edit(1, p, name, 1), Delete(2, p)}, {}, {"failed"})

(* An edit waits on one device while the other one has two pages to pull.   *)
Backlog == Planned({p}, {Edit(1, p, name, 1)}, {Move(3, p, 1), Move(4, p, 1)}, {})

(* Behaviours that leave a device behind for good; the README tells them.   *)
(* A barcode passes from a product to another one;                         *)
PassedOn == Planned({p, q}, {Edit(1, q, code, 1)}, {Edit(3, p, code, 1), Delete(4, p)}, {})
(* a stocktake is committed and answered as failed;                        *)
UnconfirmedCount == [Stocktakes EXCEPT !.faults = {"unconfirmed"}]
(* an edit with a barcode that another product gets is refused.             *)
RefusedCode == [OneCode EXCEPT !.faults = {"refused"}]

(* A device edits a product, deletes it and, once an answer has brought the *)
(* product back, edits it again: that edit can overtake the deletion.      *)
DeleteAndEdit ==
    [opening |-> Opened({p}),
     intents |-> (d1 :> {Edit(1, p, name, 1), Delete(2, p), Edit(3, p, name, 2)}),
     faults |-> {"timeout"}]

Work == {EditAndDelete, Counting, OneCode}
Live == {Overlapping, Stocktakes, OneCodeLossy, FailedEdit}
LostUpdate == {EditTwice}
Resurrection == {EditsAndDelete}
BackedUp == {Backlog}
Overtaking == {DeleteAndEdit}
Stuck == {PassedOn, UnconfirmedCount, RefusedCode}
=============================================================================
