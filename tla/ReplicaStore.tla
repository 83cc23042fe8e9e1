---------------------------- MODULE ReplicaStore ----------------------------
(***************************************************************************)
(* The local database of one device (app/lib/data/local) and what its      *)
(* transactions do to it: the optimistic mutations, the queue of pending   *)
(* operations, the reconciliation of push results, the application of a    *)
(* change page, the three-way merge, the resolution of a conflict and the  *)
(* installation of a snapshot.                                             *)
(*                                                                         *)
(* Each operator maps a database to the one its SQLite transaction leaves, *)
(* or to None when the transaction throws and is rolled back.  ReplicaSync *)
(* says when they run.                                                     *)
(***************************************************************************)
EXTENDS Integers, Sequences, FiniteSets, SequencesExt

CONSTANTS
    Products,   \* product ids
    Fields,     \* editable fields of a product
    Required,   \* those of them a row always has, and an upsert too: the name
    Barcode,    \* the one of them that is unique among active products
    Values,     \* what a field can hold
    Blank,      \* an absent value
    None

ASSUME FieldsAssumption == Required \subseteq Fields /\ Barcode \in Fields \ Required
ASSUME BlankIsAValue == Blank \in Values

Kinds == {"create", "edit", "delete", "move", "count"}
Payload == [Fields -> Values]

(* A user mutation: `value` for an edit of `field` or a creation, `qty` is  *)
(* the delta of a movement or the counted quantity of a stocktake.         *)
Intent ==
    [id : Nat, kind : Kinds, product : Products, field : Fields, value : Values, qty : Int, at : Nat]

(* A pending operation.  Its id stands for op_id and, for a movement, for  *)
(* the movement id too; follow-ups of an intent share the first component. *)
(* An edit without fields is an upsert without a name.                     *)
OpId == Nat \X Nat
Operation ==
    [id : OpId, kind : Kinds, product : Products, base : Nat, fields : Payload \cup {None},
     basis : Payload \cup {None}, delta : Int, counted : Nat, at : Nat]

(* A canonical product; `stamp` is the change that left it so.  It stands  *)
(* for updated_at and updated_by, and an optimistic row has none.          *)
Image == [version : Nat \ {0}, deleted : BOOLEAN, fields : Payload, stamp : Nat \cup {None}]

(* Why an operation is rejected. *)
Reasons ==
    {"invalid_base_version", "product_not_found", "product_deleted", "version_conflict",
     "barcode_conflict", "stocktake_displaced", "invalid_delta", "internal_error"}

ASSUME NoneIsNoReason == None \notin Reasons

(* The verdict on an operation, as sync_ops keeps it. *)
Outcome ==
    [applied : BOOLEAN, reason : Reasons \cup {""}, seq : Nat, state : Image \cup {None},
     displaced : SUBSET Operation]

(* A change_log row. *)
Change == [op : Operation, image : Image \cup {None}, delta : Int, displaced : SUBSET Operation]

SyncStatus == {"synced", "pending", "conflict"}
LocalRow ==
    [version : Nat \ {0}, deleted : BOOLEAN, fields : Payload, stamp : Nat \cup {None},
     status : SyncStatus]
LocalMove ==
    [id : OpId, product : Products, kind : Kinds, delta : Int, counted : Nat, at : Nat,
     status : SyncStatus]

ASSUME NoneIsNoData == None \notin Nat \cup Image \cup LocalRow

(* A pending_ops row.  Both blocked and parked are status `blocked`: one    *)
(* after a verdict, with a conflict, the other after a transport failure.  *)
QueueRow ==
    [op : Operation, status : {"queued", "retrying", "inflight", "blocked", "parked"}]

(* Both resolved and reviewed are `resolved`: the latter sent nothing.      *)
Conflict ==
    [op : Operation, reason : Reasons \cup {""}, server : Image \cup {None},
     resolution : {"unresolved", "auto_merged", "resolved", "reviewed"}]

Database ==
    [rows : [Products -> LocalRow \cup {None}], moves : SUBSET LocalMove,
     balance : [Products -> Int], queue : Seq(QueueRow), conflicts : SUBSET Conflict,
     cursor : Nat]

(* The elements of a sequence at positions I, in order. *)
At(s, I) ==
    LET place(n) == Cardinality({k \in I : k <= n})
    IN  [m \in 1..Cardinality(I) |-> s[CHOOSE n \in I : place(n) = m]]

IsProductOp(op) == op.kind \in {"create", "edit", "delete"}

(* Sum of the deltas of a set of movements. *)
Total(moves) == MapThenSumSet(LAMBDA m : m.delta, moves)
MovesOf(db, p) == {m \in db.moves : m.product = p}

(* Fault: the row is written without its sync status. *)
ToLocalAsSent(image, status) == image

ToLocal(image, status) ==
    [version |-> image.version, deleted |-> image.deleted, fields |-> image.fields,
     stamp |-> image.stamp, status |-> status]
-----------------------------------------------------------------------------
(* Local mutations: domain row, projection and queue row in one transaction. *)

Active(db, p) == db.rows[p] # None /\ ~db.rows[p].deleted

(* The index products_active_barcode_unique: a statement that violates it   *)
(* fails.  Rows in conflict are not in it.                                 *)
Claims(db, p) == Active(db, p) /\ db.rows[p].status # "conflict"
UniqueCodes(db) ==
    \A p, q \in {x \in Products : Claims(db, x)} :
        p # q /\ db.rows[p].fields[Barcode] # Blank =>
            db.rows[p].fields[Barcode] # db.rows[q].fields[Barcode]

(* The transaction that leads to db throws at a row the index refuses. *)
Indexed(db) == IF db # None /\ UniqueCodes(db) THEN db ELSE None

Enqueue(db, op) == [db EXCEPT !.queue = Append(@, [op |-> op, status |-> "queued"])]

(* When the repository accepts the mutation instead of throwing. *)
Mutable(db, i) ==
    /\ IF i.kind = "create" THEN db.rows[i.product] = None ELSE Active(db, i.product)
    /\ i.kind = "count" => i.qty # db.balance[i.product]

(* The operation queued for intent i: base and basis are the local row, a  *)
(* stocktake's delta is derived from the local projection.                 *)
OperationFor(db, i) ==
    LET row == db.rows[i.product] IN
    [id |-> <<i.id, 0>>,
     kind |-> i.kind,
     product |-> i.product,
     base |-> IF i.kind \in {"edit", "delete"} THEN row.version ELSE 0,
     fields |-> CASE i.kind = "edit" -> [row.fields EXCEPT ![i.field] = i.value]
                  [] i.kind = "create" ->
                        [f \in Fields |-> IF f \in Required \cup {i.field} THEN i.value ELSE Blank]
                  [] OTHER -> None,
     basis |-> IF i.kind \in {"edit", "delete"} THEN row.fields ELSE None,
     delta |-> CASE i.kind = "move" -> i.qty
                 [] i.kind = "count" -> i.qty - db.balance[i.product]
                 [] OTHER -> 0,
     counted |-> IF i.kind = "count" THEN i.qty ELSE 0,
     at |-> i.at]

(* Fault: the predicted version is one too far. *)
OptimisticRowAhead(db, op) ==
    [version |-> op.base + 2,
     deleted |-> op.kind = "delete",
     fields |-> IF op.kind = "delete" THEN db.rows[op.product].fields ELSE op.fields,
     stamp |-> None,
     status |-> "pending"]

(* The optimistic row, one version ahead of the one it was based on. *)
OptimisticRow(db, op) ==
    [version |-> op.base + 1,
     deleted |-> op.kind = "delete",
     fields |-> IF op.kind = "delete" THEN db.rows[op.product].fields ELSE op.fields,
     stamp |-> None,
     status |-> "pending"]

NewMove(op, delta, status) ==
    [id |-> op.id, product |-> op.product, kind |-> op.kind, delta |-> delta,
     counted |-> op.counted, at |-> op.at, status |-> status]

(* Appends a movement and its effect on the projection. *)
WithMove(db, m) ==
    [db EXCEPT !.moves = @ \cup {m}, !.balance[m.product] = @ + m.delta]

Mutate(db, i) ==
    LET op == OperationFor(db, i) IN
    IF ~Mutable(db, i) THEN None
    ELSE Indexed(Enqueue(IF IsProductOp(op)
                         THEN [db EXCEPT !.rows[op.product] = OptimisticRow(db, op)]
                         ELSE WithMove(db, NewMove(op, op.delta, "pending")), op))
-----------------------------------------------------------------------------
(* The queue. *)

(* Every queue row of an operation in `ids` with status `old` gets `new`. *)
Restatus(db, ids, old, new) ==
    [db EXCEPT !.queue = [n \in DOMAIN @ |->
        IF @[n].op.id \in ids /\ @[n].status = old THEN [@[n] EXCEPT !.status = new] ELSE @[n]]]

QueuedIds(db) == {db.queue[n].op.id : n \in DOMAIN db.queue}
StatusOf(db, id) == {db.queue[n].status : n \in {k \in DOMAIN db.queue : db.queue[k].op.id = id}}

(* Fault: interrupted operations are left as they are. *)
RecoverNothing(db) == db

(* recoverInterruptedOperations *)
Recover(db) == Restatus(db, QueuedIds(db), "inflight", "queued")

(* Fault: an operation is put into a request as it is. *)
SendableAsIs(op) == TRUE

(* toSyncOperation: what the decoded payload is refused for. *)
Sendable(op) ==
    CASE op.kind = "delete" -> TRUE
      [] IsProductOp(op) -> op.fields # None /\ \A f \in Required : op.fields[f] # Blank
      [] OTHER -> op.delta # 0 /\ op.counted >= 0

(* The due rows in local order, at most `limit` of them. *)
Due(db, limit) ==
    LET due == At(db.queue, {n \in DOMAIN db.queue : db.queue[n].status = "queued"})
    IN  [n \in 1..IF Len(due) < limit THEN Len(due) ELSE limit |-> due[n].op]

Ids(ops) == {ops[n].id : n \in DOMAIN ops}

(* The row leaves the queue. *)
Dequeue(db, id) == [db EXCEPT !.queue = At(@, {n \in DOMAIN @ : @[n].op.id # id})]

(* A conflict replaces the one recorded for the same operation. *)
WithConflict(db, c) ==
    [db EXCEPT !.conflicts = {x \in @ : x.op.id # c.op.id} \cup {c}]

(* StocktakeConflictStore.recordOutcome: the queue rows of displaced        *)
(* stocktakes, as far as they are still there, are blocked, and history is *)
(* kept.                                                                   *)
Displace(db, ops) ==
    LET ids == {op.id : op \in ops} IN
    [db EXCEPT
        !.queue = [n \in DOMAIN @ |->
            IF @[n].op.id \in ids THEN [@[n] EXCEPT !.status = "blocked"] ELSE @[n]],
        !.conflicts = {x \in @ : x.op.id \notin ids} \cup
            {[op |-> op, reason |-> "stocktake_displaced", server |-> None,
              resolution |-> "unresolved"] : op \in ops}]
-----------------------------------------------------------------------------
(* DriftRemoteChangeApplier: one change of a page. *)

(* _ensureBarcodeAvailable: no other product of the index has the code.     *)
Available(db, p, image) ==
    \/ image.deleted
    \/ image.fields[Barcode] = Blank
    \/ \A q \in Products \ {p} : Claims(db, q) => db.rows[q].fields[Barcode] # image.fields[Barcode]

(* The row is inserted, with a balance derived from the movements that are  *)
(* there, or updated under the status it has.                              *)
StoreProduct(db, p, image) ==
    IF ~Available(db, p, image) THEN None
    ELSE IF db.rows[p] = None
    THEN [db EXCEPT !.rows[p] = ToLocal(image, "synced"), !.balance[p] = Total(MovesOf(db, p))]
    ELSE [db EXCEPT !.rows[p] = ToLocal(image, @.status)]

(* _applyProductChange: a tombstone is final and beats every active row;   *)
(* otherwise the greater version wins.  A different row of the same        *)
(* version is the local intent, if it is marked so, and an error if not.   *)
ApplyProduct(db, p, image) ==
    LET old == db.rows[p] IN
    IF old = None THEN StoreProduct(db, p, image)
    ELSE IF old.deleted /\ ~image.deleted THEN db
    ELSE IF image.version > old.version \/ (image.deleted /\ ~old.deleted)
    THEN StoreProduct(db, p, image)
    ELSE IF \/ image.version < old.version
            \/ ToLocal(image, old.status) = old
            \/ old.status # "synced"
    THEN db
    ELSE None

(* Fault: the stocktakes a movement displaces are not recorded. *)
InsertRemoteSilently(db, c) == WithMove(db, NewMove(c.op, c.delta, "synced"))

(* A movement that the device does not have, and the stocktakes it displaces. *)
InsertRemote(db, c) == Displace(WithMove(db, NewMove(c.op, c.delta, "synced")), c.displaced)

(* Fault: a movement the device has is not compared. *)
ApplyMoveOnceSeen(db, c) ==
    IF db.rows[c.op.product] = None THEN None
    ELSE IF {m \in db.moves : m.id = c.op.id} = {} THEN InsertRemote(db, c)
    ELSE Displace(db, c.displaced)

(* _applyMovementChange: a movement the device has must be the same one.   *)
ApplyMove(db, c) ==
    LET mine == {m \in db.moves : m.id = c.op.id} IN
    IF db.rows[c.op.product] = None THEN None
    ELSE IF mine = {} THEN InsertRemote(db, c)
    ELSE IF \A m \in mine : m.delta = c.delta THEN Displace(db, c.displaced)
    ELSE None

ApplyChange(db, c) ==
    IF db = None THEN None
    ELSE IF IsProductOp(c.op) THEN ApplyProduct(db, c.op.product, c.image)
    ELSE ApplyMove(db, c)

(* _validatePage: the page of the changes after `from` up to `last` leads   *)
(* on from the cursor, or ends at it.                                      *)
PageFits(db, from, last) ==
    /\ last >= db.cursor
    /\ from = last => last = db.cursor
    /\ last > db.cursor => from >= db.cursor

(* The changes of products, or the movements, at positions `fresh`.         *)
ApplyKind(db, changes, fresh, products) ==
    FoldLeftDomain(
        LAMBDA b, n : IF n \in fresh /\ IsProductOp(changes[n].op) = products
                      THEN ApplyChange(b, changes[n]) ELSE b,
        db, changes)

(* applyPage: the changes that reconciliation has not written yet, products *)
(* first, and the cursor with them.                                        *)
ApplyPage(db, from, changes, fresh, last) ==
    LET applied == ApplyKind(ApplyKind(db, changes, fresh, TRUE), changes, fresh, FALSE)
    IN  IF ~PageFits(db, from, last) \/ applied = None THEN None
        ELSE [applied EXCEPT !.cursor = last]
-----------------------------------------------------------------------------
(* DriftSyncResponseReconciler: one result. *)

(* The row or movement that the operation wrote is still there; a snapshot  *)
(* that was installed since may not have it.                               *)
HasConsequence(db, op) ==
    IF IsProductOp(op) THEN db.rows[op.product] # None ELSE \E m \in db.moves : m.id = op.id

(* The movement with an id. *)
Mine(db, id) == CHOOSE m \in db.moves : m.id = id

SetLocalStatus(db, op, status) ==
    IF ~HasConsequence(db, op) THEN db
    ELSE IF IsProductOp(op)
    THEN [db EXCEPT !.rows[op.product].status = status]
    ELSE LET mine == Mine(db, op.id) IN
         [db EXCEPT !.moves = (@ \ {mine}) \cup {[mine EXCEPT !.status = status]}]

(* Fault: the projection keeps the optimistic delta. *)
ApplyCanonicalRowOnly(db, op, c) ==
    IF IsProductOp(op)
    THEN [db EXCEPT !.rows[op.product] = ToLocal(c.image, "synced")]
    ELSE [db EXCEPT !.moves = {IF m.id = op.id
                               THEN [m EXCEPT !.delta = c.delta, !.status = "synced"]
                               ELSE m : m \in @}]

(* The movement is missing: the canonical one is inserted. *)
InsertCanonical(db, op, c) == WithMove(db, NewMove(op, c.delta, "synced"))

(* The local consequence becomes the canonical one, change c. *)
ApplyCanonical(db, op, c) ==
    IF db.rows[op.product] = None THEN None
    ELSE IF ~HasConsequence(db, op) THEN InsertCanonical(db, op, c)
    ELSE IF IsProductOp(op)
    THEN [db EXCEPT !.rows[op.product] = ToLocal(c.image, "synced")]
    ELSE LET mine == Mine(db, op.id) IN
         [db EXCEPT
            !.moves = (@ \ {mine}) \cup {[mine EXCEPT !.delta = c.delta, !.status = "synced"]},
            !.balance[op.product] = @ + c.delta - mine.delta]

(* ProductThreeWayMerge.compare *)
Changed(base, payload) == {f \in Fields : payload[f] # base[f]}
Merged(base, local, server) ==
    IF Changed(base, local) \cap Changed(base, server) # {} THEN None
    ELSE [f \in Fields |-> IF f \in Changed(base, local) THEN local[f] ELSE server[f]]

(* Fault: the local row is not looked at. *)
MergeOfAnyRow(db, op, outcome) ==
    IF /\ outcome.reason = "version_conflict"
       /\ op.kind = "edit"
       /\ outcome.state.version > op.base
    THEN Merged(op.basis, op.fields, outcome.state.fields)
    ELSE None

(* The payload of the follow-up that merges a rejected edit with the       *)
(* canonical row; None when the user has to decide.                        *)
MergeOf(db, op, outcome) ==
    IF /\ outcome.reason = "version_conflict"
       /\ op.kind = "edit"
       /\ outcome.state # None
       /\ ~outcome.state.deleted
       /\ outcome.state.version > op.base
       /\ Active(db, op.product)
    THEN Merged(op.basis, op.fields, outcome.state.fields)
    ELSE None

(* Fault: the row is merged but nothing is queued. *)
FollowUpUnqueued(db, op, fields, state) ==
    LET next == [op EXCEPT !.id = <<@[1], @[2] + 1>>, !.kind = "edit", !.base = state.version,
                           !.fields = fields, !.basis = state.fields]
    IN  [db EXCEPT !.rows[op.product] = OptimisticRow(db, next)]

(* An edit queued on top of canonical row `state`, and its optimistic row. *)
FollowUp(db, op, fields, state) ==
    LET next == [op EXCEPT !.id = <<@[1], @[2] + 1>>, !.kind = "edit", !.base = state.version,
                           !.fields = fields, !.basis = state.fields]
    IN  Enqueue([db EXCEPT !.rows[op.product] = OptimisticRow(db, next)], next)

(* _retainRejectedOperation: the row is blocked with a conflict; a merge    *)
(* continues as a follow-up, and a canonical tombstone is applied at once.  *)
Retain(db, op, outcome) ==
    LET merge == MergeOf(db, op, outcome)
        kept == WithConflict(Restatus(db, {op.id}, "inflight", "blocked"),
                    [op |-> op, reason |-> outcome.reason, server |-> outcome.state,
                     resolution |-> IF merge = None THEN "unresolved" ELSE "auto_merged"])
        marked == SetLocalStatus(kept, op, "conflict")
    IN  IF merge # None THEN FollowUp(kept, op, merge, outcome.state)
        ELSE IF IsProductOp(op) /\ outcome.state # None /\ outcome.state.deleted
        THEN ApplyProduct(marked, op.product, outcome.state)
        ELSE marked

(* Settle(db, op, outcome, page): page holds the changes of the response by *)
(* sequence.  Without the change the local consequence is taken as it is.  *)
Settle(db, op, outcome, page) ==
    IF db = None \/ StatusOf(db, op.id) # {"inflight"} THEN None
    ELSE IF ~outcome.applied THEN Indexed(Retain(db, op, outcome))
    ELSE LET settled == IF outcome.seq \in DOMAIN page
                        THEN ApplyCanonical(db, op, page[outcome.seq])
                        ELSE IF HasConsequence(db, op) THEN SetLocalStatus(db, op, "synced")
                        ELSE None
         IN  IF Indexed(settled) = None THEN None
             ELSE Dequeue(Displace(settled, outcome.displaced), op.id)

(* reconcile: every result of the response, in one transaction. *)
Reconcile(db, ops, results, page) ==
    FoldLeftDomain(LAMBDA b, n : Settle(b, ops[n], results[n], page), db, ops)
-----------------------------------------------------------------------------
(* LocalConflictResolutionRepository, as the conflict page offers it.       *)

(* What the page offers for a conflict. *)
Offers(c) ==
    CASE c.reason = "version_conflict" -> {"local", "server"}
      [] c.reason = "barcode_conflict" -> {"unbarcoded"}
      [] OTHER -> {"reviewed"}

(* The payload of the operation that is queued for a choice; the one of a   *)
(* deletion holds no field.                                                *)
Selected(c, choice) ==
    CASE choice = "local" -> c.op.fields
      [] choice = "server" -> c.server.fields
      [] choice = "unbarcoded" -> [c.op.fields EXCEPT ![Barcode] = Blank]

(* The operation that retries a rejected one: on the canonical version that *)
(* came with the verdict, or, without its barcode, where it was.           *)
RetryOf(c, choice) ==
    LET next == [c.op EXCEPT !.id = <<@[1], @[2] + 1>>, !.fields = Selected(c, choice)] IN
    IF choice = "unbarcoded" THEN next
    ELSE [next EXCEPT !.kind = "edit", !.base = c.server.version, !.basis = c.server.fields]

(* The row as resolveProduct writes it: a missing field is cleared, unless  *)
(* the row has to have it.  The server's row may be one of another product, *)
(* the owner of the barcode.                                               *)
ResolvedRow(row, fields, server) ==
    [row EXCEPT
        !.version = (IF server = None THEN @ ELSE server.version) + 1,
        !.deleted = FALSE,
        !.fields = [f \in Fields |->
            IF fields # None /\ (f \in Required => fields[f] # Blank) THEN fields[f]
            ELSE IF f \in Required THEN @[f] ELSE Blank],
        !.stamp = None,
        !.status = "pending"]

(* resolveProduct and markReviewed *)
Resolve(db, c, choice) ==
    LET next == RetryOf(c, choice)
        row == db.rows[c.op.product]
        decided == WithConflict(db,
            [c EXCEPT !.resolution = IF choice = "reviewed" THEN "reviewed" ELSE "resolved"])
    IN  IF choice = "reviewed" THEN decided
        ELSE IF \/ row = None
                \/ choice = "server" /\ c.server.deleted
        THEN None
        ELSE Indexed(Enqueue([decided EXCEPT !.rows[c.op.product] =
                                ResolvedRow(row, next.fields, c.server)], next))
-----------------------------------------------------------------------------
(* A snapshot refers to nothing that is not in it. *)
Consistent(snapshot) == \A m \in snapshot.moves : snapshot.products[m.product] # None

(* DriftSnapshotBootstrapper.bootstrap: what is replicated is replaced, the *)
(* queue and the conflicts stay.                                           *)
Install(db, snapshot) ==
    [db EXCEPT !.rows = [p \in Products |-> IF snapshot.products[p] = None THEN None
                                            ELSE ToLocal(snapshot.products[p], "synced")],
               !.moves = snapshot.moves, !.balance = snapshot.balances,
               !.cursor = snapshot.cursor]
=============================================================================
