------------------------------- MODULE Barcodes -------------------------------
(***************************************************************************)
(* Barcode uniqueness on the server: the transactions of product upserts    *)
(* and deletes against the unique index products_active_barcode_uq, which   *)
(* covers the active products of every account.  A statement that writes a  *)
(* row locks it before it enters its barcode into the index, and waits      *)
(* there for a transaction in progress that holds the code, so that two     *)
(* edits can wait for each other.  A collision rolls back to the savepoint  *)
(* around the mutation; the transaction goes on, reads the owner and stores *)
(* the rejection.                                                          *)
(*                                                                         *)
(* SyncTransactions has the idempotency row and the counter: here there is  *)
(* one transaction of an operation at a time, and the allocation of the     *)
(* sequence and the commit are one step.                                   *)
(***************************************************************************)
EXTENDS Integers, Sequences, FiniteSets

CONSTANTS
    Accounts,
    Products,
    Codes,      \* barcodes, trimmed; an empty one is None
    Ops,        \* the operations that are delivered
    Opening,    \* the products table that earlier operations left
    None

Operation ==
    [id : Nat, account : Accounts, kind : {"upsert", "delete"}, product : Products,
     code : Codes \cup {None}, base : Nat]

Row == [owner : Accounts, version : Nat, deleted : BOOLEAN, code : Codes \cup {None}]
Table == [Products -> Row \cup {None}]

(* The products that hold code c in a table: the entries of the index. *)
Holders(table, c) ==
    {p \in Products : table[p] # None /\ ~table[p].deleted /\ table[p].code = c}

ASSUME OpsAreOperations == Ops \subseteq Operation
ASSUME OpeningIsUnique ==
    /\ Opening \in Table
    /\ \A c \in Codes, p, q \in Products :
            p \in Holders(Opening, c) /\ q \in Holders(Opening, c) => p = q
ASSUME NoneIsNothing == None \notin Codes /\ None \notin Row /\ None \notin Products

Reasons ==
    {"applied", "barcode_conflict", "invalid_base_version", "ownership_violation",
     "product_deleted", "product_not_found", "version_conflict"}

(* A sync_ops row; `owner` is the product server_state shows for a barcode. *)
Outcome == [reason : Reasons, owner : Products \cup {None}]

VARIABLES
    catalog,    \* products, as committed
    feed,       \* change_log: the operations applied, with the row each left
    outcomes,   \* sync_ops
    \* the transaction of each operation
    pc,
    draft,      \* the row version it wrote, None before and after a rollback
    verdict     \* the outcome it will store

tables == <<catalog, feed, outcomes>>
vars == <<tables, pc, draft, verdict>>

Steps ==
    {"idle", "lookup", "insert", "update", "delete", "index", "violated", "attach",
     "classify", "failed", "sequence", "finalize"}

TypeOK ==
    /\ catalog \in Table
    /\ feed \in Seq([op : Ops, row : Row])
    /\ outcomes \in [Ops -> Outcome \cup {None}]
    /\ pc \in [Ops -> Steps]
    /\ draft \in [Ops -> Row \cup {None}]
    /\ verdict \in [Ops -> Outcome \cup {None}]

Init ==
    /\ catalog = Opening
    /\ feed = << >>
    /\ outcomes = [o \in Ops |-> None]
    /\ pc = [o \in Ops |-> "idle"]
    /\ draft = [o \in Ops |-> None]
    /\ verdict = [o \in Ops |-> None]
-----------------------------------------------------------------------------
(* Locks. *)

(* The transactions that hold row p, written and not committed. *)
Writers(p) == {o \in Ops : draft[o] # None /\ o.product = p}

(* Its statement is done: the new row version is in the index. *)
Entered(o) == pc[o] = "sequence"

(* The transactions whose end decides who holds code c: those that entered  *)
(* it and those that wrote the row of a holder.                            *)
Contenders(o, c) ==
    {t \in Ops \ {o} :
        \/ Entered(t) /\ ~draft[t].deleted /\ draft[t].code = c
        \/ draft[t] # None /\ t.product \in Holders(catalog, c) \ {o.product}}

(* Row p is visible to account a and active. *)
Active(p, a) == catalog[p] # None /\ catalog[p].owner = a /\ ~catalog[p].deleted

EditMatches(o) == Active(o.product, o.account) /\ catalog[o.product].version = o.base
DeleteMatches(o) == Active(o.product, o.account) /\ catalog[o.product].version >= o.base

(* The transactions o waits for now: for its row, then for its index entry. *)
WaitsFor(o) ==
    IF \/ pc[o] = "insert"
       \/ pc[o] = "update" /\ EditMatches(o)
       \/ pc[o] = "delete" /\ DeleteMatches(o)
    THEN Writers(o.product)
    ELSE IF pc[o] = "index" /\ draft[o].code # None THEN Contenders(o, draft[o].code)
    ELSE {}

(* o waits in a circle. *)
InCycle(o) ==
    /\ WaitsFor(o) # {}
    /\ LET waiting == {t \in Ops : WaitsFor(t) # {}} IN
       \E S \in SUBSET waiting :
            /\ o \in S
            /\ \A t \in S : WaitsFor(t) \cap S # {}
            /\ \A t \in S : \E u \in S : t \in WaitsFor(u)
-----------------------------------------------------------------------------
(* The statements of a transaction. *)

(* The rest of the transaction will store that o is rejected. *)
Reject(o, reason) ==
    /\ pc' = [pc EXCEPT ![o] = "finalize"]
    /\ verdict' = [verdict EXCEPT ![o] = [reason |-> reason, owner |-> None]]
    /\ UNCHANGED <<tables, draft>>

Goto(o, step) ==
    /\ pc' = [pc EXCEPT ![o] = step]
    /\ UNCHANGED <<tables, draft, verdict>>

(* A decided operation is replayed, which changes nothing. *)
Begin(o) ==
    /\ pc[o] = "idle"
    /\ outcomes[o] = None
    /\ Goto(o, IF o.kind = "upsert" THEN "lookup" ELSE "delete")

(* applyProductUpsert decides on a row it reads without a lock. *)
Lookup(o) ==
    LET row == catalog[o.product] IN
    /\ pc[o] = "lookup"
    /\ IF row = None
       THEN IF o.base = 0 THEN Goto(o, "insert") ELSE Reject(o, "invalid_base_version")
       ELSE IF row.owner # o.account THEN Reject(o, "ownership_violation")
       ELSE IF row.deleted THEN Reject(o, "product_deleted")
       ELSE IF o.base = 0 THEN Reject(o, "invalid_base_version")
       ELSE Goto(o, "update")

(* The statement wrote row version `row` and holds it from now on. *)
Write(o, row, step) ==
    /\ draft' = [draft EXCEPT ![o] = row]
    /\ pc' = [pc EXCEPT ![o] = step]
    /\ UNCHANGED <<tables, verdict>>

(* The transaction ends without a trace. *)
Rollback(o) ==
    /\ pc' = [pc EXCEPT ![o] = "idle"]
    /\ draft' = [draft EXCEPT ![o] = None]
    /\ verdict' = [verdict EXCEPT ![o] = None]
    /\ UNCHANGED tables

(* Fault: the version is left to a default the table does not have.        *)
InsertUnversioned(o) ==
    /\ pc[o] = "insert"
    /\ Writers(o.product) = {}
    /\ IF catalog[o.product] # None THEN Write(o, None, "failed")
       ELSE Write(o, [owner |-> o.account, deleted |-> FALSE, code |-> o.code], "index")

(* The statement fails: PostgreSQL releases what it locked, and no later    *)
(* statement of the transaction succeeds.                                  *)
Break(o) == Write(o, None, "failed")

(* A committed row of the same id violates products_pkey. *)
InsertProduct(o) ==
    /\ pc[o] = "insert"
    /\ Writers(o.product) = {}
    /\ IF catalog[o.product] # None THEN Break(o)
       ELSE Write(o, [owner |-> o.account, version |-> 1, deleted |-> FALSE, code |-> o.code],
                  "index")

UpdateProduct(o) ==
    /\ pc[o] = "update"
    /\ IF ~EditMatches(o) THEN Goto(o, "classify")
       ELSE /\ Writers(o.product) = {}
            /\ Write(o, [catalog[o.product] EXCEPT !.version = @ + 1, !.code = o.code], "index")

(* A tombstone needs no entry in the index. *)
SoftDeleteProduct(o) ==
    /\ pc[o] = "delete"
    /\ IF o.base = 0 THEN Reject(o, "invalid_base_version")
       ELSE IF ~DeleteMatches(o) THEN Goto(o, "classify")
       ELSE /\ Writers(o.product) = {}
            /\ Write(o, [catalog[o.product] EXCEPT !.version = @ + 1, !.deleted = TRUE],
                     "sequence")

(* classifyProductMutationMiss reads why nothing matched. *)
Classify(o) ==
    LET row == catalog[o.product] IN
    /\ pc[o] = "classify"
    /\ Reject(o, IF row = None THEN "product_not_found"
                 ELSE IF row.owner # o.account THEN "ownership_violation"
                 ELSE IF row.deleted THEN "product_deleted"
                 ELSE "version_conflict")

(* Fault: the entry of a transaction in progress counts as a collision. *)
ClaimImpatiently(o) ==
    LET c == draft[o].code IN
    /\ pc[o] = "index"
    /\ Goto(o, IF c = None \/ (Contenders(o, c) = {} /\ Holders(catalog, c) \ {o.product} = {})
               THEN "sequence" ELSE "violated")

(* Fault: only committed rows are looked at. *)
ClaimCommitted(o) ==
    LET c == draft[o].code IN
    /\ pc[o] = "index"
    /\ Goto(o, IF c = None \/ Holders(catalog, c) \ {o.product} = {}
               THEN "sequence" ELSE "violated")

(* The new row version enters the index, if nobody else holds its barcode;  *)
(* a transaction that may give it up, or keep it, is waited for.           *)
ClaimBarcode(o) ==
    LET c == draft[o].code IN
    /\ pc[o] = "index"
    /\ c # None => Contenders(o, c) = {}
    /\ Goto(o, IF c = None \/ Holders(catalog, c) \ {o.product} = {}
               THEN "sequence" ELSE "violated")

(* Fault: the mutation is not rolled back. *)
ReleaseSavepoint(o) ==
    /\ pc[o] = "violated"
    /\ Goto(o, "attach")

(* runProductMutationWithBarcodeRecovery: the mutation is undone, with the  *)
(* row lock it took, and the transaction goes on.                          *)
RollbackToSavepoint(o) ==
    /\ pc[o] = "violated"
    /\ Write(o, None, "attach")

(* attachCanonicalBarcodeProductState: a fresh read of the owner, within    *)
(* the account.  There is none if another account holds the code, or if it  *)
(* was given up meanwhile.                                                 *)
AttachOwner(o) ==
    LET mine == {q \in Holders(catalog, o.code) : catalog[q].owner = o.account} IN
    /\ pc[o] = "attach"
    /\ \E owner \in (IF mine = {} THEN {None} ELSE mine) :
            verdict' = [verdict EXCEPT ![o] = [reason |-> "barcode_conflict", owner |-> owner]]
    /\ pc' = [pc EXCEPT ![o] = "finalize"]
    /\ UNCHANGED <<tables, draft>>

(* The sequence is taken, the change and the outcome are stored, and all    *)
(* that was written becomes visible.                                       *)
CommitApplied(o) ==
    /\ pc[o] = "sequence"
    /\ catalog' = [catalog EXCEPT ![o.product] = draft[o]]
    /\ feed' = Append(feed, [op |-> o, row |-> draft[o]])
    /\ outcomes' = [outcomes EXCEPT ![o] = [reason |-> "applied", owner |-> None]]
    /\ pc' = [pc EXCEPT ![o] = "idle"]
    /\ draft' = [draft EXCEPT ![o] = None]
    /\ UNCHANGED verdict

(* Of a rejected operation nothing is left to become visible but that.     *)
CommitRejected(o) ==
    /\ pc[o] = "finalize"
    /\ catalog' = IF draft[o] = None THEN catalog ELSE [catalog EXCEPT ![o.product] = draft[o]]
    /\ outcomes' = [outcomes EXCEPT ![o] = verdict[o]]
    /\ pc' = [pc EXCEPT ![o] = "idle"]
    /\ draft' = [draft EXCEPT ![o] = None]
    /\ verdict' = [verdict EXCEPT ![o] = None]
    /\ UNCHANGED feed

(* A statement, the connection or the handler fails. *)
Abort(o) == pc[o] # "idle" /\ Rollback(o)

(* PostgreSQL fails a statement that has waited in a circle for             *)
(* deadlock_timeout.                                                       *)
DetectDeadlock(o) == InCycle(o) /\ Break(o)

(* Fault: the recovery swallows any error and tries the mutation again,     *)
(* although the savepoint is rolled back to for a collision only.          *)
RetryMutation(o) ==
    /\ pc[o] = "failed"
    /\ Break(o)

(* runProductMutationWithBarcodeRecovery recovers from nothing but a        *)
(* collision: any other error ends the transaction, nothing is stored, and  *)
(* the operation is answered with internal_error.                          *)
ReturnError(o) ==
    /\ pc[o] = "failed"
    /\ Rollback(o)
-----------------------------------------------------------------------------
Statement(o) ==
    \/ Lookup(o) \/ InsertProduct(o) \/ UpdateProduct(o) \/ SoftDeleteProduct(o)
    \/ Classify(o) \/ ClaimBarcode(o) \/ RollbackToSavepoint(o) \/ AttachOwner(o)
    \/ ReturnError(o) \/ CommitApplied(o) \/ CommitRejected(o)

Next == \E o \in Ops : Begin(o) \/ Statement(o) \/ DetectDeadlock(o) \/ Abort(o)

Spec == Init /\ [][Next]_vars

(* Waiters of a lock are served in turn, and a handler does not just stop.  *)
FairSpec ==
    Spec /\ \A o \in Ops : SF_vars(Statement(o)) /\ WF_vars(DetectDeadlock(o))
-----------------------------------------------------------------------------
(* PROPERTIES *)

(* The products table that the first n changes of the feed leave. *)
After(n) ==
    [p \in Products |->
        LET changes == {s \in 1..n : feed[s].op.product = p} IN
        IF changes = {} THEN Opening[p]
        ELSE feed[CHOOSE s \in changes : \A k \in changes : k <= s].row]

(* The feed never shows two active products with one barcode, at no point   *)
(* of it (products_active_barcode_uq).  A unique index of a replica would   *)
(* have nothing to refuse if the replica applied it change by change;       *)
(* ReplicaSync shows what one does that reconciles ahead of its cursor.    *)
OneOwner ==
    \A n \in 0..Len(feed) :
        LET table == After(n) IN
        \A c \in Codes, p, q \in Products :
            p \in Holders(table, c) /\ q \in Holders(table, c) => p = q

(* The products table is what the feed says: the mutation of a collision    *)
(* leaves nothing behind although its transaction commits.                 *)
CatalogIsFeedTail == catalog = After(Len(feed))

(* A stored collision had a real one behind it: some committed state had    *)
(* another product with that barcode.  And an owner that server_state       *)
(* shows held the barcode, in the account of the operation.                *)
ConflictsHadAnOwner ==
    \A o \in Ops :
        outcomes[o] # None /\ outcomes[o].reason = "barcode_conflict" =>
            /\ \E n \in 0..Len(feed) : Holders(After(n), o.code) \ {o.product} # {}
            /\ outcomes[o].owner # None =>
                \E n \in 0..Len(feed) :
                    /\ outcomes[o].owner \in Holders(After(n), o.code)
                    /\ After(n)[outcomes[o].owner].owner = o.account

(* Every transaction ends, also when edits that swap their barcodes wait    *)
(* for each other: the error of the one that PostgreSQL fails is not        *)
(* recovered from like a collision (runProductMutationWithBarcodeRecovery). *)
EveryDeliveryEnds == \A o \in Ops : pc[o] # "idle" ~> pc[o] = "idle"
=============================================================================
