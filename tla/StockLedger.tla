----------------------------- MODULE StockLedger -----------------------------
(***************************************************************************)
(* The stock ledger of one account and its balance projection, at the      *)
(* grain of SQL statements (server/internal/movements and the statements   *)
(* of server/internal/db): READ COMMITTED transactions append movements,   *)
(* stocktakes and reversals under the lock of the product row, products    *)
(* are deleted meanwhile, and the projection tool (cmd/verify-projections) *)
(* verifies and rebuilds the balances on a connection of its own.          *)
(*                                                                         *)
(* Abstracted: receive, issue and adjust differ in name only and are one   *)
(* kind; notes, raw times and clock offsets are left out.  That an intent  *)
(* is decided at most once is the matter of SyncTransactions.              *)
(***************************************************************************)
EXTENDS Integers, Sequences

CONSTANTS
    Products,   \* products of the account
    Intents,    \* the operations delivered, see Intent
    Workers,    \* request handlers, each with one transaction
    Opening,    \* the movements each product starts with
    MaxDelta,   \* largest delta an int32 holds
    None

(* An intent: a movement, a stocktake, or the deletion of the product.  A  *)
(* movement that names another one in `reverses` is its reversal.          *)
Intent ==
    [id : Nat, product : Products, kind : {"adjust", "stocktake", "delete"},
     delta : Int, counted : Nat, at : Nat, reverses : Nat \cup {None}]

(* A stock_movements row. *)
Movement ==
    [id : Nat, kind : {"adjust", "stocktake"}, delta : Int, counted : Nat, at : Nat,
     reverses : Nat \cup {None}]

Balance == [qty : Int, last : Nat]
Reasons == {"product_deleted", "movement_not_found", "invalid_reversal", "invalid_delta",
            "stocktake_displaced"}

ASSUME IntentsAssumption ==
    /\ Intents \subseteq Intent
    /\ \A i \in Intents : i.kind = "adjust" => i.delta # 0
    /\ \A i \in Intents : i.reverses # None => i.kind = "adjust"
ASSUME DeltaAssumption == MaxDelta \in Nat \ {0}
ASSUME NamesAssumption == "tool" \notin Workers /\ None \notin Workers \cup Reasons \cup {"tool"}
-----------------------------------------------------------------------------
(* Ledgers, as lists of movements. *)

Later(s, t) == IF s > t THEN s ELSE t

(* A balance and one more movement. *)
Increment(b, m) == [qty |-> b.qty + m.delta, last |-> Later(b.last, m.at)]
NoStock == [qty |-> 0, last |-> 0]

(* SUM(delta) and MAX(occurred_at) of a list of movements. *)
LedgerBalance(moves) ==
    LET upTo[n \in 0..Len(moves)] ==
            IF n = 0 THEN NoStock ELSE Increment(upTo[n - 1], moves[n])
    IN  upTo[Len(moves)]

(* Fault: the movement id does not break the tie of equal times. *)
ComesAfterByTime(i, m) == i.at >= m.at

(* stocktakeComesAfter: corrected time first, then the movement id. *)
ComesAfter(i, m) == i.at > m.at \/ (i.at = m.at /\ i.id > m.id)

Stocktakes(moves) == {n \in DOMAIN moves : moves[n].kind = "stocktake"}

(* What a list of movements should be; see the properties. *)
CountsHold(moves) ==
    \A n \in Stocktakes(moves) : LedgerBalance(SubSeq(moves, 1, n)).qty = moves[n].counted
CountsAdvance(moves) ==
    \A n, k \in Stocktakes(moves) :
        n < k => \/ moves[n].at < moves[k].at
                 \/ moves[n].at = moves[k].at /\ moves[n].id < moves[k].id
CorrectionsFollow(moves) ==
    \A n \in DOMAIN moves :
        moves[n].reverses # None => \E k \in 1..(n - 1) : moves[k].id = moves[n].reverses

(* The movements a product starts with were once appended in the same way. *)
ASSUME OpeningAssumption ==
    /\ Opening \in [Products -> Seq(Movement)]
    /\ \A p \in Products :
        CountsHold(Opening[p]) /\ CountsAdvance(Opening[p]) /\ CorrectionsFollow(Opening[p])
-----------------------------------------------------------------------------
VARIABLES
    \* committed tables
    ledger,         \* stock_movements of each product, in the order they committed
    balance,        \* product_balances
    deleted,        \* products.deleted_at is set
    answer,         \* the outcome of each intent, None while undecided
    \* locks of open transactions
    productLock,    \* FOR UPDATE holder of each products row
    balanceLock,    \* holder of each product_balances row, "tool" for the tool
    \* the transaction of each worker
    pc, job,
    row,            \* the movement it inserted
    projected,      \* the balance row it wrote
    \* the projection tool
    tool,           \* the step of the tool, see TypeOK
    sums,           \* what its read of the ledger returned
    report          \* its last report: none, consistent or mismatch

tables == <<ledger, balance, deleted, answer>>
locks == <<productLock, balanceLock>>
txn == <<pc, job, row, projected>>
toolVars == <<tool, sums, report>>
vars == <<tables, locks, txn, toolVars>>

TypeOK ==
    /\ ledger \in [Products -> Seq(Movement)]
    /\ balance \in [Products -> Balance]
    /\ deleted \in [Products -> BOOLEAN]
    /\ answer \in [Intents -> Reasons \cup {"applied", None}]
    /\ productLock \in [Products -> Workers \cup {None}]
    /\ balanceLock \in [Products -> Workers \cup {"tool", None}]
    /\ pc \in [Workers -> {"idle", "locked", "inserted", "counted", "deleting"}]
    /\ job \in [Workers -> Intents \cup {None}]
    /\ row \in [Workers -> Movement \cup {None}]
    /\ projected \in [Workers -> Balance \cup {None}]
    /\ tool \in {"idle", "verify", "mismatch", "rebuild", "rebuilt", "verify again"}
    /\ sums \in [Products -> Balance]
    /\ report \in {"none", "consistent", "mismatch"}

LedgerBalances == [p \in Products |-> LedgerBalance(ledger[p])]

Init ==
    /\ ledger = Opening
    /\ balance = [p \in Products |-> LedgerBalance(Opening[p])]
    /\ deleted = [p \in Products |-> FALSE]
    /\ answer = [i \in Intents |-> None]
    /\ productLock = [p \in Products |-> None]
    /\ balanceLock = [p \in Products |-> None]
    /\ pc = [w \in Workers |-> "idle"]
    /\ job = [w \in Workers |-> None]
    /\ row = [w \in Workers |-> None]
    /\ projected = [w \in Workers |-> None]
    /\ tool = "idle"
    /\ sums = [p \in Products |-> NoStock]
    /\ report = "none"
-----------------------------------------------------------------------------
(* Commit and rollback release the locks and forget the transaction. *)
End(w) ==
    /\ pc' = [pc EXCEPT ![w] = "idle"]
    /\ job' = [job EXCEPT ![w] = None]
    /\ row' = [row EXCEPT ![w] = None]
    /\ projected' = [projected EXCEPT ![w] = None]
    /\ productLock' = [p \in Products |-> IF productLock[p] = w THEN None ELSE productLock[p]]
    /\ balanceLock' = [p \in Products |-> IF balanceLock[p] = w THEN None ELSE balanceLock[p]]

(* An intent nobody has decided or is deciding. *)
Pending(i) == answer[i] = None /\ \A w \in Workers : job[w] # i

(* Fault: the product is read without FOR UPDATE. *)
ReadProduct(w, i) ==
    /\ pc[w] = "idle"
    /\ Pending(i)
    /\ i.kind # "delete"
    /\ ~deleted[i.product]
    /\ job' = [job EXCEPT ![w] = i]
    /\ pc' = [pc EXCEPT ![w] = "locked"]
    /\ UNCHANGED <<tables, locks, row, projected, toolVars>>

(* Neither the SELECT ... FOR UPDATE nor the soft delete finds a tombstone. *)
RejectDeleted(w, i) ==
    /\ pc[w] = "idle"
    /\ Pending(i)
    /\ deleted[i.product]
    /\ answer' = [answer EXCEPT ![i] = "product_deleted"]
    /\ UNCHANGED <<ledger, balance, deleted, locks, txn, toolVars>>

(* SELECT ... FOR UPDATE of the active product. *)
LockProduct(w, i) ==
    /\ pc[w] = "idle"
    /\ Pending(i)
    /\ i.kind # "delete"
    /\ ~deleted[i.product]
    /\ productLock[i.product] = None
    /\ productLock' = [productLock EXCEPT ![i.product] = w]
    /\ job' = [job EXCEPT ![w] = i]
    /\ pc' = [pc EXCEPT ![w] = "locked"]
    /\ UNCHANGED <<tables, balanceLock, row, projected, toolVars>>

(* The soft delete of the product, by its own transaction. *)
DeleteProduct(w, i) ==
    /\ pc[w] = "idle"
    /\ Pending(i)
    /\ i.kind = "delete"
    /\ ~deleted[i.product]
    /\ productLock[i.product] = None
    /\ productLock' = [productLock EXCEPT ![i.product] = w]
    /\ job' = [job EXCEPT ![w] = i]
    /\ pc' = [pc EXCEPT ![w] = "deleting"]
    /\ UNCHANGED <<tables, balanceLock, row, projected, toolVars>>

(* The latest stocktake of the product, and so some stocktake, is not      *)
(* before intent i.                                                        *)
Displaced(i) ==
    LET moves == ledger[i.product] IN \E n \in Stocktakes(moves) : ~ComesAfter(i, moves[n])

(* The products whose ledger holds movement `id`. *)
HomesOf(id) == {p \in Products : \E n \in DOMAIN ledger[p] : ledger[p][n].id = id}

(* Fault: the delta the client computed is kept. *)
DeltaAsSent(i) == i.delta

(* The delta written: a stocktake's is recomputed from the locked ledger.  *)
DeltaOf(i) ==
    IF i.kind = "stocktake" THEN i.counted - LedgerBalance(ledger[i.product]).qty ELSE i.delta

(* A count that changes nothing, or more than an int32 holds. *)
OutOfRange(i) ==
    i.kind = "stocktake" /\ (DeltaOf(i) = 0 \/ DeltaOf(i) \notin (-MaxDelta - 1)..MaxDelta)

(* Fault: the original of a reversal is not compared with the product. *)
RejectionOfAnyHome(i) ==
    IF i.reverses # None /\ HomesOf(i.reverses) = {} THEN "movement_not_found"
    ELSE IF i.kind = "stocktake" /\ Displaced(i) THEN "stocktake_displaced"
    ELSE IF OutOfRange(i) THEN "invalid_delta"
    ELSE None

(* The rejection of intent i, in the order of the checks; None when it has *)
(* none.                                                                   *)
Rejection(i) ==
    IF i.reverses # None /\ HomesOf(i.reverses) = {} THEN "movement_not_found"
    ELSE IF i.reverses # None /\ i.product \notin HomesOf(i.reverses) THEN "invalid_reversal"
    ELSE IF i.kind = "stocktake" /\ Displaced(i) THEN "stocktake_displaced"
    ELSE IF OutOfRange(i) THEN "invalid_delta"
    ELSE None

(* The checks under the lock, then the rejection is committed or the row   *)
(* inserted.                                                               *)
InsertMovement(w) ==
    LET i == job[w]
        reason == Rejection(i)
    IN
    /\ pc[w] = "locked"
    /\ IF reason # None
       THEN /\ answer' = [answer EXCEPT ![i] = reason]
            /\ End(w)
            /\ UNCHANGED <<ledger, balance, deleted, toolVars>>
       ELSE /\ row' = [row EXCEPT ![w] =
                    [id |-> i.id, kind |-> i.kind, delta |-> DeltaOf(i), counted |-> i.counted,
                     at |-> i.at, reverses |-> i.reverses]]
            /\ pc' = [pc EXCEPT ![w] = "inserted"]
            /\ UNCHANGED <<tables, locks, job, projected, toolVars>>

(* Fault: the balance is written outside the transaction. *)
IncrementAtOnce(w) ==
    LET p == job[w].product IN
    /\ pc[w] = "inserted"
    /\ balance' = [balance EXCEPT ![p] = Increment(@, row[w])]
    /\ projected' = [projected EXCEPT ![w] = balance'[p]]
    /\ pc' = [pc EXCEPT ![w] = "counted"]
    /\ UNCHANGED <<ledger, deleted, answer, locks, job, row, toolVars>>

(* Fault: a row without last_movement_at. *)
IncrementWithoutTime(w) ==
    LET p == job[w].product IN
    /\ pc[w] = "inserted"
    /\ balanceLock[p] = None
    /\ balanceLock' = [balanceLock EXCEPT ![p] = w]
    /\ projected' = [projected EXCEPT ![w] = [qty |-> balance[p].qty + row[w].delta]]
    /\ pc' = [pc EXCEPT ![w] = "counted"]
    /\ UNCHANGED <<tables, productLock, job, row, toolVars>>

(* IncrementProductBalance: the row it updates stays locked. *)
IncrementBalance(w) ==
    LET p == job[w].product IN
    /\ pc[w] = "inserted"
    /\ balanceLock[p] = None
    /\ balanceLock' = [balanceLock EXCEPT ![p] = w]
    /\ projected' = [projected EXCEPT ![w] = Increment(balance[p], row[w])]
    /\ pc' = [pc EXCEPT ![w] = "counted"]
    /\ UNCHANGED <<tables, productLock, job, row, toolVars>>

(* Movement, balance and outcome become visible together. *)
CommitMovement(w) ==
    LET i == job[w] IN
    /\ pc[w] = "counted"
    /\ ledger' = [ledger EXCEPT ![i.product] = Append(@, row[w])]
    /\ balance' = [balance EXCEPT ![i.product] = projected[w]]
    /\ answer' = [answer EXCEPT ![i] = "applied"]
    /\ End(w)
    /\ UNCHANGED <<deleted, toolVars>>

CommitDelete(w) ==
    LET i == job[w] IN
    /\ pc[w] = "deleting"
    /\ deleted' = [deleted EXCEPT ![i.product] = TRUE]
    /\ answer' = [answer EXCEPT ![i] = "applied"]
    /\ End(w)
    /\ UNCHANGED <<ledger, balance, toolVars>>

(* Any statement can fail, and a request can be cancelled, at any point.   *)
Rollback(w) ==
    /\ pc[w] # "idle"
    /\ End(w)
    /\ UNCHANGED <<tables, toolVars>>
-----------------------------------------------------------------------------
(* The projection tool. *)

(* VerifyProductBalances: its first statement sums the ledger. *)
VerifyReadLedger ==
    /\ tool \in {"idle", "rebuilt"}
    /\ tool' = IF tool = "idle" THEN "verify" ELSE "verify again"
    /\ sums' = LedgerBalances
    /\ UNCHANGED <<tables, locks, txn, report>>

(* The second one reads the projection, as READ COMMITTED shows it then.   *)
(* With -rebuild the tool goes on when its first report is a mismatch.     *)
VerifyReadBalances ==
    /\ tool \in {"verify", "verify again"}
    /\ report' = IF balance = sums THEN "consistent" ELSE "mismatch"
    /\ \/ tool' = "idle"
       \/ balance # sums /\ tool = "verify" /\ tool' = "mismatch"
    /\ UNCHANGED <<tables, locks, txn, sums>>

(* The INSERT ... SELECT sums the ledger as of its start. *)
RebuildStart ==
    /\ tool = "mismatch"
    /\ tool' = "rebuild"
    /\ sums' = LedgerBalances
    /\ UNCHANGED <<tables, locks, txn, report>>

(* ON CONFLICT DO UPDATE takes the rows one by one and waits for a locked one. *)
RebuildRow(p) ==
    /\ tool = "rebuild"
    /\ balanceLock[p] = None
    /\ balanceLock' = [balanceLock EXCEPT ![p] = "tool"]
    /\ UNCHANGED <<tables, productLock, txn, toolVars>>

RebuildCommit ==
    /\ tool = "rebuild"
    /\ \A p \in Products : balanceLock[p] = "tool"
    /\ balance' = sums
    /\ balanceLock' = [p \in Products |-> None]
    /\ tool' = "rebuilt"
    /\ UNCHANGED <<ledger, deleted, answer, productLock, txn, sums, report>>
-----------------------------------------------------------------------------
Next ==
    \/ \E w \in Workers, i \in Intents :
        RejectDeleted(w, i) \/ LockProduct(w, i) \/ DeleteProduct(w, i)
    \/ \E w \in Workers : InsertMovement(w) \/ IncrementBalance(w) \/ CommitMovement(w)
    \/ \E w \in Workers : CommitDelete(w) \/ Rollback(w)
    \/ VerifyReadLedger \/ VerifyReadBalances \/ RebuildStart \/ RebuildCommit
    \/ \E p \in Products : RebuildRow(p)

Spec == Init /\ [][Next]_vars
-----------------------------------------------------------------------------
(* Properties. *)

(* No step but a rebuild ever moves a balance away from the sum of its      *)
(* product's movements, or its time from their last one: movement and       *)
(* balance share one transaction and concurrent appends take turns at the   *)
(* row (appendInTransactionWithPolicy, IncrementProductBalance).  A rebuild *)
(* may: its sums are read before it has the rows.                          *)
BalanceFollowsLedger ==
    [][\/ tool = "rebuild" /\ tool' = "rebuilt"
       \/ \A p \in Products :
            LET before == LedgerBalance(ledger[p])
                after == LedgerBalance(ledger'[p])
            IN  /\ balance'[p].qty - after.qty = balance[p].qty - before.qty
                /\ balance[p].last = before.last => balance'[p].last = after.last]_vars

(* Right after a stocktake commits the product holds the counted quantity, *)
(* whatever committed between the count and the delivery: no movement slips *)
(* in between the sum and the insert (GetProductForUpdate).                *)
CountHolds == \A p \in Products : CountsHold(ledger[p])

(* Accepted stocktakes are in key order: a count never overrides a later   *)
(* observation, in whatever order they arrive (stocktakeComesAfter).       *)
StocktakesAdvance == \A p \in Products : CountsAdvance(ledger[p])

(* A reversal follows the movement it corrects in the ledger of the same    *)
(* product.                                                                *)
ReversalsFollow == \A p \in Products : CorrectionsFollow(ledger[p])

(* The ledger only grows, and a deleted product neither gains a movement    *)
(* nor comes back, although appends and the delete race for its row.        *)
LedgerAppendOnly ==
    [][\A p \in Products :
        /\ \/ ledger'[p] = ledger[p]
           \/ /\ ~deleted[p]
              /\ \E n \in DOMAIN ledger'[p] : ledger'[p] = Append(ledger[p], ledger'[p][n])
        /\ deleted[p] => deleted'[p]]_vars

(* ADR 0009: two stale stocktakes converge to the same final quantity       *)
(* regardless of arrival order, the count of the greater key.              *)
GreatestCountWins ==
    LET counts == {i \in Intents : i.kind = "stocktake"} IN
    (\A i \in Intents : i.kind = "stocktake" /\ answer[i] # None) =>
        \A i \in counts :
            (\A j \in counts : j.product = i.product => j = i \/ ComesAfter(i, j))
                => LedgerBalance(ledger[i.product]).qty = i.counted
=============================================================================
