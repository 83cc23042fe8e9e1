-------------------------- MODULE SyncTransactions --------------------------
(***************************************************************************)
(* The server side of POST /v1/sync and GET /v1/sync/snapshot at the grain *)
(* of SQL statements.  Every delivered operation runs in a PostgreSQL      *)
(* READ COMMITTED transaction of its own (server/internal/sync): it        *)
(* reserves the idempotency key, applies the domain mutation under row     *)
(* locks, takes the next change sequence from the singleton counter row,   *)
(* stores its outcome and commits.  Any number of them run at once, the    *)
(* same operation can be delivered any number of times, and a transaction  *)
(* can abort at every step.  Replicas read the change feed, or a           *)
(* multi-statement REPEATABLE READ snapshot, meanwhile.                    *)
(*                                                                         *)
(* Abstracted: the payload of a product is its version and tombstone, the  *)
(* payload of a movement its delta.  Stocktakes and reversals are the      *)
(* matter of StockLedger; barcodes are left out.                           *)
(***************************************************************************)
EXTENDS Integers, FiniteSets

CONSTANTS
    Accounts,   \* user accounts
    Products,   \* product ids
    Ops,        \* the operations that can be delivered, see Operation
    Workers,    \* request handlers, each running one transaction at a time
    Readers,    \* client replicas that bootstrap and pull
    AccountOf,  \* the account of each replica
    PageLimit,  \* max_changes of a pull
    None        \* no lock holder, no row, no job, no outcome yet

(* An operation stands for its idempotency key (device_id, op_id) together *)
(* with the payload; base 0 is an omitted or zero base_version.            *)
Operation ==
    [id : Nat, account : Accounts, kind : {"upsert", "delete", "move"},
     product : Products, base : Nat, delta : Int]

(* A products row joined with its product_balances row. *)
Row == [owner : Accounts, version : Nat, deleted : BOOLEAN, qty : Int]

Rejections ==
    {"invalid_base_version", "ownership_violation", "product_deleted",
     "product_not_found", "version_conflict"}
Verdicts == Rejections \cup {"applied"}

(* A sync_ops row: the verdict and, for an applied operation, its sequence. *)
Outcome == [verdict : Verdicts, seq : Nat]

(* A change_log row: seq, the operation behind it, the row image it leaves. *)
Change == [seq : Nat, op : Ops, row : Row]

ASSUME OpsAssumption == Ops \subseteq Operation
ASSUME ReaderAssumption == AccountOf \in [Readers -> Accounts]
ASSUME LimitAssumption == PageLimit \in Nat \ {0}
ASSUME NoneAssumption ==
    /\ None \notin Workers
    /\ None \notin Ops
    /\ None \notin Row
    /\ None \notin Outcome
    /\ None \notin Verdicts

VARIABLES
    \* committed tables
    catalog,    \* products: a Row or None for each product id
    outcomes,   \* sync_ops: an Outcome or None for each operation
    changeLog,  \* change_log: the set of its rows
    lastSeq,    \* sync_seq_counter.last_seq
    \* locks held by open transactions
    keyLock,    \* holder of the uncommitted sync_ops row of each operation
    rowLock,    \* holder of each products row (or of its uncommitted insert)
    seqLock,    \* holder of the sync_seq_counter row
    \* the open transaction of each worker
    pc, job,
    lookup,     \* the products row its unlocked read returned
    draft,      \* the row it will publish
    verdict,    \* the outcome it will store
    seq,        \* the sequence it allocated, 0 when none
    \* replicas
    phase,      \* new, snapshot (a snapshot transaction is open) or ready
    view,       \* the committed state its snapshot transaction sees
    cursor,
    held        \* sequences of the changes whose effect the replica contains

tables == <<catalog, outcomes, changeLog, lastSeq>>
locks == <<keyLock, rowLock, seqLock>>
txn == <<pc, job, lookup, draft, verdict, seq>>
replicas == <<phase, view, cursor, held>>
vars == <<tables, locks, txn, replicas>>

Steps == {"idle", "reserve", "lookup", "mutate", "classify", "doomed", "sequence", "finalize"}

TypeOK ==
    /\ catalog \in [Products -> Row \cup {None}]
    /\ outcomes \in [Ops -> Outcome \cup {None}]
    /\ changeLog \subseteq Change
    /\ lastSeq \in Nat
    /\ keyLock \in [Ops -> Workers \cup {None}]
    /\ rowLock \in [Products -> Workers \cup {None}]
    /\ seqLock \in Workers \cup {None}
    /\ pc \in [Workers -> Steps]
    /\ job \in [Workers -> Ops \cup {None}]
    /\ lookup \in [Workers -> Row \cup {None}]
    /\ draft \in [Workers -> Row \cup {None}]
    /\ verdict \in [Workers -> Verdicts]
    /\ seq \in [Workers -> Nat]
    /\ phase \in [Readers -> {"new", "snapshot", "ready"}]
    /\ view \in [Readers -> [changes : SUBSET Change, last : Nat]]
    /\ cursor \in [Readers -> Nat]
    /\ held \in [Readers -> SUBSET Nat]

NoView == [changes |-> {}, last |-> 0]

Init ==
    /\ catalog = [p \in Products |-> None]
    /\ outcomes = [o \in Ops |-> None]
    /\ changeLog = {}
    /\ lastSeq = 0
    /\ keyLock = [o \in Ops |-> None]
    /\ rowLock = [p \in Products |-> None]
    /\ seqLock = None
    /\ pc = [w \in Workers |-> "idle"]
    /\ job = [w \in Workers |-> None]
    /\ lookup = [w \in Workers |-> None]
    /\ draft = [w \in Workers |-> None]
    /\ verdict = [w \in Workers |-> "applied"]
    /\ seq = [w \in Workers |-> 0]
    /\ phase = [r \in Readers |-> "new"]
    /\ view = [r \in Readers |-> NoView]
    /\ cursor = [r \in Readers |-> 0]
    /\ held = [r \in Readers |-> {}]
-----------------------------------------------------------------------------
(* Transaction plumbing. *)

(* Worker w has nothing open any more: locals are dropped with the frame. *)
Reset(w) ==
    /\ pc' = [pc EXCEPT ![w] = "idle"]
    /\ job' = [job EXCEPT ![w] = None]
    /\ lookup' = [lookup EXCEPT ![w] = None]
    /\ draft' = [draft EXCEPT ![w] = None]
    /\ verdict' = [verdict EXCEPT ![w] = "applied"]
    /\ seq' = [seq EXCEPT ![w] = 0]

(* Commit and rollback alike release every lock of the transaction. *)
Release(w) ==
    /\ keyLock' = [o \in Ops |-> IF keyLock[o] = w THEN None ELSE keyLock[o]]
    /\ rowLock' = [p \in Products |-> IF rowLock[p] = w THEN None ELSE rowLock[p]]
    /\ seqLock' = IF seqLock = w THEN None ELSE seqLock

(* A domain check failed: nothing is drafted, the rejection is stored. *)
Reject(w, reason) ==
    /\ reason \in Rejections
    /\ pc' = [pc EXCEPT ![w] = "finalize"]
    /\ verdict' = [verdict EXCEPT ![w] = reason]
    /\ UNCHANGED <<tables, locks, job, lookup, draft, seq, replicas>>

(* The statement changed row p: w owns its lock until it commits or aborts. *)
Write(w, p, row) ==
    /\ rowLock[p] = None
    /\ rowLock' = [rowLock EXCEPT ![p] = w]
    /\ draft' = [draft EXCEPT ![w] = row]
    /\ pc' = [pc EXCEPT ![w] = "sequence"]
    /\ UNCHANGED <<tables, keyLock, seqLock, job, lookup, verdict, seq, replicas>>

(* The statement matched no row: the reason is read by a later statement. *)
Miss(w) ==
    /\ pc' = [pc EXCEPT ![w] = "classify"]
    /\ UNCHANGED <<tables, locks, job, lookup, draft, verdict, seq, replicas>>

(* Row p is there and visible to account a. *)
Active(p, a) ==
    /\ catalog[p] # None
    /\ catalog[p].owner = a
    /\ ~catalog[p].deleted
-----------------------------------------------------------------------------
(* The steps of one operation's transaction. *)

(* A request delivers o, for the first time or again. *)
Begin(w, o) ==
    /\ pc[w] = "idle"
    /\ pc' = [pc EXCEPT ![w] = "reserve"]
    /\ job' = [job EXCEPT ![w] = o]
    /\ UNCHANGED <<tables, locks, lookup, draft, verdict, seq, replicas>>

(* Fault: a committed outcome is not looked for. *)
ReserveAgain(w) ==
    LET o == job[w] IN
    /\ pc[w] = "reserve"
    /\ keyLock[o] = None
    /\ keyLock' = [keyLock EXCEPT ![o] = w]
    /\ pc' = [pc EXCEPT ![w] = IF o.kind = "upsert" THEN "lookup" ELSE "mutate"]
    /\ UNCHANGED <<tables, rowLock, seqLock, job, lookup, draft, verdict, seq, replicas>>

(* INSERT ... ON CONFLICT DO NOTHING waits for an uncommitted row of the   *)
(* same key.  It conflicts with a committed one, whose outcome is replayed. *)
Reserve(w) ==
    LET o == job[w] IN
    /\ pc[w] = "reserve"
    /\ keyLock[o] = None
    /\ IF outcomes[o] # None
       THEN Reset(w) /\ UNCHANGED <<tables, locks, replicas>>
       ELSE /\ keyLock' = [keyLock EXCEPT ![o] = w]
            /\ pc' = [pc EXCEPT ![w] = IF o.kind = "upsert" THEN "lookup" ELSE "mutate"]
            /\ UNCHANGED <<tables, rowLock, seqLock, job, lookup, draft, verdict, seq, replicas>>

(* applyProductUpsert reads the row without a lock and decides on it. *)
Lookup(w) ==
    LET o == job[w]
        row == catalog[o.product]
    IN
    /\ pc[w] = "lookup"
    /\ \/ row = None /\ o.base # 0 /\ Reject(w, "invalid_base_version")
       \/ row # None /\ row.owner # o.account /\ Reject(w, "ownership_violation")
       \/ row # None /\ row.owner = o.account /\ row.deleted /\ Reject(w, "product_deleted")
       \/ Active(o.product, o.account) /\ o.base = 0 /\ Reject(w, "invalid_base_version")
       \/ /\ \/ row = None /\ o.base = 0
             \/ Active(o.product, o.account) /\ o.base # 0
          /\ pc' = [pc EXCEPT ![w] = "mutate"]
          /\ lookup' = [lookup EXCEPT ![w] = row]
          /\ UNCHANGED <<tables, locks, job, draft, verdict, seq, replicas>>

(* Fault: the product is inserted without its balance row. *)
CreateWithoutBalance(w) ==
    LET o == job[w]
        p == o.product
    IN
    /\ pc[w] = "mutate"
    /\ o.kind = "upsert" /\ lookup[w] = None
    /\ catalog[p] = None
    /\ Write(w, p, [owner |-> o.account, version |-> 1, deleted |-> FALSE])

(* INSERT waits for an uncommitted insert of the same id; a committed one  *)
(* violates products_pkey, which aborts the transaction: the error is      *)
(* reported as a rejection, but no later statement can store it.           *)
CreateProduct(w) ==
    LET o == job[w]
        p == o.product
    IN
    /\ pc[w] = "mutate"
    /\ o.kind = "upsert" /\ lookup[w] = None
    /\ rowLock[p] = None
    /\ IF catalog[p] = None
       THEN Write(w, p, [owner |-> o.account, version |-> 1, deleted |-> FALSE, qty |-> 0])
       ELSE /\ pc' = [pc EXCEPT ![w] = "doomed"]
            /\ UNCHANGED <<tables, locks, job, lookup, draft, verdict, seq, replicas>>

(* The WHERE clause of the edit. *)
EditMatches(o) == Active(o.product, o.account) /\ catalog[o.product].version = o.base

(* Fault: the version is compared with, and the edit written over, the row  *)
(* read before the lock was taken.                                         *)
UpdateFromLookup(w) ==
    LET o == job[w]
        p == o.product
    IN
    /\ pc[w] = "mutate"
    /\ o.kind = "upsert" /\ lookup[w] # None
    /\ IF lookup[w].version = o.base
       THEN Write(w, p, [lookup[w] EXCEPT !.version = @ + 1])
       ELSE Miss(w)

(* UPDATE ... WHERE version = base AND deleted_at IS NULL.  A row that     *)
(* matches and is locked is waited for and then checked again.             *)
UpdateProduct(w) ==
    LET o == job[w]
        p == o.product
    IN
    /\ pc[w] = "mutate"
    /\ o.kind = "upsert" /\ lookup[w] # None
    /\ IF EditMatches(o)
       THEN Write(w, p, [catalog[p] EXCEPT !.version = @ + 1])
       ELSE Miss(w)

(* The WHERE clause of the delete: an older base version is enough. *)
DeleteMatches(o) == Active(o.product, o.account) /\ catalog[o.product].version >= o.base

SoftDeleteProduct(w) ==
    LET o == job[w]
        p == o.product
    IN
    /\ pc[w] = "mutate"
    /\ o.kind = "delete"
    /\ IF o.base = 0 THEN Reject(w, "invalid_base_version")
       ELSE IF DeleteMatches(o)
       THEN Write(w, p, [catalog[p] EXCEPT !.version = @ + 1, !.deleted = TRUE])
       ELSE Miss(w)

(* The sequence an UPDATE of the counter row returns. *)
NextSeq == lastSeq + 1

(* Fault: a movement takes its sequence before it locks the product.       *)
AppendMovementAfterSequence(w) ==
    LET o == job[w]
        p == o.product
    IN
    /\ pc[w] = "mutate"
    /\ o.kind = "move"
    /\ IF seqLock # w
       THEN /\ seqLock = None
            /\ seqLock' = w
            /\ seq' = [seq EXCEPT ![w] = NextSeq]
            /\ UNCHANGED <<pc, rowLock, draft>>
       ELSE /\ rowLock[p] = None
            /\ IF Active(p, o.account)
               THEN /\ rowLock' = [rowLock EXCEPT ![p] = w]
                    /\ draft' = [draft EXCEPT ![w] = [catalog[p] EXCEPT !.qty = @ + o.delta]]
                    /\ pc' = [pc EXCEPT ![w] = "finalize"]
               ELSE /\ pc' = [pc EXCEPT ![w] = "classify"]
                    /\ UNCHANGED <<rowLock, draft>>
            /\ UNCHANGED <<seqLock, seq>>
    /\ UNCHANGED <<tables, keyLock, job, lookup, verdict, replicas>>

(* SELECT ... FOR UPDATE of the active product, insert of the movement and *)
(* increment of the balance under the lock.                                *)
AppendMovement(w) ==
    LET o == job[w]
        p == o.product
    IN
    /\ pc[w] = "mutate"
    /\ o.kind = "move"
    /\ IF Active(p, o.account)
       THEN Write(w, p, [catalog[p] EXCEPT !.qty = @ + o.delta])
       ELSE Miss(w)

(* classifyProductMutationMiss and classifyProductMiss: a fresh read says  *)
(* why nothing matched; an active row is stale for a product operation and *)
(* not found for a movement.                                               *)
Classify(w) ==
    LET o == job[w]
        row == catalog[o.product]
    IN
    /\ pc[w] = "classify"
    /\ \/ row = None /\ Reject(w, "product_not_found")
       \/ row # None /\ row.owner # o.account /\ Reject(w, "ownership_violation")
       \/ row # None /\ row.owner = o.account /\ row.deleted /\ Reject(w, "product_deleted")
       \/ Active(o.product, o.account) /\ o.kind # "move" /\ Reject(w, "version_conflict")
       \/ Active(o.product, o.account) /\ o.kind = "move" /\ Reject(w, "product_not_found")

(* Fault: a database sequence, neither locked nor rolled back. *)
AllocateFromSequence(w) ==
    /\ pc[w] = "sequence"
    /\ seq' = [seq EXCEPT ![w] = NextSeq]
    /\ lastSeq' = NextSeq
    /\ pc' = [pc EXCEPT ![w] = "finalize"]
    /\ UNCHANGED <<catalog, outcomes, changeLog, locks, job, lookup, draft, verdict, replicas>>

(* UPDATE sync_seq_counter waits for the counter row and keeps it locked. *)
AllocateSequence(w) ==
    /\ pc[w] = "sequence"
    /\ seqLock = None
    /\ seqLock' = w
    /\ seq' = [seq EXCEPT ![w] = NextSeq]
    /\ pc' = [pc EXCEPT ![w] = "finalize"]
    /\ UNCHANGED <<tables, keyLock, rowLock, job, lookup, draft, verdict, replicas>>

(* Fault: a movement commits without its balance update. *)
CommitWithoutBalance(w) ==
    LET o == job[w]
        n == seq[w]
    IN
    /\ pc[w] = "finalize"
    /\ outcomes' = [outcomes EXCEPT ![o] = [verdict |-> verdict[w], seq |-> n]]
    /\ IF verdict[w] = "applied"
       THEN /\ catalog' = IF o.kind = "move" THEN catalog
                          ELSE [catalog EXCEPT ![o.product] = draft[w]]
            /\ changeLog' = changeLog \cup {[seq |-> n, op |-> o, row |-> draft[w]]}
            /\ lastSeq' = n
       ELSE UNCHANGED <<catalog, changeLog, lastSeq>>
    /\ Release(w)
    /\ Reset(w)
    /\ UNCHANGED replicas

(* The outcome is stored and the transaction commits: row, balance, change *)
(* log entry, counter and outcome become visible in one step.              *)
Commit(w) ==
    LET o == job[w]
        n == seq[w]
    IN
    /\ pc[w] = "finalize"
    /\ outcomes' = [outcomes EXCEPT ![o] = [verdict |-> verdict[w], seq |-> n]]
    /\ IF verdict[w] = "applied"
       THEN /\ catalog' = [catalog EXCEPT ![o.product] = draft[w]]
            /\ changeLog' = changeLog \cup {[seq |-> n, op |-> o, row |-> draft[w]]}
            /\ lastSeq' = n
       ELSE UNCHANGED <<catalog, changeLog, lastSeq>>
    /\ Release(w)
    /\ Reset(w)
    /\ UNCHANGED replicas

(* WithTxResult rolls everything back when a statement failed. *)
Rollback(w) ==
    /\ Release(w)
    /\ Reset(w)
    /\ UNCHANGED <<tables, replicas>>

(* The transaction that violated products_pkey cannot store its rejection. *)
Fail(w) == pc[w] = "doomed" /\ Rollback(w)

(* An error, a cancelled request or a crash, at any statement. *)
Abort(w) == pc[w] # "idle" /\ Rollback(w)
-----------------------------------------------------------------------------
(* Replicas. *)

(* The first statement of GetSnapshot fixes what the transaction sees. *)
SnapshotOpen(r) ==
    /\ phase[r] = "new"
    /\ phase' = [phase EXCEPT ![r] = "snapshot"]
    /\ view' = [view EXCEPT ![r] = [changes |-> changeLog, last |-> lastSeq]]
    /\ UNCHANGED <<tables, locks, txn, cursor, held>>

(* Fault: the counter is read outside the snapshot. *)
SnapshotReadLate(r) ==
    /\ phase[r] = "snapshot"
    /\ phase' = [phase EXCEPT ![r] = "ready"]
    /\ held' = [held EXCEPT ![r] =
            {c.seq : c \in {x \in view[r].changes : x.op.account = AccountOf[r]}}]
    /\ cursor' = [cursor EXCEPT ![r] = lastSeq]
    /\ view' = [view EXCEPT ![r] = NoView]
    /\ UNCHANGED <<tables, locks, txn>>

(* Its later statements read rows, balances and the counter from that view. *)
SnapshotRead(r) ==
    /\ phase[r] = "snapshot"
    /\ phase' = [phase EXCEPT ![r] = "ready"]
    /\ held' = [held EXCEPT ![r] =
            {c.seq : c \in {x \in view[r].changes : x.op.account = AccountOf[r]}}]
    /\ cursor' = [cursor EXCEPT ![r] = view[r].last]
    /\ view' = [view EXCEPT ![r] = NoView]
    /\ UNCHANGED <<tables, locks, txn>>

(* The sequences of account a's changes that lie above n. *)
After(a, n) == {c.seq : c \in {x \in changeLog : x.op.account = a /\ x.seq > n}}

(* ORDER BY seq LIMIT: the page ends at the PageLimit-th of them, or at the *)
(* last one.                                                               *)
PageEnd(S, n) ==
    /\ n \in S
    /\ LET page == {s \in S : s <= n} IN
       Cardinality(page) = PageLimit \/ (Cardinality(page) < PageLimit /\ page = S)

(* Fault: a truncated page moves the cursor to the end of the feed. *)
PullToEnd(r) ==
    LET S == After(AccountOf[r], cursor[r]) IN
    /\ phase[r] = "ready"
    /\ \E n \in S :
        /\ PageEnd(S, n)
        /\ cursor' = [cursor EXCEPT ![r] = lastSeq]
        /\ held' = [held EXCEPT ![r] = @ \cup {s \in S : s <= n}]
    /\ UNCHANGED <<tables, locks, txn, phase, view>>

(* One pull: the page is applied and next_cursor stored in one step. *)
Pull(r) ==
    LET S == After(AccountOf[r], cursor[r]) IN
    /\ phase[r] = "ready"
    /\ \E n \in S :
        /\ PageEnd(S, n)
        /\ cursor' = [cursor EXCEPT ![r] = n]
        /\ held' = [held EXCEPT ![r] = @ \cup {s \in S : s <= n}]
    /\ UNCHANGED <<tables, locks, txn, phase, view>>
-----------------------------------------------------------------------------
Worker(w) ==
    \/ Reserve(w) \/ Lookup(w) \/ CreateProduct(w) \/ UpdateProduct(w)
    \/ SoftDeleteProduct(w) \/ AppendMovement(w) \/ Classify(w)
    \/ AllocateSequence(w) \/ Commit(w) \/ Fail(w)

Next ==
    \/ \E w \in Workers, o \in Ops : Begin(w, o)
    \/ \E w \in Workers : Worker(w)
    \/ \E w \in Workers : Abort(w)
    \/ \E r \in Readers : SnapshotOpen(r) \/ SnapshotRead(r) \/ Pull(r)

Spec == Init /\ [][Next]_vars

(* PostgreSQL queues the waiters of a lock, so a worker whose lock becomes  *)
(* free again and again gets it; a running handler does not just stop.     *)
FairSpec == Spec /\ \A w \in Workers : SF_vars(Worker(w))
-----------------------------------------------------------------------------
(* Properties. *)

(* The row image of the last of the changes S. *)
LastRow(S) == IF S = {} THEN None ELSE (CHOOSE c \in S : \A d \in S : d.seq <= c.seq).row

(* The row the changes L leave product p in, up to sequence n. *)
RowAt(L, p, n) == LastRow({c \in L : c.op.product = p /\ c.seq <= n})

(* What an accepted operation does to the row it found, when it may.       *)
Effect(o, row) ==
    CASE o.kind = "upsert" /\ row = None ->
            [owner |-> o.account, version |-> 1, deleted |-> FALSE, qty |-> 0]
      [] o.kind = "upsert" /\ row # None -> [row EXCEPT !.version = @ + 1]
      [] o.kind = "delete" -> [row EXCEPT !.version = @ + 1, !.deleted = TRUE]
      [] o.kind = "move" -> [row EXCEPT !.qty = @ + o.delta]

(* The row o was accepted on is the one its author meant: an edit only on  *)
(* the version it was based on, a delete on that one or a later one, and   *)
(* nothing on a tombstone or on another account's row.                     *)
Permitted(o, row) ==
    IF row = None THEN o.kind = "upsert" /\ o.base = 0
    ELSE /\ row.owner = o.account
         /\ ~row.deleted
         /\ o.kind = "upsert" => row.version = o.base
         /\ o.kind = "delete" => row.version >= o.base

(* The committed sequences are 1..last_seq, each used by one change: no     *)
(* rollback leaves a gap and no two transactions share a cursor value       *)
(* (AllocateChangeSequence under concurrent transactions).                 *)
FeedIsContiguous ==
    /\ {c.seq : c \in changeLog} = 1..lastSeq
    /\ \A c, d \in changeLog : c.seq = d.seq => c = d

(* A replica holds every change of its account at or below its cursor and   *)
(* nothing else, however snapshot, pulls and commits interleave: no change  *)
(* is ever committed below a cursor already handed out (ListChanges and     *)
(* GetSnapshot against AppendChangeLog).                                   *)
NothingSkipped ==
    \A r \in Readers :
        held[r] = {c.seq : c \in {x \in changeLog :
                        x.op.account = AccountOf[r] /\ x.seq <= cursor[r]}}

(* An operation delivered any number of times, concurrently or after        *)
(* aborts, has one change if it was applied and none otherwise, and its     *)
(* stored outcome names that change (TryInsertSyncOperation and replay).    *)
AppliedExactlyOnce ==
    \A o \in Ops :
        LET mine == {c \in changeLog : c.op = o} IN
        IF outcomes[o] # None /\ outcomes[o].verdict = "applied"
        THEN \E c \in mine : mine = {c} /\ c.seq = outcomes[o].seq
        ELSE mine = {}

(* The feed is a serial history: each change is what its operation does to  *)
(* the row the feed had left there, and was allowed to do it.  An edit lost *)
(* to a concurrent transaction, a movement missing from the balance or a    *)
(* write to a tombstone would break it (row locks against the counter lock).*)
FeedIsSerial ==
    \A c \in changeLog :
        LET before == RowAt(changeLog, c.op.product, c.seq - 1) IN
        /\ Permitted(c.op, before)
        /\ c.row = Effect(c.op, before)

(* The products and product_balances tables are what the feed says: a      *)
(* replica that pulled everything shows the canonical rows (one commit for  *)
(* the domain write and its change log entry).                             *)
CatalogIsFeedTail == \A p \in Products : catalog[p] = RowAt(changeLog, p, lastSeq)

(* A delivered operation is always answered: the locks (key, then row, then *)
(* counter) are taken in one order, so transactions never wait in a circle. *)
EveryDeliveryEnds == \A w \in Workers : pc[w] # "idle" ~> pc[w] = "idle"

(* Refinement mapping: the change log in sequence order, the outcomes       *)
(* without their sequences; open transactions are invisible.               *)
Feed == [n \in 1..lastSeq |-> (CHOOSE c \in changeLog : c.seq = n).op]
Decided == [o \in Ops |-> IF outcomes[o] = None THEN None ELSE outcomes[o].verdict]

Log == INSTANCE OperationLog WITH
    Acceptance <- "applied", NoVerdict <- None, feed <- Feed, decided <- Decided

(* The transactions implement the atomic operation log: an operation is     *)
(* decided once, in the step that commits it.                              *)
ImplementsLog == Log!Spec
=============================================================================
