# StokSync: formal models, model checking and proofs

StokSync is an offline-first stock keeping system. Phones and tablets (`app/`, Flutter and Drift/SQLite) record product edits and stock movements locally, queue them as operations, and exchange them with a Go server (`server/`, PostgreSQL) that decides each operation once, writes it to a totally ordered change feed and hands out pages of that feed. Everything that is hard about the system follows from that sentence: an operation may be delivered twice or never answered, several devices and several server transactions run at once, the user keeps writing while a synchronization is under way, and the app may be stopped between two local transactions.

This directory contains TLA+ models of that core, TLC configurations that check them on small instances, and TLAPS proofs, for every size, of their safety properties. `PROJECT.json` lists the runs, the source lines behind each definition, the mutations that each property was tested against, the hazards of the code and the findings.

To run everything by hand:

    tlc -config sync_mixed.cfg MCSyncTransactions.tla      # any cfg with its MC module
    tlapm SyncTransactionsProofs.tla                       # any *Proofs module

## 1. Inventory

### Server

| Component | State | Operations | Interacts with | What makes it hard | What makes it correct |
|---|---|---|---|---|---|
| Sync operation transactions (`internal/sync/operations.go`, `service.go`, `handler.go`) | `sync_ops`, `change_log`, `sync_seq_counter` | reserve the idempotency key, apply the domain mutation, allocate a sequence, finalize, replay a stored outcome | products, movements, `db` | READ COMMITTED transactions in parallel, duplicate deliveries, a failure at any statement, lock order | each operation takes effect at most once; feed without gaps, serial; tables, feed and outcomes agree |
| Change feed (`ListChanges`) | reads `change_log` | page after a cursor, cut at `max_changes` | sync handler | commits during the read, page limit | a cursor never passes a change that was not sent |
| Snapshot service (`internal/snapshot`) | reads every domain table and the counter | REPEATABLE READ export | `db/tx.go` | several statements, one cursor | snapshot and cursor describe one committed state |
| Movement ledger (`internal/movements`) | `stock_movements`, `product_balances` | append, stocktake, reverse, rebuild, verify | sync operations, products | stale client deltas, arrival order of stocktakes, reversals, soft deletes in between | balance = sum of the ledger; a count holds when it commits; counts in key order; append-only |
| Projection tool (`cmd/verify-projections`) | none of its own | verify, rebuild, verify again | ledger and balances | runs beside live appends | repairs, never damages |
| Product catalog (`internal/products`) | `products` | create, optimistic update, soft delete, classify a miss | sync operations | decision on an unlocked read, write under a lock | version order, tombstones final |
| Barcode uniqueness | partial unique index, savepoint | claim and release of a barcode | products, sync operations | index waits, deadlock on swapped codes, recovery in a savepoint | one active owner per code, a conflict is a rejection and not a failure |
| Sessions (`internal/auth`) | `refresh_tokens`, `devices`, `users` | register, login, refresh, revoke | clients | one-time tokens, two refreshes at once, lost answers | a token is rotated once, no spurious revocation |
| HTTP wiring, configuration, logging, validation (`httpx`, `cmd/api`, `sync/dto.go`) | none | parse, route | all | nothing concurrent | unit tests |

### Client

| Component | State | Operations | Interacts with | What makes it hard | What makes it correct |
|---|---|---|---|---|---|
| Mutation repositories (`local_mutation_repositories.dart`) | `products`, `stock_movements`, `product_balances`, `pending_ops` | create, update, delete, movement, stocktake, reverse | queue | optimistic rows on predicted versions | domain row and queue row in one transaction |
| Pending operation queue (`PendingOperationDao`) | `pending_ops` | enqueue, claim, recover, retry, release, block, remove | engine, reconciler | app stop while rows are inflight, jittered backoff reorders | nothing the user did is lost |
| Sync engine (`sync_engine/scheduling.dart`, `retry.dart`, `errors.dart`) | mutex, cursor | a cycle: recover, claim, push, reconcile, apply, pull on; failure classification | transport, local store | failure at every step, pages | ends up to date |
| HTTP transport (`transport.dart`, `protocol.dart`) | none | requests with timeouts | server | an answer is lost after the request took effect | retry is safe |
| Response reconciler (`sync_response_reconciler.dart`, `stocktake_conflict_store.dart`) | local rows, `conflicts` | applied, rejected, displaced results; merges with a follow-up | queue, merge | results of old operations meet newer local edits; replays carry another page | rows converge, conflicts are kept |
| Change page applier (`sync_page_applier.dart`, `remote_change_applier.dart`) | local rows, cursor | apply a page and move the cursor in one transaction | reconciler | skipped sequences, version order, tombstones | cursor covers what the device holds |
| Three-way merge (`product_three_way_merge.dart`) | none | changed fields, overlap, merge | reconciler | | disjoint fields merge |
| Conflict resolution (`conflict_resolution_repository.dart`, `conflict_pages.dart`) | `conflicts`, rows, queue | use local, use server, retry without the barcode, mark as reviewed | user | the conflict is old when the user decides, or about a deletion | never resurrects a product, queues only what can be sent |
| Snapshot bootstrap (`snapshot_bootstrap.dart`, `snapshot.dart`) | all local tables | replace canonical rows and cursor | engine | pending work at that moment | pending work survives |
| Session manager (`session.dart`, `auth_client.dart`, `sync_session_store.dart`, the gate in `auth_pages.dart`) | secure storage, `_refreshFuture` | sign in, refresh after a 401 | transport, server sessions | several exchanges rejected at once, late 401, storage failure | one refresh per session, nobody waits for ever |
| Trigger coordinator (`sync_trigger_coordinator.dart`) | pending triggers, timers, pump | start, stop, foreground, hints, manual refresh | engine | triggers during a run or a stop | no trigger is lost, none piles up |
| Clock offset, device identity, identifiers, local queries, UI, generated Drift code | | | | sequential or presentation | unit and widget tests |

The hazards that come out of this inventory are listed, each at its line, under `hazards` in `PROJECT.json`, with the properties that would catch them and with a note where no property does yet.

## 2. Modules

    OperationLog            what the server promises: atomic decisions, one feed
      ^ implemented by (proved)
    SyncTransactions        the transactions of POST /v1/sync, pulls and snapshots
      SyncTransactionsProofs
    StockLedger             ledger, balances and projection tool
      StockLedgerProofs
    Barcodes                product mutations against the unique barcode index
      BarcodesProofs
    ReplicaStore            the local database as operators on a record
      ReplicaStoreProofs
      ^ extended by
    ReplicaSync             devices, network, and a server that decides atomically;
      ReplicaSyncProofs     it implements OperationLog too (proved)
      ReplicaConvergenceProofs
    DeviceSessions          refresh rotation and the shared refresh of the app
      DeviceSessionsProofs
    SyncTriggers            what wakes the sync engine
      SyncTriggersProofs

`MC*` modules hold the instances that TLC checks.

**SyncTransactions** has one worker per open transaction. `pc` is the next SQL statement; `keyLock`, `rowLock`, `seqLock` are the locks that PostgreSQL holds for it. `Begin` is a delivery by `Handler.post`; `Reserve` is `processOperation` up to the unique index on `(device_id, op_id)`: a committed row is replayed, an uncommitted one is waited for. `Lookup` is the unlocked `GetProductByID`, then `CreateProduct`, `UpdateProduct`, `SoftDeleteProduct` and `AppendMovement` are the mutations, `Classify` is `classifyProductMutationMiss`, `AllocateSequence` the `UPDATE` of the counter row, `Commit` and `Rollback` the end of the transaction, `Fail` the violated `products_pkey` and `Abort` any other failure, at every statement. `SnapshotOpen` fixes the state a REPEATABLE READ transaction sees and `SnapshotRead` reads rows and cursor of it; `Pull` is `ListChanges`. A product is its owner, version, tombstone and balance; an operation is its id with the payload.

**OperationLog** leaves out transactions, locks, duplicates and cursors that lag in the middle of a page: an operation is decided once, accepted ones extend one feed, a replica at position *n* holds exactly its account's changes up to *n*. `ImplementsLog` in SyncTransactions is the refinement mapping of the server. `Log` in ReplicaSyncProofs is that of devices, network and server together: an operation is its id, the devices have one account, a device is at its cursor, and it holds a movement it has with the canonical delta (a product change counts as held once the cursor has passed it; what the row then shows is the matter of `Converged`).

**StockLedger** refines the part that SyncTransactions abstracts from a movement: `LockProduct` (`FOR UPDATE`), the decision (`Rejection`, `DeltaOf`, `Displaced`: stocktakes by key, the canonical delta, reversals, int32 range), `InsertMovement`, `IncrementBalance`, commit and rollback as steps of their own, the soft delete, and the tool, whose connection reads ledger and balances in separate statements (`VerifyReadLedger`, `VerifyReadBalances`) and rebuilds from sums it read before it has the balance rows (`RebuildStart`, `RebuildRow`, `RebuildCommit`).

**Barcodes** is the product mutation between the statements that SyncTransactions has: `InsertProduct`, `UpdateProduct` and `SoftDeleteProduct` write and lock a row (`draft`), and only then does `ClaimBarcode` enter its code into the index `products_active_barcode_uq`, waiting for the transactions in progress that hold the code or the row of a holder (`Contenders`). `RollbackToSavepoint` is `runProductMutationWithBarcodeRecovery`, `AttachOwner` the fresh read of the owner, `CommitRejected` and `CommitApplied` the two ends. A statement that fails (`Break`: a violated `products_pkey`, or a wait in a circle, which `InCycle` finds and `DetectDeadlock` ends, as PostgreSQL does) leaves the transaction unable to do anything but end; the recovery recovers from a barcode collision only, so it does (`ReturnError`). `WaitsFor` is what PostgreSQL knows of lock waits. The index has no account column, as in the migration.

**ReplicaStore** holds one operator per local SQLite transaction: `Mutate`, `Recover`, `Due`, `Restatus`, `Reconcile` (with `Settle`, `Retain`, `FollowUp`, `Displace`), `ApplyPage`, `Resolve`, `Install`. `Offers` is what the conflict page shows for a reason, `Selected`, `RetryOf` and `ResolvedRow` what `resolveProduct` queues and writes for a choice. `Indexed` is the local unique index, which leaves out rows in conflict, and `Available` the look-up that the applier makes before it. `Sendable` is what `toSyncOperation` throws for. `PageFits` and `Consistent` are what a page and a snapshot are refused for. An operator returns the database the transaction leaves, or `None` when it throws and is rolled back. `stamp` stands for `updated_at` and `updated_by` of a canonical row: it is the change that wrote the row, and an optimistic row has none. A blocked queue row is `blocked` after a verdict of the server and `parked` after a transport or protocol failure; the code has one status for both, the model keeps them apart to say which have a conflict that shows them.

**ReplicaSync** runs these operators for several devices: `plan` fixes, once per behaviour, the opening catalog, what each user may do and which faults may happen, so that one run covers several situations. `UserMutates`, `UserResolves`, the cycle `Begin`, `ReconcileResults`, `ApplyChanges`, the failures `Timeout` (the request may be handled later all the same), `Unauthorized`, `Refused`, `Crash`, and `Elapse` for a backoff delay. `Bootstrap` installs the server's `Snapshot` between two cycles over whatever is queued; nothing in the app calls the bootstrapper yet, and its class comment is the contract the model takes: replicated rows are replaced, queue and conflicts are left for the cycles that follow. The server decides one operation per step (`Process`, `ProcessFails` when the transaction failed or its commit was not confirmed, `Answer`; `BarcodeOwner` is the product a barcode collides with), which is what `SyncTransactions` was proved to implement. The one thing that is read later than the decision is the canonical row of a rejection, by a READ COMMITTED statement of its own: `Judge` leaves the request with its `verdict`, other operations may be decided, and `Process` then stores and answers the rejection with the row there is by then (`CanonicalRow`). A version conflict may so carry a tombstone, and a barcode conflict a newer owner or none. A request with a verdict keeps its idempotency key (`Reservable`). A deleted row never changes again, so `product_deleted` needs no such step.

**DeviceSessions** numbers sessions in the order they are issued; session *n* is an access token, a refresh token and a `refresh_tokens` row. On the server `LockRow`, `Rotate`, `RejectLapsed`, `DetectReuse`, `RevokeRow`, `RevokeCommit` and `Abort` are the statements of `Service.Refresh`, and `RotateUnconfirmed` the commit of a rotation that takes effect and reports an error; revoking takes the active rows of the device one by one, as the `UPDATE` does, and waits for locked ones. In the app `Start`, `Answered`, `Rejected`, `RejectedAgain` are an exchange (`HttpSyncTransport.synchronize`), `gate` is `_refreshFuture`, `ReadStore`, `Save` and `StorageFails` are `_refreshAndComplete`, `LoseAnswer` a timeout of the refresh, `Restart` and `SignIn` the session gate. `lost` says that something the device needed to keep its session is gone: the replacement of a rotation that was committed, before it was in storage; the device's other sessions, when an abandoned request turns out to present a used token; or the refresh token's time. The logout endpoint is left out, as the app does not call it.

**SyncTriggers** is `SyncTriggerCoordinator` between two awaits. `pumpFuture` is the run of `_drainPendingTriggers` that new triggers leave their work to; each pump waits for the probe, for a cycle, or has returned and is not yet observed (`Observe`, the `finally` of `_observePump`). `Request` queues a trigger and starts a pump if none runs; `Finish` answers a batch and takes what came meanwhile. `Start`, `Stop`, `Dispose`, `Resume` and `LeaveForeground` come at any moment of an attempt, which none of them cancels.

## 3. Runs

All constants are in the `.cfg` files; a bound ends a counter and never a handler.

| Run | Instance | Distinct states | Shows |
|---|---|---|---|
| `sync_mixed` | a creation, an edit and a delete that race for its first version, a movement, an edit by another account; two workers, one reader, pages of one change; fairness | 121,008 | `FeedIsContiguous`, `AppliedExactlyOnce`, `FeedIsSerial`, `CatalogIsFeedTail`, `NothingSkipped`, `ImplementsLog`, `EveryDeliveryEnds` |
| `ledger_mixed` | three stocktakes (two of one time, one out of range), an issue, its reversal on the right and on the wrong product, the deletion; two workers and the tool | 283,069 | `CountHolds`, `StocktakesAdvance`, `ReversalsFollow`, `BalanceFollowsLedger`, `LedgerAppendOnly` |
| `replica_work` | three plans for two devices: disjoint edits and a delete; a creation and two stocktakes; one barcode for two products; one fault of any kind, one snapshot | 2,035,800 | `NothingLost`, `Converged`, `TombstoneStays`, `BalanceIsLedger`, `BalancesConverge`, `CursorCoversLedger`, `DisplacedShown` |
| `replica_live` | four plans: overlapping edits; two stocktakes; one barcode for two products; an edit that fails under a deletion; what the user decides, one fault, one snapshot; fairness | 234,625 | `RequestsAcceptable`, `EventuallyUpToDate` |
| `barcode_claims` | edits that swap the barcodes of two products, the deletion of one, a new code for the other, another account's creation with that code; fairness | 16,788 | `OneOwner`, `CatalogIsFeedTail`, `ConflictsHadAnOwner`, `EveryDeliveryEnds` |
| `session_rotation` | two exchanges, two refresh transactions, two faults; fairness | 111,699 | `RotatedOnce`, `RotatedWhenRejected`, `LockedOutOnlyByLoss`, `EveryExchangeEnds` |
| `triggers_coalesce` | every trigger, two pumps; fairness | 16,305 | `OneAttempt`, `QuietOutside`, `NobodyLeftBehind`, `EveryRefreshEnds`, `EveryWriteIsTried` |
| `ledger_arrival`, `replica_lost_update`, `replica_backlog`, `replica_resurrection`, `session_lost` | | | the findings of section 6 |

Why these sizes are enough. The server's conflicts are over one product row, one idempotency row and the counter row, so one product and two transactions at a time have every pair of conflicting transactions, any number of times in a row; the proofs of section 5 remove the bound altogether. Ledger decisions look at one product, and at a second one only to refuse a reversal that names it. The replicas disagree pairwise: with two devices there is always a foreign change to meet an own operation, and two operations of one device meet each other in its queue. Operations per request (two) and changes per page (one in `sync_mixed` and `replica_backlog`, all in the other replica runs) are at the limit that cuts them. One fault in a run is any of a timeout before or after the server acted, a refusal, a failed operation or an app stop, at any point, and one snapshot may come before, after or between the cycles that the fault disturbs. The plans of `replica_live` with stocktakes and with barcodes have the faults that lose a request, an answer or a session (`Lossy`); section 4 says what the others do to them. In `barcode_claims` two of the five operations meet on each product and each code, three products are what a circle of two waits and a bystander need, and each delivery may be repeated after an abort. In `session_rotation` a sign-in, a rotation and a second failure are needed for the loss of a session, and five sessions leave numbers for both; `KeptBack` reserves them, so that the bound only ends the expiry of access tokens. `triggers_coalesce` has one pump more than the code ever runs, which is what `OneAttempt` says; triggers of one reason that wait together share their fate and are one.

Deadlock is checked in every run but `barcode_claims`, where nothing is left to do once every operation has an outcome.

### Fairness

- `SyncTransactions` and `DeviceSessions`, transactions: strong fairness per worker. A statement that waits for a row is enabled only while the row is free; PostgreSQL queues the waiters of a row, so one that waits is served. Aborts are not fair and `EveryDeliveryEnds` needs none.
- `ReplicaSync`: weak fairness of `Cycle` (the coordinator's 60 s foreground timer and its other triggers start cycles, and the app runs what it started), of `Elapses` (backoff delays are capped and pass) and of `ServeLive` (a request whose sender still waits is answered, or a fault ends it; a transaction that has a verdict does not stay open, whoever waits). Nothing makes faults or user actions happen.
- `SyncTriggers`: weak fairness of the periodic timer and of each pump (probe and cycle end, by the timeouts of their requests). The debounce timer gets none: each write sets it anew, so that writes which keep coming may postpone it for ever; `EveryWriteIsTried` then rests on the interval timer.
- `Barcodes`: strong fairness of a transaction's statements, as above, and weak fairness of `DetectDeadlock`, which PostgreSQL runs after `deadlock_timeout` for a statement that still waits.
- `DeviceSessions`: weak fairness of `Start` and `Exchange` (the same timer, and the request timeout of the transport, which ends an exchange) and of `SignIn` when the form is shown.

The body of a response is read without a timeout in `transport.dart:71`; a connection that stalls there is outside these assumptions.

## 4. Properties

Each property has a comment in its module that says which behaviour of the code it is about, and each was tested with a mutation of the code's definitions that breaks it (`mutants`). Some need a remark.

- `BalanceFollowsLedger` exempts the commit of a rebuild. The rebuild statement sums the ledger in its snapshot and then waits for the balance rows, so a movement committed in between is lost from the rebuilt balance. Nothing in the code or its documents excludes appends during a rebuild. `VerifyProductBalances` says that it "runs both reads in one transaction for a consistent report" (`movements/service.go:302`), but that transaction is READ COMMITTED and each statement has its own snapshot, so a movement in between looks like a mismatch and starts such a rebuild. Both are in the model; no property claims more than the code does.
- `TombstoneStays` is about tombstones that the cursor has passed. One that reconciliation wrote ahead of the cursor may be overwritten by the canonical row of an older change of the same response until its page is applied.
- `CursorCoversLedger` and `Converged` are the two halves of what a cursor promises, for movements and for products. Both are proved. The first holds without exception. The second is about a product of which the device has no operation without a verdict and no open conflict, and whose last change the cursor has passed; it says that the device shows the catalog's row, where two tombstones count as equal, because a rejected operation may leave the fields and the version of its own row on one. Two exemptions are part of it, and each was a counterexample first:
  - `UserDecided`: the user decided a conflict of the product other than over its deletion. `markReviewed` writes the conflict only, so a reviewed edit keeps its optimistic row until another change of the product arrives; a retry without the barcode is based on the version of the row in the conflict, which is another product's.
  - `Overtaken`: the device deleted the product itself, and an edit that the deletion was not based on reached the server before it, or a conflict is left of one. Section 6 has the trace.
- `EventuallyUpToDate` holds for the plans of `replica_live`. `MCReplicaSync` keeps three more, in `Stuck`, under which it fails (take them as `Plans` in `replica_live.cfg`); each leaves the cursor of a device where it is, because the applier throws at the same page in every cycle. `PassedOn` needs no fault: device 2 gives a code to product p and then deletes p, device 1 gives the code to product q; the server accepts all three, device 1 reconciles its own edit ahead of the page, and the page then opens with p and the code that q has by now (`remote_change_applier.dart:697`). `UnconfirmedCount`: a stocktake whose commit went through but was reported as failed is blocked, and its change comes back with another delta than the local movement. `RefusedCode`: an edit with a barcode is blocked by a client or protocol error and its row keeps the code that another product gets. They end like the finding `replica_backlog`, at other lines. The first one deserves attention before the others: `docs/sync-protocol.md:176` says of a deleted product that "its former barcode can be claimed by a later active product", which is what the server does and what leaves the claiming device behind.
- `RequestsAcceptable` says that the client never sends what the server refuses, because a refusal blocks the whole batch without a conflict. What keeps it true is `toSyncOperation`, and the price is the same: "Use my changes" on a rejected deletion queues an upsert without a name, the conversion throws before anything is sent, and every claimed operation is blocked while the conflict counts as resolved. `replica_live` reaches this with a failed edit under a deletion. The conflict page offers the choice for every `version_conflict`.
- `BalancesConverge` is about accepted movements. A rejected one stays in the local ledger and balance, which then differ from the server's for good.
- `ConflictsHadAnOwner` allows a rejection without an owner: the index spans all accounts, `attachCanonicalBarcodeProductState` looks in one, and the code may have been given up between the collision and the read. `docs/sync-protocol.md:149` promises the complete canonical owner for a barcode conflict without these exceptions. Two edits that swap barcodes cannot both succeed, in either order and as often as they are repeated, unless one product is left without a code in between.
- `NothingLost` counts a `parked` row as kept: a client or protocol error blocks every claimed operation without a conflict row, and no page of the app sends them again (hazard `retry.dart:37`).
- `LockedOutOnlyByLoss` says that a device loses its session only when the replacement of a committed rotation is lost (its answer, its confirmation or its write to storage), when a request that the app gave up on is found to present a used token, or when the refresh token expires. A lost answer of a transaction that aborts, an unreadable storage or a refused exchange costs nothing. That a loss is final is the finding `session_lost`.
- `EveryDeliveryEnds` has two forms. In `sync_mixed` PostgreSQL's deadlock detection is not in the model: the order of the locks (idempotency row, product row, counter) alone keeps waits from a circle, and a movement that takes the counter before its product breaks it. In `barcode_claims` circles do happen, and the property says that the code gives up the transaction whose statement the database failed, and that its next delivery can succeed.
- `QuietOutside` is about timers and about a stopped coordinator. An attempt may well begin in the background: a debounced write or an interval that was queued in the foreground behind a running attempt is drained after `leaveForeground`, because `_drainPendingTriggers` asks for `_started` only, although the comment of `leaveForeground` says that no interval or debounced write can initiate network work then. The model has this behaviour; no run reports it as a finding.

## 5. Proofs

`SyncTransactionsProofs` proves, for every finite or infinite set of operations, workers, readers, accounts and products and every page limit:

| Theorem | Statement |
|---|---|
| `TypeCorrect` | `Spec => []TypeOK` |
| `Contiguous` | the committed sequences are exactly `1..lastSeq`, one change each |
| `ExactlyOnce` | an operation has one change and the outcome that names it, or neither |
| `NoneSkipped` | a replica holds every change of its account up to its cursor |
| `Serial` | each change is what its operation does to the row the feed had left, and was permitted there |
| `FeedTail` | the tables are the last images of the feed |
| `Refinement` | `Spec => Log!Spec` under the mapping of `ImplementsLog` |

The assumptions are the named ones of `SyncTransactions`: `OpsAssumption` (operations are well formed), `ReaderAssumption` (a replica has an account), `LimitAssumption` (the page limit is positive) and `NoneAssumption` (`None` is none of the values it stands in for). TLC evaluates them in every run.

The argument. Neither contiguity nor exactly-once is inductive: both depend on what open transactions hold. `TypeInv` adds to `TypeOK` that a worker past `idle` has an operation, a worker past the mutation of an accepted operation has a draft, and an operation counts as applied until it is rejected. `LockInv` says that a worker at a given statement holds the key, row and counter locks that the statements before it took, and that nobody else does; that the operation of a held key is undecided; and that an accepted transaction about to finalize holds the counter, its product row and the sequence `lastSeq + 1`. `IInv` joins `TypeInv` and `LockInv` with the two invariants, with `NothingSkipped`, and with `ReplicasWithinFeed`: cursors and open snapshot views lie within the committed feed. With the counter locked until commit, a committed sequence is always the next one, and a change never appears below a cursor already handed out; this is why the counter row, and not a PostgreSQL sequence, is used. For the serial order one more invariant is added to `IInv`: that the draft is what the operation does to the *locked* row (`DraftIsEffect`) and that only an upsert without a base inserts (`CreatesAreNew`): the decision of the upsert on an unlocked read is harmless because the guarded `UPDATE` and the row lock repeat it. The refinement then needs the exact set that a replica holds (`HoldsVisible`, with `NewAtZero` and `PositionsRead` about replicas that have not read yet), and maps `Commit` to `Decide`, a pull or snapshot read to `Advance`, and every other step to a stutter.

`SyncTriggersProofs` proves, for any number of pumps, `TypeCorrect`, `NoOverlap` (`OneAttempt`), `Quiet` (`QuietOutside`) and `NoneLeft` (`NobodyLeftBehind`). The strengthening is `GateIsShut`: a pump runs if and only if `pumpFuture` names it. It is what stopping and starting during an attempt must not break, and why `stop` leaves `_pumpFuture` alone.

`StockLedgerProofs` proves, for any products, workers, intents and opening movements:

| Theorem | Statement |
|---|---|
| `TypeCorrect` | `Spec => []TypeOK` |
| `CountsAreKept` | after an accepted stocktake the product holds the counted quantity |
| `StocktakesInOrder` | stocktakes of a product are accepted in key order |
| `ReversalsInOrder` | a reversal follows its original in the same ledger |
| `BalancesFollow` | only the commit of a rebuild changes the difference between balance and ledger |
| `OnlyAppended` | ledgers only grow, and a deleted product's does not |

It assumes `IntentsAssumption` (intents are well formed), `NamesAssumption` (the tool and `None` are no workers, `None` no reason) and `OpeningAssumption`: the opening movements already satisfy what is claimed of appended ones. The sum of a ledger is a recursive function. That it has a value for every list, that the value is a balance, and that one more movement increments it (`BalanceIsLastRun`, `BalanceOfAppend`) follows from the least position at which running balances would be missing or differ, which needs no induction scheme. The invariant says that an open transaction holds the row of its product, which is not deleted while it appends (`Held`); that its movement still fits the ledger it was checked against (`RowFits`: counted quantity, key order, original); and that the balance it wrote is the committed one and its movement, under the balance lock (`CountedOnTop`). All three depend on the other transactions being about other products, which is what `FOR UPDATE` is there for. A rebuild commits only while it has every balance row, so that no transaction has a balance to commit.

`BarcodesProofs` proves, for any operations, products, accounts and codes, `TypeCorrect`, `BarcodesUnique` (`OneOwner`), `NothingLeftBehind` (`CatalogIsFeedTail`) and `ConflictsReal` (`ConflictsHadAnOwner`), from `OpsAreOperations`, `OpeningIsUnique` (the opening catalog has one holder per code) and `NoneIsNothing`. `IndexInv` is the index alone: a code that an open transaction has entered has no other committed holder and nobody else can enter it (`IndexLocks`), so the committed table stays unique at every commit. `FeedInv` carries this along the feed: the table is the last image of every product (`LastIsOne`, again by a least element, gives the greatest change of a product), and a transaction that saw a violation remembers a prefix of the feed in which another product had the code (`CollisionsKnown`), which later commits only extend.

`DeviceSessionsProofs` proves, for any number of exchanges and refresh transactions, `TypeCorrect`, `OneTime` (`RotatedOnce`), `NoEarlyRotation` (`RotatedWhenRejected`) and `NoSelfLockout` (`LockedOutOnlyByLoss`), from `BoundsAssumption` and `NobodyAssumption`. The invariant is that the gate names the only exchange that refreshes (`OneRefresh`), that a request presents an expired session and only its own exchange waits for the answer (`RequestsExpected`), and that, until something is lost, no token has lapsed, no transaction has found a used token, a request that is waited for presents the session in storage, and its answer is the active replacement of that (`NothingLost`). `LockedOutOnlyByLoss` alone is not inductive: it says nothing of a request under way.

`ReplicaSyncProofs` proves, for any devices, products, fields, plans, request and page limits and any number of faults, follow-ups and snapshots:

| Theorem | Statement |
|---|---|
| `TypeCorrect` | `Spec => []TypeOK` |
| `WritesAreKept` | `NothingLost`: what a user did is queued, applied, or blocked with a conflict; a merged edit lives on in its follow-up |
| `BalancesAreSums` | `BalanceIsLedger`: the balance a device shows is the sum of its movements |
| `CursorIsLedger` | `CursorCoversLedger`: every movement up to the cursor is there, with the canonical delta |
| `CaughtUpBalances` | `BalancesConverge`: at the end of the feed, with no movement of its own pending or rejected, a device shows the server's balances |
| `StocktakesShown` | `DisplacedShown`: a displaced stocktake within the cursor has its conflict |
| `RequestsFit` | `RequestsAcceptable`: no request holds what the server refuses, and none an operation twice |
| `Refinement` | `Spec => Log!Spec`: an operation is decided once and for all, the feed only grows, cursors only move forward, over movements that the device holds |
| `OnlyAskedRestores` | a tombstone the cursor has passed stays, unless the user of the device asks on the conflict page for a follow-up to an operation of that product |
| `TombstonesStay` | `MaxFollowUps = 0 => (Spec => TombstoneStays)`: where nobody asks for one, it stays |

The assumptions are the named ones of the two modules. `PlansAreOfTheirKind`, `FieldsAssumption`, `BlankIsAValue`, `NoneIsNoReason`, `NoneIsNoData`, `LimitsArePositive` and `BoundsAreNatural` give the constants their kinds. `IdsAreUnique` stands for the UUIDs of operations: a mutation has its id on one device and once. `CountsAreNatural` is the check of `stocktake` that a count is not negative. The version of an image is positive, as `products.version` is checked to be. TLC evaluates all of them with the plans of `MCReplicaSync`.

The argument. None of these properties is inductive: what a device holds depends on what is on its way to it. `IInv` therefore has a part for each place.

- *The store* (`StoreInv`). `Good` is what every local transaction keeps. Movements are genuine (of a known operation, or of an accepted one) and have an id once, so that a canonical delta replaces one optimistic delta (`GoodMoves`, `GoodBalance`). The queue has an operation of this device once (`GoodQueue`); a removal by id therefore takes exactly one. A conflict is one that its user can choose for (`Choosable`: what is offered needs a basis and an image, and the follow-up gets an id of its own family). A row is blocked if and only if a conflict shows it (`GoodLinks`), which is what makes a blocked operation reachable from the conflict page, and a merged conflict has its follow-up queued or accepted (`GoodMerges`). `Covered` relates the store to the feed up to the cursor.
- *The server* (`ServerInv`). The feed has an operation once, an applied outcome names the change that it made, and that change is in the feed with the stocktakes it displaced (`FeedOk`, `FeedLinked`, `OutcomesFit`). This is the promise that `SyncTransactions` was proved to keep (`ExactlyOnce`, `Serial`).
- *The wire* (`WireInv`). A request that its device still waits for is the one it claimed, from the cursor it has now (`Awaited`). A request of an earlier cycle may be handled late: its results only have to fit (`VerdictsFit`), and nobody reads them. A verdict whose row is still to be read is one that the operation could be given when it was reached, and remains one (`JudgedInv`, which is kept beside `IInv`: a product that has a row keeps one).
- *The cycle* (`CycleInv`). A reply has a result for each claimed operation and a page that starts at the cursor; between reconciliation and page, what reconciliation wrote ahead is held and shown already (`Ahead`), although the user may have mutated and resolved in between. Without this part nothing says that the positions which the page skips are covered.

The refinement needs `IInv` and of every step of a device that it leaves the server alone and does not move a cursor back (`Forward`): it is an `Advance` of the log, a decision of the server is a `Decide`, and the rest stutters.

`TombInv` is what the tombstones need besides. A device's row can be overwritten from five places: a page, a verdict with the server's row, a merge, a snapshot, and its own user. So every tombstone there is, in the catalog, in a stored outcome, in a result on the wire or in a reply, and in a local row, is one of the feed at the change it is stamped with, or of the opening catalog (`Ended`, `RowFits`); the catalog has a tombstone of every product that was deleted, and no product change follows a deletion (`FeedTombs`, which `Decide` keeps because a deleted row rejects everything). A change that the cursor has not passed is then of no product whose deletion it has passed (`PageSparesGone`), whether reconciliation or the page brings it. The stamp in `TombstoneStays` is what ties a local row to the feed: a tombstone that the cursor has not passed may give way, and does.

`ReplicaConvergenceProofs` proves `DevicesConverge`, which is `Spec => []Converged` without further hypotheses. What makes it hard is that operations of one device are not decided in the order they were made: each failed one retries after a delay of its own, so an edit may reach the server before the edit it builds on, and a verdict may put a row behind a change that the cursor has passed already. No invariant can say that the row follows the cursor. `ConvInv` says instead that whatever is behind is still going to be repaired. It has four parts:

- *The catalog* (`CatalogRisen`). The versions of a product rise along the feed up to the catalog's, an upsert was accepted on exactly the version it is based on, and nothing follows a deletion (`Risen`).
- *What verdicts tell* (`OutcomesTold`, `WireTold`). A rejection speaks of a state of the catalog, perhaps of an old one; its row is at most as new as the catalog's, and a tombstone in it is one of the catalog, although a version conflict may carry one that came after the verdict (`Told`). A request or reply that its device still waits for holds the operations as the device has them.
- *The store* (`StoresSteady`), product by product. `QueueInv` is about the queued operations: every version between the catalog's and the base of an operation is predicted by an operation queued before it (`Chained`), and where the server has taken a later one first, what is left behind it can only be rejected, and ends in a conflict or a merge (`EditsOvertaken`, `DeletionOvertaken`, `Inverted`). `RowInv` is about the row: it is one that the server had, or the device predicted it and has the operation that predicts it (`Founded`); a row is there if the cursor has passed one (`Present`); and if it is behind a change that the cursor has passed, then an upsert without a verdict, or a later change beyond the cursor, or a conflict is there to repair it (`Repaired`).
- *The cycle* (`HandsHold`). What was claimed is queued, in local order (`ClaimsQueued`), and a row that reconciliation wrote ahead of the cursor is repaired in the same sense at the position up to which the page will move (`AheadRepaired`).

With nothing queued, no open conflict and no later change, `Repaired` has nothing left but to say that the row is current, which is `Converged`. A step of the store touches one product and one operation, so the proof follows an operation through its life (`QueueMutates`, `QueueDecides`, `QueueAccepts`, `QueueMerges`, `QueueDisputes`, `QueueEnds`, and the row's counterparts) and shows that the other products do not notice (`LaneApart`, `QueueApart`, `RowApart`). A page is a fold over its changes, and `Advancing` is the invariant of that fold.

`ReplicaStoreProofs` is the library below this. It proves of each local transaction (`Mutate`, `Recover`, `Restatus`, `Settle` with `Retain`, `FollowUp` and `ApplyCanonical`, `Displace`, `ApplyPage`, `Resolve`, `Install`) that a `Good` database stays `Good`, and `Follows`: it loses no queued operation but accepted ones, no movement of the feed it held, no displaced stocktake it showed, and moves no cursor but that of a page or a snapshot. Sums and folds come first. A fold of the community modules over a list or a set is shown to exist and to be unique by the least size at which it would not (`FoldExists`, `FoldsAgree`, `LeastOfNats`), from which follow the sum of a set with one movement more or less and the value of a reconciliation after each result, without an induction scheme. So a reconciliation of any number of results, and a page of any length, are covered.

What the proofs do not cover, and why:

- Every liveness property (`EveryDeliveryEnds`, `EventuallyUpToDate`, `EveryExchangeEnds`, `EveryRefreshEnds`, `EveryWriteIsTried`): liveness under fairness is out of the prover's reach.
- `TombstoneStays` without `MaxFollowUps = 0` is no theorem: the finding `replica_resurrection` refutes it. `OnlyAskedRestores` says that the user's choice is the only exception; the hypothesis of `TombstonesStay` is how `replica_work` checks the property.
- The composition of the two halves. `SyncTransactions` and `ReplicaSync` are both proved to implement `OperationLog`, the one from the statements of the server's transactions and the other from the cycles of the devices, but they abstract an operation differently, and that the atomic `Decide` of `ReplicaSync` rejects what the transactions reject is an argument of this document. TLC checks the refinement of `SyncTransactions` (`ImplementsLog`); that of `ReplicaSync` has an infinite set of operations, one for each possible id, and is proved only.

## 6. Findings

1. `ledger_arrival`: a stocktake equal to the canonical balance is rejected as an empty delta and leaves no ordering key; a lower key that arrives later wins. ADR 0009 promises the same final quantity in every arrival order.
2. `replica_lost_update`: an edit queued behind an unsent one carries the predicted version and the full row; if another device takes that version first, the later edit overwrites that device's field.
3. `replica_backlog`: an applied operation whose change lies beyond the page of its response leaves the local `updated_at`; the page that brings the change is then refused in every cycle and the cursor stays.
4. `replica_resurrection`: a conflict that the user resolves after the tombstone arrived makes the product active again on the device.
5. `session_lost`: once a refresh is refused, the app keeps the refused session and never shows the sign-in form again. The run's trace uses an expired refresh token; an answer lost after the rotation leads to the same state, because the token is then taken for a reused one.

One more divergence came out of the proof of `Converged`, and is the reason for `Overtaken`. No run reports it; the plan `DeleteAndEdit` of `MCReplicaSync` has it (with `Plans <- Overtaking`, one device, one product, two operations per request and two timeouts, `Converged` without `Overtaken` fails). A device edits a product; while the edit is under way the user deletes the product; the answer to the edit makes the row active again, because an applied upsert writes its canonical row over whatever is there; the user edits it once more. The deletion's exchange fails and it waits for its retry, so the second edit is sent alone, is applied, and its answer is lost. The next cycle claims both in local order, the server applies the deletion and replays the edit, and the reconciler handles the results in claimed order: first the tombstone, then the older image over it (`sync_response_reconciler.dart:355`, which compares no versions). The page skips both sequences, so the product stays active on the device for good, although it is deleted for everyone. `docs/sync-protocol.md:191` says that later remote upserts are ignored once `deleted_at` is present, and `docs/conflict-matrix.md:11` that a tombstone wins in either arrival order.

## 7. Not modelled

- A snapshot bootstrap while a cycle runs. Nothing in the bootstrapper excludes it, and nothing in the app calls it: between reconciliation and page it could put an older row under a newer cursor, so a caller has to hold the engine's mutex, which is the assumption of `Bootstrap`. The completion run has no bootstrap over a queued creation either: it removes the local row, the result of the applied creation then finds no row to settle and throws, and the device stays behind its cursor, although nothing queued is lost (`replica_work` has the creation and the snapshot, and checks what must hold on the way).
- The composition of the coordinator with the engine: a cycle may start at any time in `ReplicaSync`, and is one step with an end in `SyncTriggers`. A change of the signed-in user replaces the coordinator, whose attempt may then overlap with one of the new coordinator; the engine's mutex keeps their cycles apart.
- On the client: local reversals, time corrections of movements, ordering of reversals within a page.
- `movements.ReverseMovement`, which derives the delta and which the sync path does not call; the comparison of a replayed request with the stored one.
- Accounts, passwords, token formats, the logout endpoint.
- Clock offsets, identifiers, JSON and its limits, configuration, logging, presentation and generated code: sequential, random or pure input and output.

## 8. Plan

In order of importance, what is done and what follows:

1. *done* `OperationLog`, `SyncTransactions` with the proofs of its safety properties and of the refinement.
2. *done* `StockLedger`.
3. *done* `ReplicaStore`, `ReplicaSync`.
4. *done* `DeviceSessions`.
5. *done* `Barcodes`, and the client's barcode index in `ReplicaStore`.
6. *done between cycles* Bootstrap in `ReplicaSync`. To follow: during a cycle, and the completion of a device that installs a snapshot over a queued creation.
7. *done* `SyncTriggers`, with its proofs.
8. *done* Every choice of the conflict page, what a request may hold, stocktakes and barcodes in the liveness run. To follow: local reversals, and their order within a page.
9. *done* Proofs of `StockLedger`, `Barcodes` and `DeviceSessions`.
10. *done* Proofs of `ReplicaStore` and of `ReplicaSync`: work, ledger, balances, requests, tombstones and convergence, and that it implements `OperationLog`.
