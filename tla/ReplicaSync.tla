----------------------------- MODULE ReplicaSync -----------------------------
(***************************************************************************)
(* The devices of one account, each with its own database (ReplicaStore),  *)
(* exchanging operations and changes with the server.  A sync cycle        *)
(* (sync_engine/scheduling.dart) recovers and claims the queue, pushes the  *)
(* claimed operations, reconciles their results, applies the change page    *)
(* and pulls on until the feed is exhausted; the user may write in between, *)
(* a request may time out before or after the server handled it, and the    *)
(* app may stop between two local transactions.                            *)
(*                                                                         *)
(* The server decides one operation per step, with its change, its outcome  *)
(* and its catalog row at once: SyncTransactions shows that its handler     *)
(* transactions implement just that.                                       *)
(***************************************************************************)
EXTENDS ReplicaStore

CONSTANTS
    Devices,
    Plans,          \* what may happen: see Plan
    MaxOperations,  \* operations of a request
    MaxChanges,     \* changes of a page
    MaxFaults,      \* bound: faults of the kinds a plan allows
    MaxFollowUps,   \* bound: follow-ups of one operation the user may ask for
    MaxBootstraps   \* bound: snapshots that are installed later on

ASSUME LimitsArePositive == MaxOperations \in Nat \ {0} /\ MaxChanges \in Nat \ {0}
ASSUME BoundsAreNatural == MaxFaults \in Nat /\ MaxFollowUps \in Nat /\ MaxBootstraps \in Nat

FaultKinds == {"timeout", "unauthorized", "refused", "crash", "failed", "unconfirmed"}

(* The catalog every device was bootstrapped with, for each device the set  *)
(* of mutations its user may make, and the faults that may disturb them.   *)
Plan ==
    [opening : [Products -> Image \cup {None}], intents : [Devices -> SUBSET Intent],
     faults : SUBSET FaultKinds]

ASSUME PlansAreOfTheirKind ==
    \A x \in Plans :
        /\ DOMAIN x = {"opening", "intents", "faults"}
        /\ x.opening \in [Products -> Image \cup {None}]
        /\ DOMAIN x.intents = Devices
        /\ \A d \in Devices : x.intents[d] \subseteq Intent
        /\ x.faults \subseteq FaultKinds

(* The identifiers of operations are UUIDs. *)
ASSUME IdsAreUnique ==
    \A x \in Plans : \A d, e \in Devices : \A i \in x.intents[d], j \in x.intents[e] :
        i.id = j.id => d = e /\ i = j

(* The repository refuses a negative count. *)
ASSUME CountsAreNatural ==
    \A x \in Plans : \A d \in Devices : \A i \in x.intents[d] : i.kind = "count" => i.qty \in Nat

VARIABLES
    plan,       \* the plan of this behaviour, constant
    \* the devices
    db,         \* the database of each device
    done,       \* the mutations its user made
    phase,      \* where its sync cycle is
    claimed,    \* the operations its cycle claimed
    reply,      \* the response it is processing
    \* the server
    catalog,    \* the products table
    feed,       \* change_log
    outcomes,   \* sync_ops: the outcome of each decided operation
    \* the network
    wire,       \* requests on their way or being handled
    faults,     \* faults so far
    bootstraps  \* snapshots installed later on

device == <<phase, claimed, reply>>
server == <<catalog, feed, outcomes>>
vars == <<plan, db, done, device, server, wire, faults, bootstraps>>

(* Verdicts whose canonical row a later statement reads.  (A tombstone is   *)
(* final: product_deleted can be judged and shown at once.)                *)
ShownLater == {"version_conflict", "barcode_conflict"}
Verdicts == ShownLater \cup {""}

(* A request; it is live while its device waits for the answer.  The        *)
(* transaction of its next operation may have a verdict already, and the   *)
(* canonical row for it still to read.                                     *)
Request ==
    [device : Devices, ops : Seq(Operation), cursor : Nat, results : Seq(Outcome),
     verdict : Verdicts, live : BOOLEAN]

Response == [results : Seq(Outcome), from : Nat, to : Nat, more : BOOLEAN]

TypeOK ==
    /\ db \in [Devices -> Database]
    /\ plan \in Plans
    /\ done \in [Devices -> SUBSET Intent]
    /\ \A d \in Devices : done[d] \subseteq plan.intents[d]
    /\ phase \in [Devices -> {"idle", "waiting", "reconcile", "apply"}]
    /\ claimed \in [Devices -> Seq(Operation)]
    /\ reply \in [Devices -> Response \cup {None}]
    /\ catalog \in [Products -> Image \cup {None}]
    /\ feed \in Seq(Change)
    /\ DOMAIN outcomes \subseteq OpId
    /\ \A id \in DOMAIN outcomes : outcomes[id] \in Outcome
    /\ wire \subseteq Request
    /\ faults \in 0..MaxFaults
    /\ bootstraps \in 0..MaxBootstraps

(* A database that holds nothing yet. *)
Empty ==
    [rows |-> [p \in Products |-> None], moves |-> {}, balance |-> [p \in Products |-> 0],
     queue |-> << >>, conflicts |-> {}, cursor |-> 0]

(* A fresh bootstrap: every device holds the catalog, the feed starts here. *)
Init ==
    /\ plan \in Plans
    /\ db = [d \in Devices |->
            Install(Empty, [products |-> plan.opening, moves |-> {},
                            balances |-> [p \in Products |-> 0], cursor |-> 0])]
    /\ done = [d \in Devices |-> {}]
    /\ phase = [d \in Devices |-> "idle"]
    /\ claimed = [d \in Devices |-> << >>]
    /\ reply = [d \in Devices |-> None]
    /\ catalog = plan.opening
    /\ feed = << >>
    /\ outcomes = << >>
    /\ wire = {}
    /\ faults = 0
    /\ bootstraps = 0
-----------------------------------------------------------------------------
(* The user. *)

(* A mutation of the product and movement repositories. *)
UserMutates(d, i) ==
    /\ i \in plan.intents[d] \ done[d]
    /\ Mutate(db[d], i) # None
    /\ db' = [db EXCEPT ![d] = Mutate(@, i)]
    /\ done' = [done EXCEPT ![d] = @ \cup {i}]
    /\ UNCHANGED <<plan, device, server, wire, faults, bootstraps>>

(* A choice on the conflict page. *)
UserResolves(d, c, choice) ==
    /\ c.resolution = "unresolved"
    /\ choice \in Offers(c)
    /\ choice # "reviewed" => c.op.id[2] < MaxFollowUps
    /\ Resolve(db[d], c, choice) # None
    /\ db' = [db EXCEPT ![d] = Resolve(@, c, choice)]
    /\ UNCHANGED <<plan, done, device, server, wire, faults, bootstraps>>
-----------------------------------------------------------------------------
(* The cycle of a device. *)

Idle(d) ==
    /\ phase' = [phase EXCEPT ![d] = "idle"]
    /\ claimed' = [claimed EXCEPT ![d] = << >>]
    /\ reply' = [reply EXCEPT ![d] = None]

Send(d, ops, cursor) ==
    /\ phase' = [phase EXCEPT ![d] = "waiting"]
    /\ claimed' = [claimed EXCEPT ![d] = ops]
    /\ reply' = [reply EXCEPT ![d] = None]
    /\ wire' = wire \cup
        {[device |-> d, ops |-> ops, cursor |-> cursor, results |-> << >>, verdict |-> "",
          live |-> TRUE]}

(* recoverInterruptedOperations, claimDueOperations and the push request.   *)
(* An operation that cannot be put into a request ends the cycle, and every *)
(* claimed one is blocked.  The mutex admits one cycle at a time.          *)
Begin(d) ==
    LET recovered == Recover(db[d])
        due == Due(recovered, MaxOperations)
        sendable == \A n \in DOMAIN due : Sendable(due[n])
    IN
    /\ phase[d] = "idle"
    /\ db' = [db EXCEPT ![d] = Restatus(recovered, Ids(due), "queued",
                                        IF sendable THEN "inflight" ELSE "parked")]
    /\ IF sendable THEN Send(d, due, db[d].cursor) ELSE UNCHANGED <<device, wire>>
    /\ UNCHANGED <<plan, done, server, faults, bootstraps>>

(* The requests without the live one of d; one with operations the server   *)
(* has not decided may still be on its way.                                *)
Abandoned(d) ==
    {IF q.device = d THEN [q EXCEPT !.live = FALSE] ELSE q :
        q \in {r \in wire : r.device = d => Len(r.results) < Len(r.ops)}}

Faulty(kind) == kind \in plan.faults /\ faults < MaxFaults /\ faults' = faults + 1

(* The exchange fails and the claimed operations become `status`. *)
ExchangeFails(d, kind, status) ==
    /\ phase[d] = "waiting"
    /\ Faulty(kind)
    /\ db' = [db EXCEPT ![d] = Restatus(@, Ids(claimed[d]), "inflight", status)]
    /\ Idle(d)
    /\ wire' = Abandoned(d)
    /\ UNCHANGED <<plan, done, server, bootstraps>>

(* Network failure, timeout, rate limit or server error: scheduleRetry. *)
Timeout(d) == ExchangeFails(d, "timeout", "retrying")

(* No valid session: releaseInFlight. *)
Unauthorized(d) == ExchangeFails(d, "unauthorized", "queued")

(* A client or protocol error: markBlocked. *)
Refused(d) == ExchangeFails(d, "refused", "parked")

(* The delay of a retry, jittered and of its own, has passed. *)
Elapse(d, id) ==
    /\ StatusOf(db[d], id) = {"retrying"}
    /\ db' = [db EXCEPT ![d] = Restatus(@, {id}, "retrying", "queued")]
    /\ UNCHANGED <<plan, done, device, server, wire, faults, bootstraps>>

(* The changes of the response, by sequence. *)
Page(r) == [s \in r.from + 1 .. r.to |-> feed[s]]

(* A local transaction threw: releaseInFlight, and the cycle ends. *)
ReleaseAndStop(d) ==
    /\ db' = [db EXCEPT ![d] = Restatus(@, Ids(claimed[d]), "inflight", "queued")]
    /\ Idle(d)

(* DriftSyncResponseReconciler.reconcile *)
ReconcileResults(d) ==
    LET next == Reconcile(db[d], claimed[d], reply[d].results, Page(reply[d])) IN
    /\ phase[d] = "reconcile"
    /\ IF next = None
       THEN ReleaseAndStop(d)
       ELSE /\ db' = [db EXCEPT ![d] = next]
            /\ phase' = [phase EXCEPT ![d] = "apply"]
            /\ UNCHANGED <<claimed, reply>>
    /\ UNCHANGED <<plan, done, server, wire, faults, bootstraps>>

(* Fault: everything before the last reconciled change is skipped too. *)
ReconciledUpTo(r) ==
    UNION {1..r.results[n].seq : n \in {k \in DOMAIN r.results : r.results[k].applied}}

(* Changes that reconciliation wrote already. *)
Reconciled(r) == {r.results[n].seq : n \in {k \in DOMAIN r.results : r.results[k].applied}}

(* DriftSyncPageApplier.applyPage, then the next page or the end. *)
ApplyChanges(d) ==
    LET r == reply[d]
        changes == [n \in 1..(r.to - r.from) |-> feed[r.from + n]]
        fresh == {n \in DOMAIN changes : r.from + n \notin Reconciled(r)}
        next == ApplyPage(db[d], r.from, changes, fresh, r.to)
    IN
    /\ phase[d] = "apply"
    /\ IF next = None
       THEN ReleaseAndStop(d) /\ UNCHANGED wire
       ELSE /\ db' = [db EXCEPT ![d] = next]
            /\ IF r.more THEN Send(d, << >>, r.to) ELSE Idle(d) /\ UNCHANGED wire
    /\ UNCHANGED <<plan, done, server, faults, bootstraps>>

(* The app stops; the database stays as the last transaction left it. *)
Crash(d) ==
    /\ phase[d] # "idle"
    /\ Faulty("crash")
    /\ Idle(d)
    /\ wire' = Abandoned(d)
    /\ UNCHANGED <<plan, db, done, server, bootstraps>>
-----------------------------------------------------------------------------
(* The server. *)

(* Operation.ValidateWithLimits *)
Acceptable(op) ==
    CASE op.kind \in {"create", "edit"} ->
            op.fields # None /\ \A f \in Required : op.fields[f] # Blank
      [] op.kind = "delete" -> op.base > 0
      [] OTHER -> op.base = 0 /\ op.delta # 0 /\ op.counted >= 0

(* SyncRequest.ValidateWithLimits *)
AcceptableRequest(ops) ==
    /\ Len(ops) <= MaxOperations
    /\ \A n \in DOMAIN ops : Acceptable(ops[n])

(* The movements of the ledger, as a device stores them. *)
CanonicalMoves ==
    {NewMove(feed[s].op, feed[s].delta, "synced") :
        s \in {k \in DOMAIN feed : ~IsProductOp(feed[k].op)}}

CanonicalBalance(p) == Total({m \in CanonicalMoves : m.product = p})

(* The operation of the canonical stocktake, the last one accepted. *)
LatestCount(p) ==
    LET counts == {s \in DOMAIN feed : feed[s].op.product = p /\ feed[s].op.kind = "count"}
    IN  {feed[s].op : s \in {k \in counts : \A j \in counts : j <= k}}

(* stocktakeComesAfter *)
ComesAfter(op, other) == op.at > other.at \/ (op.at = other.at /\ op.id[1] > other.id[1])

(* The active products that have the barcode of an upsert. *)
Holders(op) ==
    {q \in Products :
        /\ op.kind \in {"create", "edit"}
        /\ op.fields[Barcode] # Blank
        /\ catalog[q] # None
        /\ ~catalog[q].deleted
        /\ catalog[q].fields[Barcode] = op.fields[Barcode]}

(* The one that has it, if it is another. *)
BarcodeOwner(op) == Holders(op) \ {op.product}

(* Why operation op is rejected; None when it is applied. *)
Rejection(op) ==
    LET row == catalog[op.product] IN
    IF row = None /\ op.kind # "create"
    THEN IF op.kind = "edit" THEN "invalid_base_version" ELSE "product_not_found"
    ELSE IF row # None /\ row.deleted THEN "product_deleted"
    ELSE IF row # None /\ op.kind = "create" THEN "invalid_base_version"
    ELSE IF op.kind = "edit" /\ row.version # op.base THEN "version_conflict"
    ELSE IF op.kind = "delete" /\ row.version < op.base THEN "version_conflict"
    ELSE IF BarcodeOwner(op) # {} THEN "barcode_conflict"
    ELSE IF op.kind = "count" /\ \E c \in LatestCount(op.product) : ~ComesAfter(op, c)
    THEN "stocktake_displaced"
    ELSE IF op.kind = "count" /\ op.counted = CanonicalBalance(op.product) THEN "invalid_delta"
    ELSE None

(* The change of an accepted operation; a stocktake's delta is recomputed. *)
ChangeOf(op) ==
    LET row == catalog[op.product] IN
    [op |-> op,
     image |-> IF IsProductOp(op)
               THEN [version |-> IF row = None THEN 1 ELSE row.version + 1,
                     deleted |-> op.kind = "delete",
                     fields |-> IF op.kind = "delete" THEN row.fields ELSE op.fields,
                     stamp |-> Len(feed) + 1]
               ELSE None,
     delta |-> IF op.kind = "count" THEN op.counted - CanonicalBalance(op.product) ELSE op.delta,
     displaced |-> IF op.kind = "count" THEN LatestCount(op.product) ELSE {}]

Applied(c) ==
    [applied |-> TRUE, reason |-> "", seq |-> Len(feed) + 1, state |-> None,
     displaced |-> c.displaced]

(* The canonical row that goes with the verdicts the client may act on: of  *)
(* the product, or of whoever has the barcode now.                         *)
CanonicalRow(op, reason) ==
    IF IsProductOp(op) /\ reason \in {"version_conflict", "product_deleted"}
    THEN catalog[op.product]
    ELSE IF reason = "barcode_conflict" /\ Holders(op) # {}
    THEN catalog[CHOOSE q \in Holders(op) : TRUE]
    ELSE None

Rejected(op, reason) ==
    [applied |-> FALSE, reason |-> reason, seq |-> 0, state |-> CanonicalRow(op, reason),
     displaced |-> {}]

Decide(op, reason) ==
    LET change == ChangeOf(op)
        outcome == IF reason = None THEN Applied(change) ELSE Rejected(op, reason)
    IN
    /\ outcomes' = [id \in DOMAIN outcomes \cup {op.id} |->
            IF id = op.id THEN outcome ELSE outcomes[id]]
    /\ IF reason # None THEN UNCHANGED <<catalog, feed>>
       ELSE /\ feed' = Append(feed, change)
            /\ catalog' = IF IsProductOp(op)
                          THEN [catalog EXCEPT ![op.product] = change.image] ELSE catalog

NextOp(q) == q.ops[Len(q.results) + 1]
Undecided(q) == Len(q.results) < Len(q.ops)

(* The transaction of the next operation has a verdict. *)
Judged(q) == q.verdict # ""

(* No other request has reserved the key of the next operation.            *)
Reservable(q) == \A r \in wire \ {q} : Judged(r) => NextOp(r).id # NextOp(q).id

(* The mutation is rejected; other transactions may commit before the       *)
(* canonical row is read (attachCanonicalProductState and its like).       *)
Judge(q) ==
    LET reason == Rejection(NextOp(q)) IN
    /\ Undecided(q)
    /\ NextOp(q).id \notin DOMAIN outcomes
    /\ Reservable(q)
    /\ ~Judged(q)
    /\ reason \in ShownLater
    /\ wire' = (wire \ {q}) \cup {[q EXCEPT !.verdict = reason]}
    /\ UNCHANGED <<plan, db, done, device, server, faults, bootstraps>>

(* The rest of the transaction, or all of it. *)
Conclude(q) ==
    LET reason == IF Judged(q) THEN q.verdict ELSE Rejection(NextOp(q)) IN
    /\ Reservable(q)
    /\ reason \in ShownLater => Judged(q)
    /\ Decide(NextOp(q), reason)

WithResult(q, outcome) ==
    wire' = (wire \ {q}) \cup {[q EXCEPT !.results = Append(@, outcome), !.verdict = ""]}

(* ProcessOperation: a stored outcome is replayed, another one is decided. *)
Process(q) ==
    /\ Undecided(q)
    /\ IF NextOp(q).id \in DOMAIN outcomes THEN UNCHANGED server ELSE Conclude(q)
    /\ WithResult(q, outcomes'[NextOp(q).id])
    /\ UNCHANGED <<plan, db, done, device, faults, bootstraps>>

(* The transaction of an operation fails.  The answer is a rejection that   *)
(* is not stored; the commit may have reached the database all the same.   *)
ProcessFails(q, committed) ==
    /\ Undecided(q)
    /\ Faulty(IF committed THEN "unconfirmed" ELSE "failed")
    /\ NextOp(q).id \notin DOMAIN outcomes
    /\ IF committed THEN Conclude(q) ELSE UNCHANGED server
    /\ WithResult(q, Rejected(NextOp(q), "internal_error"))
    /\ UNCHANGED <<plan, db, done, device, bootstraps>>

(* ListChanges and the response; nobody waits for an abandoned request. *)
Answer(q) ==
    LET to == IF q.cursor + MaxChanges < Len(feed) THEN q.cursor + MaxChanges ELSE Len(feed) IN
    /\ ~Undecided(q)
    /\ wire' = wire \ {q}
    /\ IF q.live
       THEN /\ reply' = [reply EXCEPT ![q.device] =
                    [results |-> q.results, from |-> q.cursor, to |-> to, more |-> to < Len(feed)]]
            /\ phase' = [phase EXCEPT ![q.device] = "reconcile"]
       ELSE UNCHANGED <<reply, phase>>
    /\ UNCHANGED <<plan, db, done, claimed, server, faults, bootstraps>>

(* GetSnapshot: the ledger as the device stores it, the balances the server *)
(* derives from it, the catalog with its tombstones, and the last sequence. *)
Snapshot ==
    [products |-> catalog,
     moves |-> CanonicalMoves,
     balances |-> [p \in Products |-> CanonicalBalance(p)],
     cursor |-> Len(feed)]

(* The device installs a snapshot again, between two cycles, with whatever  *)
(* is queued.  No code of the app asks for one yet; whoever does has to     *)
(* keep cycles out, as nothing in the bootstrapper does.                    *)
Bootstrap(d) ==
    /\ phase[d] = "idle"
    /\ bootstraps < MaxBootstraps
    /\ Consistent(Snapshot)
    /\ db' = [db EXCEPT ![d] = Install(@, Snapshot)]
    /\ bootstraps' = bootstraps + 1
    /\ UNCHANGED <<plan, done, device, server, wire, faults>>
-----------------------------------------------------------------------------
Cycle(d) ==
    \/ Begin(d)
    \/ ReconcileResults(d)
    \/ ApplyChanges(d)

Elapses(d) == \E id \in QueuedIds(db[d]) : Elapse(d, id)

Serve(q) == Judge(q) \/ Process(q) \/ Answer(q)

Fault(d) == Timeout(d) \/ Unauthorized(d) \/ Refused(d) \/ Crash(d)

Next ==
    \/ \E d \in Devices :
        \/ \E i \in plan.intents[d] : UserMutates(d, i)
        \/ \E c \in db[d].conflicts : \E choice \in Offers(c) : UserResolves(d, c, choice)
        \/ Cycle(d)
        \/ Elapses(d)
        \/ Fault(d)
        \/ Bootstrap(d)
    \/ \E q \in wire : Serve(q) \/ \E committed \in BOOLEAN : ProcessFails(q, committed)

Spec == Init /\ [][Next]_vars

ServeLive(d) == \E q \in wire : q.device = d /\ (q.live \/ Judged(q)) /\ Serve(q)

(* The foreground timer starts cycles and the app runs them; the network    *)
(* and the server answer what is not lost, and no transaction stays open;   *)
(* the delay of a retry passes.                                            *)
FairSpec ==
    /\ Spec
    /\ \A d \in Devices : WF_vars(Cycle(d)) /\ WF_vars(Elapses(d)) /\ WF_vars(ServeLive(d))
-----------------------------------------------------------------------------
(* PROPERTIES *)

(* The balance a device shows is the sum of the movements it holds, also   *)
(* after a stocktake's delta was corrected (design: product_balances is a   *)
(* projection of the ledger).                                              *)
BalanceIsLedger ==
    \A d \in Devices, p \in Products : db[d].balance[p] = Total(MovesOf(db[d], p))

(* ids of the operations the server applied. *)
AppliedIds == {id \in DOMAIN outcomes : outcomes[id].applied}

(* Nothing the user did is lost, whatever fails and whenever the app stops: *)
(* the operation is queued until the server applied it, a blocked one has a *)
(* conflict that shows it, and a merged one lives on in its follow-up.      *)
NothingLost ==
    \A d \in Devices :
        /\ \A i \in done[d] : <<i.id, 0>> \in QueuedIds(db[d]) \cup AppliedIds
        /\ \A n \in DOMAIN db[d].queue : db[d].queue[n].status = "blocked" =>
                \E c \in db[d].conflicts : c.op.id = db[d].queue[n].op.id
        /\ \A c \in db[d].conflicts : c.resolution = "auto_merged" =>
                <<c.op.id[1], c.op.id[2] + 1>> \in QueuedIds(db[d]) \cup AppliedIds

(* The device has an operation without a verdict for product p. *)
Unsent(d, p) ==
    \E n \in DOMAIN db[d].queue :
        /\ db[d].queue[n].op.product = p
        /\ db[d].queue[n].status # "blocked"

(* It has one, or a conflict the user has not resolved. *)
Unsettled(d, p) ==
    \/ Unsent(d, p)
    \/ \E c \in db[d].conflicts : c.op.product = p /\ c.resolution = "unresolved"

(* The cursor never passes a movement that the device does not hold with    *)
(* its canonical delta: neither crashes, nor lost answers, nor local writes *)
(* in between make it skip one or keep a delta of its own.                 *)
CursorCoversLedger ==
    \A d \in Devices : \A s \in 1..db[d].cursor :
        ~IsProductOp(feed[s].op) =>
            \E m \in db[d].moves : m.id = feed[s].op.id /\ m.delta = feed[s].delta

CaughtUp(d) == phase[d] = "idle" /\ db[d].cursor = Len(feed)

(* The device shows what the server has; a tombstone is shown nowhere.      *)
ShowsCatalog(d, p) ==
    LET row == db[d].rows[p]
        image == catalog[p]
    IN  IF row = None \/ image = None THEN row = image
        ELSE /\ row.deleted = image.deleted
             /\ ~row.deleted => row.version = image.version /\ row.fields = image.fields

(* The conflicts of a device about operations on the product itself. *)
ConflictsOn(d, p) == {c \in db[d].conflicts : c.op.product = p /\ IsProductOp(c.op)}

(* The user decided one of them: a reviewed edit leaves its optimistic row, *)
(* which nothing takes back, and one without its barcode is based on the    *)
(* row of another product.  A tombstone is final.                          *)
UserDecided(d, p) ==
    \E c \in ConflictsOn(d, p) :
        c.resolution \in {"reviewed", "resolved"} /\ c.reason # "product_deleted"

(* The changes of the product itself. *)
ChangesOf(p) == {s \in DOMAIN feed : IsProductOp(feed[s].op) /\ feed[s].op.product = p}
Made(d, op) == op.id[1] \in {i.id : i \in done[d]}

(* The device deleted the product, and an edit of it that the deletion did  *)
(* not know of reached the server before, or was refused: the results of    *)
(* one batch can leave the edit behind the deletion.                       *)
Overtaken(d, p) ==
    \E s \in ChangesOf(p) :
        /\ feed[s].op.kind = "delete"
        /\ Made(d, feed[s].op)
        /\ \/ ConflictsOn(d, p) # {}
           \/ \E k \in ChangesOf(p) :
                /\ k < s
                /\ Made(d, feed[k].op)
                /\ feed[k].image.version > feed[s].op.base

(* Where a device has nothing to settle for a product, and its cursor has   *)
(* passed every change of it, it shows what the server has, whatever was    *)
(* lost, retried, merged or written in between.                            *)
Converged ==
    \A d \in Devices, p \in Products :
        /\ ~Unsettled(d, p)
        /\ ~UserDecided(d, p)
        /\ ~Overtaken(d, p)
        /\ \A s \in ChangesOf(p) : s <= db[d].cursor
        => ShowsCatalog(d, p)

(* The balance of a device that has caught up is the server's, whatever     *)
(* deltas its stocktakes were made with, unless a movement of its own is    *)
(* not accepted: a rejected one stays in the local ledger.                 *)
BalancesConverge ==
    \A d \in Devices, p \in Products :
        /\ CaughtUp(d)
        /\ db[d].rows[p] # None
        /\ \A m \in MovesOf(db[d], p) : m.status = "synced"
        => db[d].balance[p] = CanonicalBalance(p)

(* Every stocktake that a change within the cursor displaced is shown as a  *)
(* conflict, also when its own answer was lost, replayed or still awaited   *)
(* (ADR 0009: the displaced count is not lost silently).  A snapshot brings *)
(* no history.                                                             *)
DisplacedShown ==
    bootstraps = 0 =>
        \A d \in Devices : \A s \in 1..db[d].cursor : \A op \in feed[s].displaced :
            \E c \in db[d].conflicts : c.op = op /\ c.reason = "stocktake_displaced"

(* The server never refuses a request for what is in it, which would block  *)
(* every operation of the batch for good, and an operation is in it once:   *)
(* whatever the user decided about conflicts, and however batches were cut, *)
(* retried and merged.                                                     *)
RequestsAcceptable ==
    \A q \in wire :
        /\ AcceptableRequest(q.ops)
        /\ \A n, k \in DOMAIN q.ops : q.ops[n].id = q.ops[k].id => n = k

(* The product as it was before change s. *)
PreviousImage(s) ==
    LET earlier == {k \in 1..s - 1 : feed[k].op.product = feed[s].op.product
                                     /\ IsProductOp(feed[k].op)}
    IN  IF earlier = {} THEN plan.opening[feed[s].op.product]
        ELSE feed[CHOOSE k \in earlier : \A j \in earlier : j <= k].image

(* An accepted edit changes the fields its user changed and no other        *)
(* (conflict matrix, disjoint field edits).                                *)
NoLostUpdate ==
    \A s \in DOMAIN feed :
        LET op == feed[s].op IN
        op.kind = "edit" =>
            \A f \in Fields \ Changed(op.basis, op.fields) :
                feed[s].image.fields[f] = PreviousImage(s).fields[f]

(* A tombstone the cursor has passed stays: no late result, replayed        *)
(* outcome, change, merge or choice of the user makes the product active    *)
(* again (conflict matrix: no edit may resurrect a deleted product; the     *)
(* conflict page: no local action can).  One that reconciliation wrote      *)
(* ahead of the cursor may give way until its page is applied.              *)
TombstonesKept ==
    \A d \in Devices, p \in Products :
        LET row == db[d].rows[p] IN
        (row # None /\ row.deleted /\ row.stamp \in 0..db[d].cursor) => db'[d].rows[p].deleted
TombstoneStays == [][TombstonesKept]_vars

(* Every device ends up with every change and an empty outbox: only what     *)
(* was rejected or refused is left.                                         *)
UpToDate(d) ==
    /\ db[d].cursor = Len(feed)
    /\ \A n \in DOMAIN db[d].queue : db[d].queue[n].status \in {"blocked", "parked"}
EventuallyUpToDate == <>[](\A d \in Devices : UpToDate(d))
=============================================================================
