---------------------- MODULE ReplicaConvergenceProofs ----------------------
(***************************************************************************)
(* Proof that the replicas converge: a device that has nothing to settle    *)
(* for a product, and whose cursor has passed every change of it, shows     *)
(* what the server has (ReplicaSync!Converged), for any devices, plans,     *)
(* limits, faults and bounds.                                               *)
(*                                                                         *)
(* Operations of one device can be decided in another order than they were  *)
(* made, because each retries after a delay of its own.  The invariant says *)
(* that wherever this leaves a row behind a change its cursor has passed,   *)
(* something is still to come that repairs it: an upsert without a verdict, *)
(* a later change, or a conflict for the user.                              *)
(***************************************************************************)
EXTENDS ReplicaSyncProofs
-----------------------------------------------------------------------------
(* THE INVARIANT                                                            *)
(*                                                                         *)
(* b is the database of a device, mine the ids of the mutations its user    *)
(* made, O the catalog the devices opened with, C the catalog and F the     *)
(* feed.                                                                    *)

On(op, p) == IsProductOp(op) /\ op.product = p
Upsert(op) == op.kind \in {"create", "edit"}
OfProduct(F, p) == {s \in DOMAIN F : On(F[s].op, p)}
Version(C, p) == IF C[p] = None THEN 0 ELSE C[p].version
Deleted(C, p) == C[p] # None /\ C[p].deleted

(* The versions of a product rise along the feed, to the catalog's; an      *)
(* upsert was accepted on the version it is based on.                       *)
Risen(C, O, F, p) ==
    /\ \A s, k \in OfProduct(F, p) : s < k => F[s].image.version < F[k].image.version
    /\ OfProduct(F, p) = {} => C[p] = O[p]
    /\ \A s \in OfProduct(F, p) : \E k \in OfProduct(F, p) : s <= k /\ C[p] = F[k].image
    /\ \A s \in OfProduct(F, p) : O[p] # None => F[s].image.version > O[p].version
    /\ \A s \in OfProduct(F, p) : Upsert(F[s].op) =>
        /\ F[s].image.version = F[s].op.base + 1
        /\ F[s].image.fields = F[s].op.fields
        /\ ~F[s].image.deleted
    /\ \A s \in OfProduct(F, p) : F[s].op.kind = "delete" =>
        F[s].image.deleted /\ \A k \in OfProduct(F, p) : k <= s

(* What a rejection says of the catalog: a verdict may be old. *)
Told(C, op, r) ==
    ~r.applied =>
        /\ r.reason = "version_conflict" => r.state.version <= Version(C, op.product)
        /\ r.reason = "product_deleted" /\ IsProductOp(op) => r.state # None /\ r.state.deleted
        /\ IsProductOp(op) /\ r.state # None /\ r.state.deleted =>
            r.reason \in {"version_conflict", "product_deleted"} /\ Deleted(C, op.product)
AllTold(C, ops, results) == \A n \in DOMAIN results : Told(C, ops[n], results[n])

(* The operations on products that are queued without a verdict, those on   *)
(* one product, the upserts of them that the server has not accepted, and   *)
(* the local order.                                                        *)
Outbox(b) ==
    {b.queue[n].op : n \in {k \in DOMAIN b.queue :
        b.queue[k].status # "blocked" /\ IsProductOp(b.queue[k].op)}}
Pend(b, p) == {x \in Outbox(b) : x.product = p}
Open(b, F, p) == {x \in Pend(b, p) : Upsert(x) /\ x.id \notin Accepted(F)}
Before(b, x, y) ==
    \E n, k \in DOMAIN b.queue : n < k /\ b.queue[n].op = x /\ b.queue[k].op = y

(* The device has the operation, if at all, as it was sent. *)
Agrees(b, op) ==
    /\ Explained(b, op.id)
    /\ \A n \in DOMAIN b.queue : b.queue[n].op.id = op.id => b.queue[n].op = op

(* The claimed operations are without a verdict, and in local order. *)
ClaimsQueued(b, ops) ==
    /\ \A k \in DOMAIN ops : IsProductOp(ops[k]) => ops[k] \in Outbox(b)
    /\ \A k, m \in DOMAIN ops :
        IsProductOp(ops[k]) /\ IsProductOp(ops[m]) /\ k < m => Before(b, ops[k], ops[m])

(* Conflicts about the product, one of them that the user decides or has    *)
(* decided, and a deletion of the device's own that an edit outran.         *)
Confl(b, p) == {c \in b.conflicts : On(c.op, p)}
Disputed(b, p) ==
    \E c \in Confl(b, p) : c.resolution # "auto_merged" /\ c.reason # "product_deleted"
Outrun(b, mine, F, p) ==
    \E s \in OfProduct(F, p) :
        /\ F[s].op.kind = "delete"
        /\ F[s].op.id[1] \in mine
        /\ \/ Confl(b, p) # {}
           \/ \E k \in OfProduct(F, p) :
                k < s /\ F[k].op.id[1] \in mine /\ F[k].image.version > F[s].op.base
Excused(b, mine, F, p) == Disputed(b, p) \/ Outrun(b, mine, F, p)

(* An operation without a verdict has every version below its own in front  *)
(* of it: what is missing up to the base is queued before it.              *)
Chained(b, mine, C, F, p) ==
    \A e \in Pend(b, p) : e.id \notin Accepted(F) =>
        \/ Excused(b, mine, F, p)
        \/ Deleted(C, p)
        \/ \A k \in Version(C, p) .. e.base - 1 :
                \E y \in Open(b, F, p) : Before(b, y, e) /\ y.base = k

(* When a later operation was accepted before an upsert that may still be,  *)
(* another upsert will be rejected, or comes after both.                    *)
EditsOvertaken(b, mine, C, F, p) ==
    \A e \in Open(b, F, p), g \in Pend(b, p) :
        Before(b, e, g) /\ g.id \in Accepted(F) /\ Version(C, p) <= e.base =>
            \/ Excused(b, mine, F, p)
            \/ Deleted(C, p)
            \/ \E x \in Open(b, F, p) :
                x.base < Version(C, p) \/ (Before(b, g, x) /\ x.base <= e.base)

(* The same for a deletion. *)
DeletionOvertaken(b, mine, C, F, p) ==
    \A e, g \in Pend(b, p) :
        /\ Before(b, e, g)
        /\ e.kind = "delete" /\ e.id \notin Accepted(F)
        /\ g.id \in Accepted(F)
        => \/ Confl(b, p) # {}
           \/ Deleted(C, p)
           \/ \E s \in OfProduct(F, p) : F[s].op.id[1] \in mine /\ F[s].image.version > e.base
           \/ \E x \in Open(b, F, p) : x.base < Version(C, p)

(* Where the feed has two operations of the device the other way round,     *)
(* something comes after both.                                              *)
Inverted(b, mine, F, p) ==
    \A s, k \in OfProduct(F, p) :
        LET e == F[s].op  g == F[k].op IN
        e \in Pend(b, p) /\ g \in Pend(b, p) /\ Before(b, e, g) /\ k < s =>
            \/ Excused(b, mine, F, p)
            \/ Open(b, F, p) # {}
            \/ \E m \in OfProduct(F, p) :
                m > s /\ F[m].op # g /\ ~(F[m].op \in Pend(b, p) /\ Before(b, F[m].op, g))

QueueInv(b, mine, C, F, p) ==
    /\ Chained(b, mine, C, F, p)
    /\ EditsOvertaken(b, mine, C, F, p)
    /\ DeletionOvertaken(b, mine, C, F, p)
    /\ Inverted(b, mine, F, p)

(* An active row is a canonical one or the optimistic one of a pending      *)
(* upsert; a tombstone is canonical or that of a pending deletion.          *)
ServersRow(O, F, p, row) ==
    \/ O[p] # None /\ ~O[p].deleted /\ O[p].version = row.version /\ O[p].fields = row.fields
    \/ \E s \in OfProduct(F, p) :
        /\ ~F[s].image.deleted
        /\ F[s].image.version = row.version
        /\ F[s].image.fields = row.fields
Predicted(b, p, row) ==
    \E x \in Pend(b, p) : Upsert(x) /\ row.version = x.base + 1 /\ row.fields = x.fields
Founded(b, mine, O, C, F, p) ==
    LET row == b.rows[p] IN
    row # None =>
        \/ Excused(b, mine, F, p)
        \/ row.deleted /\ (Deleted(C, p) \/ \E x \in Pend(b, p) : x.kind = "delete")
        \/ ~row.deleted /\ (ServersRow(O, F, p, row) \/ Predicted(b, p, row))

(* The row is there once the cursor has passed a change of the product.     *)
Present(b, O, F, p) ==
    O[p] # None \/ (\E s \in OfProduct(F, p) : s <= b.cursor) => b.rows[p] # None

(* The row is active and older than change m. *)
Behind(b, F, p, m) ==
    b.rows[p] # None /\ ~b.rows[p].deleted /\ b.rows[p].version < F[m].image.version

(* A row that is behind a change the cursor has passed is repaired.         *)
Repaired(b, mine, F, p) ==
    \A m \in OfProduct(F, p) : m <= b.cursor /\ Behind(b, F, p, m) =>
        \/ Excused(b, mine, F, p)
        \/ Open(b, F, p) # {}
        \/ \E s \in OfProduct(F, p) : s > b.cursor

RowInv(b, mine, O, C, F, p) ==
    Founded(b, mine, O, C, F, p) /\ Present(b, O, F, p) /\ Repaired(b, mine, F, p)

(* So is one that is behind a change that reconciliation wrote ahead of the *)
(* cursor: S are the changes written so far, of those of page from+1..to.   *)
AheadRepaired(b, mine, F, S, from, to, p) ==
    \A m \in OfProduct(F, p) \cap S : from < m /\ m <= to =>
        /\ b.rows[p] # None
        /\ Behind(b, F, p, m) =>
            \/ Excused(b, mine, F, p)
            \/ Open(b, F, p) # {}
            \/ \E s \in OfProduct(F, p) : s > m /\ (s > to \/ s \notin S)
AheadKept(b, mine, F, h, mine2, G, p) ==
    \A S, from, to :
        AheadRepaired(b, mine, F, S, from, to, p) => AheadRepaired(h, mine2, G, S, from, to, p)
-----------------------------------------------------------------------------
(* THE QUEUE                                                                *)

(* Operations on products leave the outbox and enter it at its end; the     *)
(* others stay in their order.                                             *)
Turns(b, h, gone, new) ==
    /\ Outbox(h) = (Outbox(b) \ gone) \cup new
    /\ new \cap Outbox(b) = {}
    /\ \A x, y \in Outbox(b) \ gone : Before(h, x, y) <=> Before(b, x, y)
    /\ \A x \in Outbox(b) \ gone, y \in new : Before(h, x, y) /\ ~Before(h, y, x)
    /\ \A x, y \in new : ~Before(h, x, y)

QueueOps(b) == {b.queue[n].op : n \in DOMAIN b.queue}

(* The local order is an order. *)
LEMMA LocalOrder ==
    ASSUME NEW own, NEW b \in Database, GoodQueue(b, own)
    PROVE  /\ \A x : ~Before(b, x, x)
           /\ \A x, y : Before(b, x, y) => ~Before(b, y, x)
           /\ \A x, y, z : Before(b, x, y) /\ Before(b, y, z) => Before(b, x, z)
           /\ \A x, y : Before(b, x, y) => x \in QueueOps(b) /\ y \in QueueOps(b)
<1>1. \A n \in DOMAIN b.queue : n \in Nat
  BY DEF Database
<1>2. \A n, k \in DOMAIN b.queue : b.queue[n].op = b.queue[k].op => n = k
  BY DEF GoodQueue
<1> QED BY <1>1, <1>2 DEF Before, QueueOps

(* What is in the outbox is queued, an operation of the device on a product,*)
(* and the only one with its id.                                           *)
LEMMA OutboxSays ==
    ASSUME NEW own, NEW b, GoodQueue(b, own)
    PROVE  /\ Outbox(b) \subseteq QueueOps(b) /\ QueueOps(b) \subseteq own
           /\ \A x \in Outbox(b) : IsProductOp(x)
           /\ \A x, y \in QueueOps(b) : x.id = y.id => x = y
  BY DEF Outbox, QueueOps, GoodQueue

(* Rows that stay, but for the status of movements, keep the outbox.        *)
LEMMA RelabelTurns ==
    ASSUME NEW b, NEW h, DOMAIN h.queue = DOMAIN b.queue,
           \A n \in DOMAIN b.queue :
              /\ h.queue[n].op = b.queue[n].op
              /\ IsProductOp(b.queue[n].op) =>
                    (h.queue[n].status = "blocked" <=> b.queue[n].status = "blocked")
    PROVE  Turns(b, h, {}, {}) /\ QueueOps(h) = QueueOps(b)
<1>1. Outbox(h) = Outbox(b)
  BY DEF Outbox
<1>2. \A x, y : Before(h, x, y) <=> Before(b, x, y)
  BY DEF Before
<1>3. QueueOps(h) = QueueOps(b)
  BY DEF QueueOps
<1> QED BY <1>1, <1>2, <1>3 DEF Turns

(* An operation that is new is queued last. *)
LEMMA EnqueueTurns ==
    ASSUME NEW own, NEW b \in Database, GoodQueue(b, own), NEW next, next.id \notin QueuedIds(b)
    PROVE  LET h == Enqueue(b, next) IN
           /\ Turns(b, h, {}, IF IsProductOp(next) THEN {next} ELSE {})
           /\ QueueOps(h) = QueueOps(b) \cup {next}
<1> DEFINE h == Enqueue(b, next)
           new == [op |-> next, status |-> "queued"]
           q == Append(b.queue, new)
           L == Len(b.queue)
<1>1. b.queue \in Seq(QueueRow) /\ L \in Nat /\ DOMAIN b.queue = 1..L
  BY DEF Database
<1>2. DOMAIN q = 1..(L + 1) /\ q[L + 1] = new /\ \A n \in 1..L : q[n] = b.queue[n]
  <2> HIDE DEF new
  <2> QED BY <1>1
<1>3. h.queue = q
  BY DEF Enqueue, Database
<1>4. new.op = next /\ new.status = "queued"
  OBVIOUS
<1> HIDE DEF q, h, new, L
<1>5. \A n : n \in 1..(L + 1) <=> n \in 1..L \/ n = L + 1
  BY <1>1
<1>6. \A n \in DOMAIN b.queue : b.queue[n].op # next
  BY DEF QueuedIds
<1>7. Outbox(h) = Outbox(b) \cup IF IsProductOp(next) THEN {next} ELSE {}
  <2>1. ASSUME NEW x \in Outbox(h) PROVE x \in Outbox(b) \/ (x = next /\ IsProductOp(next))
    BY <1>1, <1>2, <1>3, <1>4, <1>5 DEF Outbox
  <2>2. ASSUME NEW x \in Outbox(b) PROVE x \in Outbox(h)
    BY <1>1, <1>2, <1>3, <1>4, <1>5 DEF Outbox
  <2>3. ASSUME IsProductOp(next) PROVE next \in Outbox(h)
    <3>1. L + 1 \in DOMAIN h.queue /\ h.queue[L + 1].op = next /\ h.queue[L + 1].status # "blocked"
      BY <1>1, <1>2, <1>3, <1>4
    <3> QED BY <2>3, <3>1 DEF Outbox
  <2> QED BY <2>1, <2>2, <2>3
<1>8. QueueOps(h) = QueueOps(b) \cup {next}
  BY <1>1, <1>2, <1>3, <1>4, <1>5 DEF QueueOps
<1>9. next \notin QueueOps(b)
  BY <1>6 DEF QueueOps
<1>10. ASSUME NEW x \in QueueOps(b), NEW y \in QueueOps(b) PROVE Before(h, x, y) <=> Before(b, x, y)
  <2>1. ASSUME Before(h, x, y) PROVE Before(b, x, y)
    <3>1. PICK n, k \in DOMAIN h.queue : n < k /\ h.queue[n].op = x /\ h.queue[k].op = y
      BY <2>1 DEF Before
    <3>2. n # L + 1 /\ k # L + 1
      BY <1>2, <1>3, <1>4, <1>9, <3>1
    <3>3. n \in 1..L /\ k \in 1..L
      BY <1>2, <1>3, <1>5, <3>1, <3>2
    <3> QED BY <1>1, <1>2, <1>3, <3>1, <3>3 DEF Before
  <2>2. ASSUME Before(b, x, y) PROVE Before(h, x, y)
    <3>1. PICK n, k \in DOMAIN b.queue : n < k /\ b.queue[n].op = x /\ b.queue[k].op = y
      BY <2>2 DEF Before
    <3>2. n \in DOMAIN h.queue /\ k \in DOMAIN h.queue
      BY <1>1, <1>2, <1>3, <1>5, <3>1
    <3> QED BY <1>1, <1>2, <1>3, <3>1, <3>2 DEF Before
  <2> QED BY <2>1, <2>2
<1>11. ASSUME NEW y PROVE ~Before(h, next, y)
  <2>1. SUFFICES ASSUME NEW n \in DOMAIN h.queue, NEW k \in DOMAIN h.queue, n < k, h.queue[n].op = next
                 PROVE  FALSE
    BY DEF Before
  <2>2. n = L + 1
    BY <1>1, <1>2, <1>3, <1>5, <1>6, <2>1
  <2> QED BY <1>1, <1>2, <1>3, <2>1, <2>2
<1>12. ASSUME NEW x \in QueueOps(b) PROVE Before(h, x, next)
  <2>1. PICK n \in DOMAIN b.queue : b.queue[n].op = x
    BY DEF QueueOps
  <2>2. n \in DOMAIN h.queue /\ L + 1 \in DOMAIN h.queue /\ n < L + 1
    BY <1>1, <1>2, <1>3, <2>1
  <2>3. h.queue[n].op = x /\ h.queue[L + 1].op = next
    BY <1>1, <1>2, <1>3, <1>4, <2>1
  <2> QED BY <2>2, <2>3 DEF Before
<1>13. Outbox(b) \subseteq QueueOps(b)
  BY DEF Outbox, QueueOps
<1> QED BY <1>7, <1>8, <1>9, <1>10, <1>11, <1>12, <1>13 DEF Turns, h

(* An operation that is dequeued leaves the others in their order.          *)
LEMMA DequeueTurns ==
    ASSUME NEW own, NEW b \in Database, GoodQueue(b, own), NEW op \in QueueOps(b)
    PROVE  LET h == Dequeue(b, op.id) IN
           Turns(b, h, {op}, {}) /\ QueueOps(h) \subseteq QueueOps(b)
<1> DEFINE I == {n \in DOMAIN b.queue : b.queue[n].op.id # op.id}
           q == At(b.queue, I)
           h == Dequeue(b, op.id)
<1>1. b.queue \in Seq(QueueRow)
  BY DEF Database
<1>2. I \in SUBSET DOMAIN b.queue
  OBVIOUS
<1>3. /\ \A m \in DOMAIN q : \E n \in I : q[m] = b.queue[n]
      /\ \A n \in I : \E m \in DOMAIN q : q[m] = b.queue[n]
      /\ \A m, k \in DOMAIN q : m < k =>
            \E i, j \in I : i < j /\ q[m] = b.queue[i] /\ q[k] = b.queue[j]
      /\ \A i, j \in I : i < j =>
            \E m, k \in DOMAIN q : m < k /\ q[m] = b.queue[i] /\ q[k] = b.queue[j]
  <2> DEFINE rows == b.queue
             T == QueueRow
  <2> HIDE DEF I, T, rows
  <2>1. rows \in Seq(T) /\ I \in SUBSET DOMAIN rows
    BY <1>1, <1>2 DEF rows, T
  <2>2. /\ \A m \in DOMAIN At(rows, I) : \E n \in I : At(rows, I)[m] = rows[n]
        /\ \A n \in I : \E m \in DOMAIN At(rows, I) : At(rows, I)[m] = rows[n]
        /\ \A m, k \in DOMAIN At(rows, I) : m < k =>
              \E i, j \in I : i < j /\ At(rows, I)[m] = rows[i] /\ At(rows, I)[k] = rows[j]
        /\ \A i, j \in I : i < j =>
              \E m, k \in DOMAIN At(rows, I) : m < k /\ At(rows, I)[m] = rows[i] /\ At(rows, I)[k] = rows[j]
    BY <2>1, AtElements
  <2> QED BY <2>2 DEF rows, T
<1>4. h.queue = q
  BY DEF Dequeue, Database
<1>5. \A n \in DOMAIN b.queue : n \in I <=> b.queue[n].op # op
  BY DEF GoodQueue, QueueOps
<1> HIDE DEF I, q, h
<1>6. Outbox(h) = Outbox(b) \ {op}
  BY <1>2, <1>3, <1>4, <1>5 DEF Outbox
<1>7. QueueOps(h) \subseteq QueueOps(b)
  BY <1>2, <1>3, <1>4 DEF QueueOps
<1>8. ASSUME NEW x, NEW y, x # op, y # op PROVE Before(h, x, y) <=> Before(b, x, y)
  <2>1. ASSUME Before(h, x, y) PROVE Before(b, x, y)
    BY <1>2, <1>3, <1>4, <2>1 DEF Before
  <2>2. ASSUME Before(b, x, y) PROVE Before(h, x, y)
    <3>1. PICK n, k \in DOMAIN b.queue : n < k /\ b.queue[n].op = x /\ b.queue[k].op = y
      BY <2>2 DEF Before
    <3>2. n \in I /\ k \in I
      BY <1>5, <1>8, <3>1
    <3> QED BY <1>3, <1>4, <3>1, <3>2 DEF Before
  <2> QED BY <2>1, <2>2
<1> QED BY <1>6, <1>7, <1>8 DEF Turns, h

(* An inflight operation that is blocked leaves the others in their order.  *)
LEMMA BlockTurns ==
    ASSUME NEW own, NEW b \in Database, GoodQueue(b, own), NEW op \in QueueOps(b),
           StatusOf(b, op.id) = {"inflight"}, NEW c
    PROVE  LET h == Blocked(b, op, c) IN
           Turns(b, h, {op}, {}) /\ QueueOps(h) = QueueOps(b)
<1> DEFINE h == Blocked(b, op, c)
           q == [n \in DOMAIN b.queue |->
                    IF b.queue[n].op.id \in {op.id} /\ b.queue[n].status = "inflight"
                    THEN [b.queue[n] EXCEPT !.status = "blocked"] ELSE b.queue[n]]
<1>1. h.queue = q
  BY DEF Blocked, WithConflict, Restatus, Database
<1>2. \A n \in DOMAIN b.queue : b.queue[n].op = op <=> b.queue[n].op.id = op.id
  BY DEF GoodQueue, QueueOps
<1>3. \A n \in DOMAIN b.queue : b.queue[n].op = op => b.queue[n].status = "inflight"
  BY DEF StatusOf
<1>4. ASSUME NEW n \in DOMAIN b.queue
      PROVE  /\ q[n].op = b.queue[n].op
             /\ q[n].status = IF b.queue[n].op = op THEN "blocked" ELSE b.queue[n].status
  <2>1. b.queue[n] \in QueueRow
    BY DEF Database
  <2> QED BY <1>2, <1>3, <2>1 DEF QueueRow
<1>5. DOMAIN q = DOMAIN b.queue
  OBVIOUS
<1> HIDE DEF q, h
<1>6. Outbox(h) = Outbox(b) \ {op}
  BY <1>1, <1>4, <1>5 DEF Outbox
<1>7. QueueOps(h) = QueueOps(b)
  BY <1>1, <1>4, <1>5 DEF QueueOps
<1>8. \A x, y : Before(h, x, y) <=> Before(b, x, y)
  BY <1>1, <1>4, <1>5 DEF Before
<1> QED BY <1>6, <1>7, <1>8 DEF Turns, h

(* One step of the outbox after another. *)
LEMMA TurnsOn ==
    ASSUME NEW b, NEW g, NEW h, NEW gone, NEW gone2, NEW new,
           Turns(b, g, gone, {}), Turns(g, h, gone2, new), new \cap Outbox(b) = {}
    PROVE  Turns(b, h, gone \cup gone2, new)
<1>1. Outbox(g) \ gone2 = Outbox(b) \ (gone \cup gone2)
  BY DEF Turns
<1> QED BY <1>1 DEF Turns
-----------------------------------------------------------------------------
(* WHAT IS GIVEN                                                            *)

(* What the catalog, the feed and the operations of a device keep to; an    *)
(* operation is the device's own when its mutation was made there.          *)
Grounds(own, known, mine, O, C, F) ==
    /\ World(own, known, F)
    /\ O \in [Products -> Image \cup {None}]
    /\ C \in [Products -> Image \cup {None}]
    /\ \A p \in Products :
        /\ Risen(C, O, F, p)
        /\ O[p] # None /\ O[p].deleted => OfProduct(F, p) = {}
    /\ \A op \in known : op \in own <=> op.id[1] \in mine

(* The database keeps to them, and has its operations as the feed has them. *)
Local(b, own, known, F) ==
    /\ Good(b, own, known, Accepted(F))
    /\ \A s \in DOMAIN F : F[s].op \in own => Agrees(b, F[s].op)

(* The versions of a product, its last change, and its deletion.            *)
LEMMA VersionsRise ==
    ASSUME NEW own, NEW known, NEW mine, NEW O, NEW C, NEW F, Grounds(own, known, mine, O, C, F),
           NEW p \in Products
    PROVE  /\ Version(C, p) \in Nat
           /\ C[p] # None => C[p].version = Version(C, p)
           /\ O[p] # None => C[p] # None /\ O[p].version <= Version(C, p) /\ O[p].version \in Nat \ {0}
           /\ \A s \in OfProduct(F, p) :
                /\ s \in Nat \ {0} /\ s \in DOMAIN F /\ F[s].op \in known
                /\ F[s].image \in Image /\ F[s].image.version \in Nat \ {0}
                /\ F[s].image.version <= Version(C, p) /\ C[p] # None
                /\ Upsert(F[s].op) <=> F[s].op.kind # "delete"
                /\ F[s].image.deleted <=> F[s].op.kind = "delete"
           /\ \A s, k \in OfProduct(F, p) :
                /\ s < k <=> F[s].image.version < F[k].image.version
                /\ s = k <=> F[s].image.version = F[k].image.version
           /\ OfProduct(F, p) # {} =>
                \E l \in OfProduct(F, p) : C[p] = F[l].image /\ \A s \in OfProduct(F, p) : s <= l
           /\ \A s \in OfProduct(F, p) : F[s].op.kind = "delete" =>
                Deleted(C, p) /\ \A k \in OfProduct(F, p) : k <= s
<1>1. /\ Risen(C, O, F, p) /\ F \in Seq(Change) /\ C[p] \in Image \cup {None} /\ O[p] \in Image \cup {None}
      /\ \A s \in DOMAIN F : F[s].op \in known
      /\ \A s \in DOMAIN F : IsProductOp(F[s].op) => F[s].image \in Image
  BY DEF Grounds, World, FeedOk
<1>2. None \notin Image
  BY NoneIsNoData
<1>3. \A i \in Image : i.version \in Nat \ {0} /\ i.deleted \in BOOLEAN
  BY DEF Image
<1>4. Version(C, p) \in Nat /\ (C[p] # None => C[p].version = Version(C, p))
  BY <1>1, <1>3 DEF Version
<1>5. ASSUME NEW s \in OfProduct(F, p)
      PROVE  /\ s \in Nat \ {0} /\ s \in DOMAIN F /\ F[s].op \in known
             /\ F[s].image \in Image /\ F[s].image.version \in Nat \ {0}
             /\ Upsert(F[s].op) <=> F[s].op.kind # "delete"
             /\ F[s].image.deleted <=> F[s].op.kind = "delete"
  <2>1. s \in DOMAIN F /\ IsProductOp(F[s].op) /\ s \in Nat \ {0}
    BY <1>1 DEF OfProduct, On
  <2>2. Upsert(F[s].op) <=> F[s].op.kind # "delete"
    BY <2>1 DEF Upsert, IsProductOp
  <2>3. F[s].image \in Image /\ F[s].image.version \in Nat \ {0}
    BY <1>1, <1>3, <2>1
  <2>4. F[s].image.deleted <=> F[s].op.kind = "delete"
    BY <1>1, <2>2 DEF Risen
  <2> QED BY <1>1, <2>1, <2>2, <2>3, <2>4
<1>6. ASSUME NEW s \in OfProduct(F, p), NEW k \in OfProduct(F, p)
      PROVE  /\ s < k <=> F[s].image.version < F[k].image.version
             /\ s = k <=> F[s].image.version = F[k].image.version
  <2>1. s \in Nat /\ k \in Nat /\ F[s].image.version \in Nat /\ F[k].image.version \in Nat
    BY <1>5
  <2>2. s < k => F[s].image.version < F[k].image.version
    BY <1>1 DEF Risen
  <2>3. k < s => F[k].image.version < F[s].image.version
    BY <1>1 DEF Risen
  <2> QED BY <2>1, <2>2, <2>3
<1>7. ASSUME NEW s \in OfProduct(F, p)
      PROVE  /\ F[s].image.version <= Version(C, p) /\ C[p] # None
             /\ \E l \in OfProduct(F, p) : C[p] = F[l].image /\ \A k \in OfProduct(F, p) : k <= l
  <2>1. PICK l \in OfProduct(F, p) : s <= l /\ C[p] = F[l].image
    BY <1>1 DEF Risen
  <2>2. ASSUME NEW k \in OfProduct(F, p) PROVE k <= l
    <3>1. PICK j \in OfProduct(F, p) : k <= j /\ C[p] = F[j].image
      BY <1>1 DEF Risen
    <3>2. j = l
      BY <1>6, <2>1, <3>1
    <3> QED BY <3>1, <3>2
  <2>3. F[l].image # None /\ F[l].image.version = Version(C, p)
    BY <1>2, <1>4, <1>5, <2>1
  <2>4. F[s].image.version <= F[l].image.version
    BY <1>5, <1>6, <2>1
  <2> QED BY <2>1, <2>2, <2>3, <2>4
<1>8. O[p] # None => C[p] # None /\ O[p].version <= Version(C, p) /\ O[p].version \in Nat \ {0}
  <2>1. CASE OfProduct(F, p) = {}
    BY <1>1, <1>3, <1>4, <2>1 DEF Risen
  <2>2. CASE OfProduct(F, p) # {}
    <3>1. PICK s \in OfProduct(F, p) : TRUE
      BY <2>2
    <3>2. O[p] # None => F[s].image.version > O[p].version /\ O[p].version \in Nat \ {0}
      BY <1>1, <1>3 DEF Risen
    <3> QED BY <1>4, <1>5, <1>7, <3>1, <3>2
  <2> QED BY <2>1, <2>2
<1>9. ASSUME NEW s \in OfProduct(F, p), F[s].op.kind = "delete"
      PROVE  Deleted(C, p) /\ \A k \in OfProduct(F, p) : k <= s
  <2>1. \A k \in OfProduct(F, p) : k <= s
    BY <1>1, <1>9 DEF Risen
  <2>2. PICK l \in OfProduct(F, p) : C[p] = F[l].image /\ s <= l
    BY <1>7
  <2>3. l = s
    BY <1>5, <2>1, <2>2
  <2> QED BY <1>2, <1>5, <1>9, <2>1, <2>2, <2>3 DEF Deleted
<1> QED BY <1>4, <1>5, <1>6, <1>7, <1>8, <1>9

(* A deletion of the device's own that an edit outran is final.             *)
LEMMA OutrunIsDeleted ==
    ASSUME NEW own, NEW known, NEW mine, NEW O, NEW C, NEW F, Grounds(own, known, mine, O, C, F),
           NEW p \in Products, NEW b, Outrun(b, mine, F, p)
    PROVE  Deleted(C, p)
  BY VersionsRise DEF Outrun

(* A queued operation that was accepted is in the feed as it was queued.    *)
LEMMA AcceptedIsInFeed ==
    ASSUME NEW own, NEW known, NEW mine, NEW O, NEW C, NEW F, Grounds(own, known, mine, O, C, F),
           NEW b, Local(b, own, known, F), NEW p, NEW x \in Pend(b, p), x.id \in Accepted(F)
    PROVE  \E s \in OfProduct(F, p) : F[s].op = x
<1>1. x \in QueueOps(b) /\ x \in own /\ IsProductOp(x) /\ x.product = p
  BY OutboxSays DEF Pend, Local, Good
<1>2. PICK s \in DOMAIN F : F[s].op.id = x.id
  BY DEF Accepted
<1>3. F[s].op \in known /\ x \in known
  BY <1>1 DEF Grounds, World, FeedOk, Family
<1>4. F[s].op \in own
  BY <1>1, <1>2, <1>3 DEF Grounds
<1>5. Agrees(b, F[s].op)
  BY <1>4 DEF Local
<1>6. F[s].op = x
  BY <1>1, <1>2, <1>5 DEF Agrees, QueueOps
<1> QED BY <1>1, <1>6 DEF OfProduct, On

(* A queued operation of a device is no other device's.                     *)
LEMMA PendIsOwn ==
    ASSUME NEW own, NEW known, NEW mine, NEW O, NEW C, NEW F, Grounds(own, known, mine, O, C, F),
           NEW b, Local(b, own, known, F), NEW p, NEW x \in Pend(b, p)
    PROVE  /\ x \in own /\ x \in known /\ x \in Operation /\ x.id[1] \in mine /\ x.base \in Nat
           /\ IsProductOp(x) /\ x.product = p /\ (Upsert(x) <=> x.kind # "delete")
<1>1. x \in own /\ IsProductOp(x) /\ x.product = p
  BY OutboxSays DEF Pend, Local, Good
<1>2. x \in known /\ x \in Operation
  BY <1>1 DEF Grounds, World, Family
<1> QED BY <1>1, <1>2 DEF Grounds, Operation, Upsert, IsProductOp
-----------------------------------------------------------------------------
(* THE QUEUE OF ONE PRODUCT                                                 *)

(* What the turns are for one product. *)
LaneTurns(b, h, p, gone, new) ==
    /\ Pend(h, p) = (Pend(b, p) \ gone) \cup new
    /\ new \cap Pend(b, p) = {}
    /\ \A x, y \in Pend(b, p) \ gone : Before(h, x, y) <=> Before(b, x, y)
    /\ \A x \in Pend(b, p) \ gone, y \in new : Before(h, x, y) /\ ~Before(h, y, x)
    /\ \A x, y \in new : ~Before(h, x, y)

(* Turns of the outbox are turns for the product, and for the others none.  *)
LEMMA TurnsInLane ==
    ASSUME NEW b, NEW h, NEW gone, NEW new, Turns(b, h, gone, new), NEW p
    PROVE  /\ (\A x \in gone \cup new : x.product = p) => LaneTurns(b, h, p, gone, new)
           /\ (\A x \in gone \cup new : x.product # p) => LaneTurns(b, h, p, {}, {})
<1>1. \A x : x \in Pend(b, p) <=> x \in Outbox(b) /\ x.product = p
  BY DEF Pend
<1>2. \A x : x \in Pend(h, p) <=> x \in Outbox(h) /\ x.product = p
  BY DEF Pend
<1> QED BY <1>1, <1>2 DEF Turns, LaneTurns

(* Conflicts stay, those for the user too. *)
Grown(b, h, p) ==
    /\ Confl(b, p) # {} => Confl(h, p) # {}
    /\ Disputed(b, p) => Disputed(h, p)

(* What is excused stays so when conflicts stay.                            *)
LEMMA ExcusedStays ==
    ASSUME NEW b, NEW h, NEW p, Grown(b, h, p), NEW mine, NEW mine2, mine \subseteq mine2, NEW F,
           Excused(b, mine, F, p)
    PROVE  Excused(h, mine2, F, p)
  BY DEF Excused, Grown, Outrun

(* Turns without a change, and those of an accepted operation, keep what    *)
(* the queue of the product says.                                          *)
LEMMA QueueAccepts ==
    ASSUME NEW b, NEW h, NEW p, NEW F, NEW gone, LaneTurns(b, h, p, gone, {}),
           \A x \in gone : x.id \in Accepted(F), Grown(b, h, p), NEW mine, NEW C,
           QueueInv(b, mine, C, F, p)
    PROVE  QueueInv(h, mine, C, F, p) /\ Open(h, F, p) = Open(b, F, p)
<1>1. Pend(h, p) = Pend(b, p) \ gone /\ Open(h, F, p) = Open(b, F, p)
  BY DEF LaneTurns, Open
<1>2. \A x, y \in Pend(h, p) : Before(h, x, y) <=> Before(b, x, y)
  BY DEF LaneTurns
<1>3. Open(h, F, p) \subseteq Pend(h, p)
  BY DEF Open
<1>4. Excused(b, mine, F, p) => Excused(h, mine, F, p)
  BY ExcusedStays
<1>5. Chained(h, mine, C, F, p)
  BY <1>1, <1>2, <1>3, <1>4 DEF QueueInv, Chained
<1>6. EditsOvertaken(h, mine, C, F, p)
  BY <1>1, <1>2, <1>3, <1>4 DEF QueueInv, EditsOvertaken
<1>7. DeletionOvertaken(h, mine, C, F, p)
  BY <1>1, <1>2, <1>3 DEF QueueInv, DeletionOvertaken, Grown
<1>8. Inverted(h, mine, F, p)
  BY <1>1, <1>2, <1>3, <1>4 DEF QueueInv, Inverted
<1> QED BY <1>1, <1>5, <1>6, <1>7, <1>8 DEF QueueInv

(* A rejected upsert is merged into an edit of a later version, queued last. *)
LEMMA QueueMerges ==
    ASSUME NEW own, NEW known, NEW mine, NEW O, NEW C, NEW F, Grounds(own, known, mine, O, C, F),
           NEW p \in Products, NEW b, Local(b, own, known, F), NEW h, NEW op, NEW next,
           LaneTurns(b, h, p, {op}, {next}), Grown(b, h, p), Confl(h, p) # {},
           next.id \notin Accepted(F), Upsert(next), next.base \in Nat, op.base \in Nat,
           op.base < next.base, next.base <= Version(C, p), QueueInv(b, mine, C, F, p)
    PROVE  QueueInv(h, mine, C, F, p) /\ next \in Open(h, F, p)
<1>1. Pend(h, p) = (Pend(b, p) \ {op}) \cup {next} /\ next \in Open(h, F, p) /\ Open(h, F, p) \subseteq Pend(h, p)
  BY DEF LaneTurns, Open
<1>2. Open(b, F, p) \ {op} \subseteq Open(h, F, p)
  BY <1>1 DEF Open
<1>3. \A x, y \in Pend(b, p) \ {op} : Before(h, x, y) <=> Before(b, x, y)
  BY DEF LaneTurns
<1>4. Excused(b, mine, F, p) => Excused(h, mine, F, p)
  BY ExcusedStays
<1>5. Version(C, p) \in Nat
  BY VersionsRise
<1>6. \A x \in Pend(b, p) : x.base \in Nat
  BY PendIsOwn
<1>7. ASSUME NEW e \in Pend(h, p), e.id \notin Accepted(F), ~Excused(h, mine, F, p), ~Deleted(C, p),
             NEW k \in Version(C, p) .. e.base - 1
      PROVE  \E y \in Open(h, F, p) : Before(h, y, e) /\ y.base = k
  <2>1. e \in Pend(b, p) \ {op}
    BY <1>1, <1>5, <1>7
  <2>2. PICK y \in Open(b, F, p) : Before(b, y, e) /\ y.base = k
    BY <1>4, <1>7, <2>1 DEF QueueInv, Chained
  <2>3. y # op
    BY <1>5, <1>7, <2>2
  <2>4. y \in Pend(b, p) \ {op}
    BY <2>2, <2>3 DEF Open
  <2> QED BY <1>2, <1>3, <2>1, <2>2, <2>3, <2>4
<1>8. Chained(h, mine, C, F, p)
  BY <1>7 DEF Chained
<1>9. EditsOvertaken(h, mine, C, F, p)
  <2>1. SUFFICES ASSUME NEW e \in Open(h, F, p), NEW g \in Pend(h, p), Before(h, e, g), g.id \in Accepted(F),
                        Version(C, p) <= e.base
                 PROVE  Before(h, g, next) /\ next.base <= e.base
    BY <1>1 DEF EditsOvertaken
  <2>2. g \in Pend(b, p) \ {op}
    BY <1>1, <2>1
  <2>3. e # next
    BY <2>1, <2>2 DEF LaneTurns
  <2>4. e \in Pend(b, p) \ {op}
    BY <1>1, <2>3
  <2>5. Before(h, g, next)
    BY <2>2 DEF LaneTurns
  <2> QED BY <1>5, <1>6, <2>1, <2>4, <2>5
<1>10. DeletionOvertaken(h, mine, C, F, p)
  BY DEF DeletionOvertaken
<1>11. Inverted(h, mine, F, p)
  BY <1>1 DEF Inverted
<1> QED BY <1>1, <1>8, <1>9, <1>10, <1>11 DEF QueueInv

(* What the user decides, or has decided, excuses everything.               *)
LEMMA QueueDisputes ==
    ASSUME NEW own, NEW known, NEW mine, NEW O, NEW C, NEW F, Grounds(own, known, mine, O, C, F),
           NEW p \in Products, NEW h, Excused(h, mine, F, p)
    PROVE  QueueInv(h, mine, C, F, p)
<1>1. Confl(h, p) # {} \/ Deleted(C, p)
  BY OutrunIsDeleted DEF Excused, Disputed
<1> QED BY <1>1 DEF QueueInv, Chained, EditsOvertaken, DeletionOvertaken, Inverted

(* A deletion is final: whatever is queued, the last change of the product  *)
(* comes after it, or outran it.                                           *)
LEMMA QueueEnds ==
    ASSUME NEW own, NEW known, NEW mine, NEW O, NEW C, NEW F, Grounds(own, known, mine, O, C, F),
           NEW p \in Products, NEW h, Local(h, own, known, F), Deleted(C, p), Confl(h, p) # {}
    PROVE  QueueInv(h, mine, C, F, p)
<1>1. SUFFICES Inverted(h, mine, F, p)
  BY DEF QueueInv, Chained, EditsOvertaken, DeletionOvertaken
<1>2. SUFFICES ASSUME ~Excused(h, mine, F, p), NEW s \in OfProduct(F, p), NEW k \in OfProduct(F, p),
                      F[s].op \in Pend(h, p), F[k].op \in Pend(h, p), k < s
               PROVE  \E m \in OfProduct(F, p) : m > s /\ F[m].op # F[k].op /\ F[m].op \notin Pend(h, p)
  BY DEF Inverted
<1>3. PICK l \in OfProduct(F, p) : C[p] = F[l].image /\ \A m \in OfProduct(F, p) : m <= l
  BY VersionsRise
<1>4. F[l].op.kind = "delete"
  BY <1>3, VersionsRise DEF Deleted
<1>5. F[l].op.id[1] \notin mine
  BY <1>2, <1>3, <1>4 DEF Excused, Outrun
<1>6. \A x \in Pend(h, p) : x.id[1] \in mine
  BY PendIsOwn
<1>7. l # s /\ s <= l /\ l \in Nat /\ s \in Nat
  BY <1>2, <1>3, <1>5, <1>6, VersionsRise
<1> QED BY <1>2, <1>3, <1>5, <1>6, <1>7

(* A mutation is queued last: its base is the catalog's version, or the one *)
(* that an upsert before it is to make.                                    *)
LEMMA QueueMutates ==
    ASSUME NEW own, NEW known, NEW mine, NEW O, NEW C, NEW F, Grounds(own, known, mine, O, C, F),
           NEW p \in Products, NEW b, Local(b, own, known, F), NEW h, NEW x,
           LaneTurns(b, h, p, {}, {x}), Grown(b, h, p), NEW mine2, mine \subseteq mine2,
           x.id \notin Accepted(F), x.base \in Nat,
           x.base = 0 \/ (b.rows[p] # None /\ ~b.rows[p].deleted /\ x.base = b.rows[p].version),
           Founded(b, mine, O, C, F, p), QueueInv(b, mine, C, F, p)
    PROVE  QueueInv(h, mine2, C, F, p) /\ Pend(h, p) = Pend(b, p) \cup {x}
           /\ Open(b, F, p) \subseteq Open(h, F, p)
<1>1. Pend(h, p) = Pend(b, p) \cup {x} /\ Open(b, F, p) \subseteq Open(h, F, p)
  BY DEF LaneTurns, Open
<1>2. \A y, z \in Pend(b, p) : Before(h, y, z) <=> Before(b, y, z)
  BY DEF LaneTurns
<1>3. \A y \in Pend(b, p) : Before(h, y, x) /\ ~Before(h, x, y) /\ y # x
  BY DEF LaneTurns
<1>4. Excused(b, mine, F, p) => Excused(h, mine2, F, p)
  BY ExcusedStays
<1>5. Version(C, p) \in Nat
  BY VersionsRise
<1>6. \A y \in Pend(b, p) : y.base \in Nat
  BY PendIsOwn
<1>7. Open(b, F, p) \subseteq Pend(b, p)
  BY DEF Open
<1>8. ASSUME ~Excused(h, mine2, F, p), ~Deleted(C, p), NEW k \in Version(C, p) .. x.base - 1
      PROVE  \E y \in Open(b, F, p) : y.base = k
  <2>1. b.rows[p] # None /\ ~b.rows[p].deleted /\ x.base = b.rows[p].version /\ x.base > Version(C, p)
    BY <1>5, <1>8
  <2>2. ~ServersRow(O, F, p, b.rows[p])
    <3>1. O[p] # None => O[p].version <= Version(C, p) /\ O[p].version \in Nat
      BY VersionsRise
    <3>2. \A s \in OfProduct(F, p) : F[s].image.version <= Version(C, p) /\ F[s].image.version \in Nat
      BY VersionsRise
    <3> QED BY <1>5, <2>1, <3>1, <3>2 DEF ServersRow
  <2>3. PICK z \in Pend(b, p) : Upsert(z) /\ x.base = z.base + 1
    BY <1>4, <1>8, <2>1, <2>2 DEF Founded, Predicted
  <2>4. z.id \notin Accepted(F)
    <3>1. SUFFICES ASSUME z.id \in Accepted(F) PROVE FALSE
      OBVIOUS
    <3>2. PICK s \in OfProduct(F, p) : F[s].op = z
      BY <3>1, AcceptedIsInFeed
    <3>3. Risen(C, O, F, p)
      BY DEF Grounds
    <3>4. F[s].image.version = z.base + 1
      BY <2>3, <3>2, <3>3 DEF Risen
    <3>5. F[s].image.version <= Version(C, p)
      BY VersionsRise
    <3> QED BY <1>5, <1>6, <2>1, <2>3, <3>4, <3>5
  <2>5. z \in Open(b, F, p)
    BY <2>3, <2>4 DEF Open
  <2>6. CASE k = z.base
    BY <2>5, <2>6
  <2>7. CASE k # z.base
    <3>1. k \in Version(C, p) .. z.base - 1
      BY <1>5, <1>6, <1>8, <2>3, <2>7
    <3> QED BY <1>4, <1>8, <2>4, <3>1 DEF QueueInv, Chained
  <2> QED BY <2>6, <2>7
<1>9. Chained(h, mine2, C, F, p)
  <2>1. SUFFICES ASSUME NEW e \in Pend(h, p), e.id \notin Accepted(F), ~Excused(h, mine2, F, p), ~Deleted(C, p),
                        NEW k \in Version(C, p) .. e.base - 1
                 PROVE  \E y \in Open(h, F, p) : Before(h, y, e) /\ y.base = k
    BY DEF Chained
  <2>2. CASE e = x
    BY <1>1, <1>3, <1>7, <1>8, <2>1, <2>2
  <2>3. CASE e \in Pend(b, p)
    <3>1. PICK y \in Open(b, F, p) : Before(b, y, e) /\ y.base = k
      BY <1>4, <2>1, <2>3 DEF QueueInv, Chained
    <3> QED BY <1>1, <1>2, <1>7, <2>3, <3>1
  <2> QED BY <1>1, <2>1, <2>2, <2>3
<1>10. EditsOvertaken(h, mine2, C, F, p)
  <2>1. SUFFICES ASSUME NEW e \in Open(h, F, p), NEW g \in Pend(h, p), Before(h, e, g), g.id \in Accepted(F),
                        Version(C, p) <= e.base
                 PROVE  \/ Excused(h, mine2, F, p)
                        \/ Deleted(C, p)
                        \/ \E y \in Open(h, F, p) :
                             y.base < Version(C, p) \/ (Before(h, g, y) /\ y.base <= e.base)
    BY DEF EditsOvertaken
  <2>2. g \in Pend(b, p)
    BY <1>1, <2>1
  <2>3. e \in Open(b, F, p)
    BY <1>1, <1>3, <2>1, <2>2 DEF Open
  <2>4. Before(b, e, g)
    BY <1>2, <1>7, <2>1, <2>2, <2>3
  <2>5. \/ Excused(b, mine, F, p)
        \/ Deleted(C, p)
        \/ \E y \in Open(b, F, p) :
             y.base < Version(C, p) \/ (Before(b, g, y) /\ y.base <= e.base)
    BY <2>1, <2>2, <2>3, <2>4 DEF QueueInv, EditsOvertaken
  <2> QED BY <1>1, <1>2, <1>4, <1>7, <2>2, <2>5
<1>11. DeletionOvertaken(h, mine2, C, F, p)
  <2>1. SUFFICES ASSUME NEW e \in Pend(h, p), NEW g \in Pend(h, p), Before(h, e, g),
                        e.kind = "delete", e.id \notin Accepted(F), g.id \in Accepted(F)
                 PROVE  \/ Confl(h, p) # {}
                        \/ Deleted(C, p)
                        \/ \E s \in OfProduct(F, p) : F[s].op.id[1] \in mine2 /\ F[s].image.version > e.base
                        \/ \E y \in Open(h, F, p) : y.base < Version(C, p)
    BY DEF DeletionOvertaken
  <2>2. g \in Pend(b, p)
    BY <1>1, <2>1
  <2>3. e \in Pend(b, p) /\ Before(b, e, g)
    BY <1>1, <1>2, <1>3, <2>1, <2>2
  <2> QED BY <1>1, <2>1, <2>2, <2>3 DEF QueueInv, DeletionOvertaken, Grown
<1>12. Inverted(h, mine2, F, p)
  <2>1. \A m \in OfProduct(F, p) : F[m].op # x
    BY DEF OfProduct, Accepted
  <2>2. \A m \in OfProduct(F, p) : F[m].op \in Pend(h, p) <=> F[m].op \in Pend(b, p)
    BY <1>1, <2>1
  <2> QED BY <1>1, <1>2, <1>4, <2>2 DEF QueueInv, Inverted
<1> QED BY <1>1, <1>9, <1>10, <1>11, <1>12 DEF QueueInv

(* The feed gets one more change, of an operation that is new.              *)
OneMore(F, G, op) ==
    /\ F \in Seq(Change) /\ G \in Seq(Change)
    /\ Extends(F, G) /\ Len(G) = Len(F) + 1 /\ G[Len(G)].op = op
    /\ op.id \notin Accepted(F)

(* What it adds. *)
LEMMA OneMoreChange ==
    ASSUME NEW F, NEW G, NEW op, OneMore(F, G, op), NEW p
    PROVE  /\ Accepted(G) = Accepted(F) \cup {op.id}
           /\ \A s \in OfProduct(F, p) : s \in OfProduct(G, p) /\ G[s] = F[s] /\ s < Len(G) /\ s # Len(G)
           /\ On(op, p) => OfProduct(G, p) = OfProduct(F, p) \cup {Len(G)}
           /\ ~On(op, p) => OfProduct(G, p) = OfProduct(F, p)
           /\ Len(F) \in Nat /\ Len(G) > Len(F)
<1>1. /\ DOMAIN F = 1..Len(F) /\ DOMAIN G = 1..Len(G) /\ Len(F) \in Nat /\ Len(G) = Len(F) + 1
      /\ \A s \in DOMAIN F : G[s] = F[s]
  BY DEF OneMore, Extends
<1>2. \A s : s \in DOMAIN G <=> s \in DOMAIN F \/ s = Len(G)
  BY <1>1
<1>3. \A s \in DOMAIN F : s < Len(G) /\ s # Len(G)
  BY <1>1
<1>4. G[Len(G)].op = op
  BY DEF OneMore
<1>5. Accepted(G) = Accepted(F) \cup {op.id}
  BY <1>1, <1>2, <1>4 DEF Accepted
<1>6. \A s : s \in OfProduct(G, p) <=> s \in OfProduct(F, p) \/ (s = Len(G) /\ On(op, p))
  BY <1>1, <1>2, <1>3, <1>4 DEF OfProduct
<1>7. \A s \in OfProduct(F, p) : s \in DOMAIN F
  BY DEF OfProduct
<1>8. \A s \in OfProduct(F, p) : s \in OfProduct(G, p) /\ G[s] = F[s] /\ s < Len(G) /\ s # Len(G)
  BY <1>1, <1>3, <1>6, <1>7
<1>9. On(op, p) => OfProduct(G, p) = OfProduct(F, p) \cup {Len(G)}
  BY <1>6
<1>10. ~On(op, p) => OfProduct(G, p) = OfProduct(F, p)
  BY <1>6
<1>11. Len(G) > Len(F)
  BY <1>1
<1> QED BY <1>1, <1>5, <1>8, <1>9, <1>10, <1>11

(* A queued operation with the id of another one of the device is that one. *)
LEMMA PendAgrees ==
    ASSUME NEW own, NEW known, NEW mine, NEW O, NEW C, NEW F, Grounds(own, known, mine, O, C, F),
           NEW b, Local(b, own, known, F), NEW op \in known, op \in own => Agrees(b, op), NEW p,
           NEW x \in Pend(b, p), x.id = op.id
    PROVE  x = op
<1>1. op \in own
  <2>1. x.id[1] \in mine
    BY PendIsOwn
  <2>2. op \in own <=> op.id[1] \in mine
    BY DEF Grounds
  <2> QED BY <2>1, <2>2
<1>2. x \in QueueOps(b)
  BY OutboxSays DEF Pend, Local, Good
<1> QED BY <1>1, <1>2 DEF Agrees, QueueOps

(* An operation on the product is accepted: what the queue says of it holds *)
(* for the catalog and the feed as they are then.                          *)
LEMMA QueueDecides ==
    ASSUME NEW own, NEW known, NEW mine, NEW O, NEW C, NEW F, Grounds(own, known, mine, O, C, F),
           NEW p \in Products, NEW b, Local(b, own, known, F), NEW op \in known, On(op, p),
           op \in own => Agrees(b, op), NEW G, OneMore(F, G, op), NEW C2,
           ~Deleted(C, p), Version(C2, p) = Version(C, p) + 1,
           G[Len(G)].image.version = Version(C, p) + 1,
           Upsert(op) => op.base = Version(C, p), op.kind = "delete" => Deleted(C2, p),
           QueueInv(b, mine, C, F, p)
    PROVE  QueueInv(b, mine, C2, G, p)
<1> DEFINE V == Version(C, p)
<1>1. /\ V \in Nat /\ Version(C2, p) = V + 1
      /\ \A x \in Pend(b, p) : x.base \in Nat /\ x.id[1] \in mine /\ (Upsert(x) <=> x.kind # "delete")
      /\ Upsert(op) <=> op.kind # "delete"
  BY VersionsRise, PendIsOwn DEF Upsert, On, IsProductOp
<1>2. /\ Accepted(G) = Accepted(F) \cup {op.id} /\ op.id \notin Accepted(F)
      /\ OfProduct(G, p) = OfProduct(F, p) \cup {Len(G)}
      /\ \A s \in OfProduct(F, p) : G[s] = F[s] /\ s < Len(G) /\ s # Len(G)
      /\ G[Len(G)].op = op
  BY OneMoreChange DEF OneMore
<1>3. \A x \in Pend(b, p) : x.id = op.id => x = op
  BY PendAgrees
<1>4. Open(b, G, p) = Open(b, F, p) \ {op} /\ Open(b, F, p) \subseteq Pend(b, p)
  BY <1>2, <1>3 DEF Open
<1>5. ~Outrun(b, mine, F, p)
  BY OutrunIsDeleted
<1>6. SUFFICES ASSUME ~Excused(b, mine, G, p) PROVE QueueInv(b, mine, C2, G, p)
  <2>1. ASSUME Excused(b, mine, G, p) PROVE QueueInv(b, mine, C2, G, p)
    <3>1. Confl(b, p) # {} \/ Deleted(C2, p)
      <4>1. CASE Disputed(b, p)
        BY <4>1 DEF Disputed
      <4>2. CASE Outrun(b, mine, G, p) /\ Confl(b, p) = {}
        <5>1. PICK s \in OfProduct(G, p) : G[s].op.kind = "delete"
          BY <4>2 DEF Outrun
        <5>2. s = Len(G)
          <6>1. \A k \in OfProduct(F, p) : F[k].op.kind # "delete"
            BY VersionsRise
          <6> QED BY <1>2, <5>1, <6>1
        <5> QED BY <1>2, <5>1, <5>2
      <4> QED BY <2>1, <4>1, <4>2 DEF Excused
    <3> QED BY <2>1, <3>1 DEF QueueInv, Chained, EditsOvertaken, DeletionOvertaken, Inverted
  <2> QED BY <2>1
<1>7. ~Excused(b, mine, F, p)
  BY <1>5, <1>6 DEF Excused
<1> HIDE DEF V

(* The queue has the base of an upsert before everything that follows it.   *)
<1>8. ASSUME NEW e \in Pend(b, p), e.id \notin Accepted(F), V < e.base
      PROVE  \E y \in Open(b, F, p) : Before(b, y, e) /\ y.base = V
  <2>1. V \in V .. e.base - 1
    BY <1>1, <1>8
  <2> QED BY <1>7, <1>8, <2>1 DEF QueueInv, Chained, V
<1>9. \A x, y, z : Before(b, x, y) /\ Before(b, y, z) => Before(b, x, z)
  BY LocalOrder DEF Local, Good
<1>10. \A x : ~Before(b, x, x)
  BY LocalOrder DEF Local, Good

(* An upsert that the new one does not come before repairs what it did.     *)
<1>11. ASSUME NEW e \in Open(b, F, p), NEW g \in Pend(b, p), Before(b, e, g), g.id \in Accepted(F), V <= e.base
       PROVE  \E x \in Open(b, F, p) : x.base < V \/ (Before(b, g, x) /\ x.base <= e.base)
  BY <1>7, <1>11 DEF QueueInv, EditsOvertaken, V
<1>12. ASSUME NEW e \in Pend(b, p), e.kind = "delete", e.id \notin Accepted(F), NEW g \in Pend(b, p),
              Before(b, e, g), g.id \in Accepted(F)
       PROVE  \/ Confl(b, p) # {}
              \/ \E s \in OfProduct(F, p) : F[s].op.id[1] \in mine /\ F[s].image.version > e.base
              \/ \E x \in Open(b, F, p) : x.base < V
  BY <1>12 DEF QueueInv, DeletionOvertaken, V
<1>13. Chained(b, mine, C2, G, p)
  <2>1. SUFFICES ASSUME ~Deleted(C2, p), NEW e \in Pend(b, p), e.id \notin Accepted(G), NEW k \in V + 1 .. e.base - 1
                 PROVE  \E y \in Open(b, G, p) : Before(b, y, e) /\ y.base = k
    BY <1>1 DEF Chained
  <2>2. k \in V .. e.base - 1 /\ k # V
    BY <1>1, <2>1
  <2>3. PICK y \in Open(b, F, p) : Before(b, y, e) /\ y.base = k
    BY <1>2, <1>7, <2>1, <2>2 DEF QueueInv, Chained, V
  <2>4. y # op
    BY <1>1, <2>1, <2>2, <2>3 DEF V
  <2> QED BY <1>4, <2>3, <2>4
<1>14. EditsOvertaken(b, mine, C2, G, p)
  <2>1. SUFFICES ASSUME ~Deleted(C2, p), NEW e \in Open(b, G, p), NEW g \in Pend(b, p), Before(b, e, g),
                        g.id \in Accepted(G), V + 1 <= e.base
                 PROVE  \E x \in Open(b, G, p) : x.base < V + 1 \/ (Before(b, g, x) /\ x.base <= e.base)
    BY <1>1 DEF EditsOvertaken
  <2>2. Upsert(op) /\ op.base = V
    BY <1>1, <2>1 DEF V
  <2>3. e \in Open(b, F, p) /\ e \in Pend(b, p) /\ e.id \notin Accepted(F) /\ e.base \in Nat /\ V < e.base /\ V <= e.base
    BY <1>1, <1>4, <2>1 DEF Open
  <2>4. PICK y \in Open(b, F, p) : Before(b, y, e) /\ y.base = V
    BY <1>8, <2>3
  <2>5. CASE y # op
    BY <1>1, <1>4, <2>4, <2>5
  <2>6. CASE y = op
    <3>1. Before(b, op, g)
      BY <1>9, <2>1, <2>4, <2>6
    <3>2. g # op
      BY <1>10, <3>1
    <3>3. g.id \in Accepted(F)
      BY <1>2, <1>3, <2>1, <3>2
    <3>4. PICK x \in Open(b, F, p) : x.base < V \/ (Before(b, g, x) /\ x.base <= e.base)
      BY <1>11, <2>1, <2>3, <3>3
    <3>5. x # op
      BY <1>1, <1>9, <1>10, <2>2, <3>1, <3>4
    <3>6. x.base \in Nat
      BY <1>1, <1>4, <3>4
    <3> QED BY <1>1, <1>4, <3>4, <3>5, <3>6
  <2> QED BY <2>5, <2>6
<1>15. DeletionOvertaken(b, mine, C2, G, p)
  <2>1. SUFFICES ASSUME ~Deleted(C2, p), Confl(b, p) = {}, NEW e \in Pend(b, p), NEW g \in Pend(b, p),
                        Before(b, e, g), e.kind = "delete", e.id \notin Accepted(G), g.id \in Accepted(G)
                 PROVE  \/ \E s \in OfProduct(G, p) : G[s].op.id[1] \in mine /\ G[s].image.version > e.base
                        \/ \E x \in Open(b, G, p) : x.base < V + 1
    BY <1>1 DEF DeletionOvertaken
  <2>2. Upsert(op) /\ op.base = V /\ e.id \notin Accepted(F) /\ e.base \in Nat
    BY <1>1, <1>2, <2>1 DEF V
  <2>3. CASE g = op
    <3>1. CASE V + 1 > e.base
      <4>1. G[Len(G)].image.version > e.base
        BY <3>1 DEF V
      <4>2. G[Len(G)].op.id[1] \in mine
        BY <1>1, <1>2, <2>1, <2>3
      <4> QED BY <1>2, <4>1, <4>2
    <3>2. CASE V < e.base
      <4>1. PICK y \in Open(b, F, p) : Before(b, y, e) /\ y.base = V
        BY <1>8, <2>2, <3>2
      <4>2. y # op
        BY <1>9, <1>10, <2>1, <2>3, <4>1
      <4> QED BY <1>1, <1>4, <4>1, <4>2
    <3> QED BY <1>1, <2>2, <3>1, <3>2
  <2>4. CASE g # op
    <3>1. g.id \in Accepted(F)
      BY <1>2, <1>3, <2>1, <2>4
    <3>2. CASE \E s \in OfProduct(F, p) : F[s].op.id[1] \in mine /\ F[s].image.version > e.base
      BY <1>2, <3>2
    <3>3. CASE \E x \in Open(b, F, p) : x.base < V
      <4>1. PICK x \in Open(b, F, p) : x.base < V
        BY <3>3
      <4>2. x # op /\ x.base < V + 1
        BY <1>1, <1>4, <2>2, <4>1
      <4> QED BY <1>4, <4>1, <4>2
    <3> QED BY <1>12, <2>1, <2>2, <3>1, <3>2, <3>3
  <2> QED BY <2>3, <2>4
<1>16. Inverted(b, mine, G, p)
  <2>1. SUFFICES ASSUME NEW s \in OfProduct(G, p), NEW k \in OfProduct(G, p), k < s,
                        G[s].op \in Pend(b, p), G[k].op \in Pend(b, p), Before(b, G[s].op, G[k].op),
                        Open(b, G, p) = {}
                 PROVE  \E m \in OfProduct(G, p) :
                           m > s /\ G[m].op # G[k].op /\ ~(G[m].op \in Pend(b, p) /\ Before(b, G[m].op, G[k].op))
    BY <1>6 DEF Inverted
  <2> DEFINE g == G[k].op
  <2>2. Len(G) \in Nat /\ \A m \in OfProduct(G, p) : m <= Len(G)
    BY OneMoreChange, <1>2 DEF OneMore, OfProduct, Extends
  <2>3. k # Len(G)
    BY <2>1, <2>2, <1>2, VersionsRise
  <2>4. k \in OfProduct(F, p) /\ g = F[k].op /\ g.id \in Accepted(F) /\ g # op
    BY <1>2, <2>1, <2>3 DEF OfProduct, Accepted
  <2> HIDE DEF g
  <2>5. ASSUME op \in Open(b, F, p), Before(b, op, g) PROVE FALSE
    <3>1. Upsert(op) /\ op.base = V /\ g \in Pend(b, p)
      BY <2>1, <2>5 DEF Open, V, g
    <3>2. PICK x \in Open(b, F, p) : x.base < V \/ (Before(b, g, x) /\ x.base <= op.base)
      BY <1>1, <1>11, <2>4, <2>5, <3>1
    <3>3. x # op
      BY <1>1, <1>9, <1>10, <2>5, <3>1, <3>2
    <3> QED BY <1>4, <2>1, <3>2, <3>3
  <2>6. CASE s # Len(G)
    <3>1. s \in OfProduct(F, p) /\ F[s].op = G[s].op
      BY <1>2, <2>1, <2>6
    <3>2. CASE Open(b, F, p) # {}
      <4>1. op \in Open(b, F, p)
        BY <1>4, <2>1, <3>2
      <4>2. Len(G) > s
        BY <1>2, <2>2, <3>1
      <4> QED BY <1>2, <2>4, <2>5, <4>1, <4>2 DEF g
    <3>3. CASE Open(b, F, p) = {}
      <4>1. PICK m \in OfProduct(F, p) :
               m > s /\ F[m].op # g /\ ~(F[m].op \in Pend(b, p) /\ Before(b, F[m].op, g))
        BY <1>7, <2>1, <2>4, <3>1, <3>3 DEF QueueInv, Inverted, g
      <4> QED BY <1>2, <4>1 DEF g
    <3> QED BY <3>2, <3>3
  <2>7. CASE s = Len(G)
    <3>1. op \in Pend(b, p) /\ Before(b, op, g) /\ g \in Pend(b, p)
      BY <1>2, <2>1, <2>7 DEF g
    <3>2. ~Upsert(op)
      BY <1>2, <2>5, <3>1 DEF Open
    <3>3. op.kind = "delete"
      BY <1>1, <3>2
    <3>4. Confl(b, p) = {}
      BY <1>1, <1>2, <1>6, <3>1, <3>3 DEF Excused, Outrun
    <3>5. ~\E j \in OfProduct(F, p) : F[j].op.id[1] \in mine /\ F[j].image.version > op.base
      BY <1>1, <1>2, <1>6, <3>1, <3>3 DEF Excused, Outrun
    <3>6. Open(b, F, p) = {}
      BY <1>1, <1>4, <2>1, <3>2 DEF Open
    <3> QED BY <1>2, <1>12, <2>4, <3>1, <3>3, <3>4, <3>5, <3>6
  <2> QED BY <2>6, <2>7
<1> QED BY <1>13, <1>14, <1>15, <1>16 DEF QueueInv

(* An operation on something else does not touch what is said of a product. *)
LEMMA LaneApart ==
    ASSUME NEW own, NEW known, NEW mine, NEW O, NEW C, NEW F, Grounds(own, known, mine, O, C, F),
           NEW p, NEW b, Local(b, own, known, F), NEW op \in known, ~On(op, p),
           NEW G, OneMore(F, G, op)
    PROVE  /\ OfProduct(G, p) = OfProduct(F, p) /\ \A s \in OfProduct(F, p) : G[s] = F[s]
           /\ \A x \in Pend(b, p) : x.id \in Accepted(G) <=> x.id \in Accepted(F)
           /\ Open(b, G, p) = Open(b, F, p)
           /\ Excused(b, mine, G, p) <=> Excused(b, mine, F, p)
<1>1. /\ OfProduct(G, p) = OfProduct(F, p) /\ \A s \in OfProduct(F, p) : G[s] = F[s]
      /\ Accepted(G) = Accepted(F) \cup {op.id}
  BY OneMoreChange
<1>2. ASSUME NEW x \in Pend(b, p) PROVE x.id # op.id
  <2>1. x \in known /\ IsProductOp(x) /\ x.product = p
    BY PendIsOwn
  <2>2. x.id[1] = op.id[1] => Alike(x, op)
    BY <2>1 DEF Grounds, World, Family
  <2> QED BY <2>1, <2>2 DEF Alike, On
<1>3. Open(b, G, p) = Open(b, F, p)
  BY <1>1, <1>2 DEF Open
<1>4. Excused(b, mine, G, p) <=> Excused(b, mine, F, p)
  BY <1>1 DEF Excused, Outrun
<1> QED BY <1>1, <1>2, <1>3, <1>4

(* So it keeps what the queue says. *)
LEMMA QueueApart ==
    ASSUME NEW own, NEW known, NEW mine, NEW O, NEW C, NEW F, Grounds(own, known, mine, O, C, F),
           NEW p, NEW b, Local(b, own, known, F), NEW op \in known, ~On(op, p),
           NEW G, OneMore(F, G, op), NEW C2, C2[p] = C[p], QueueInv(b, mine, C, F, p)
    PROVE  QueueInv(b, mine, C2, G, p)
<1>1. /\ OfProduct(G, p) = OfProduct(F, p) /\ \A s \in OfProduct(F, p) : G[s] = F[s]
      /\ \A x \in Pend(b, p) : x.id \in Accepted(G) <=> x.id \in Accepted(F)
      /\ Open(b, G, p) = Open(b, F, p)
      /\ Excused(b, mine, G, p) <=> Excused(b, mine, F, p)
  BY LaneApart
<1>2. Version(C2, p) = Version(C, p) /\ (Deleted(C2, p) <=> Deleted(C, p))
  BY DEF Version, Deleted
<1>3. Chained(b, mine, C2, G, p)
  BY <1>1, <1>2 DEF QueueInv, Chained
<1>4. EditsOvertaken(b, mine, C2, G, p)
  BY <1>1, <1>2 DEF QueueInv, EditsOvertaken
<1>5. DeletionOvertaken(b, mine, C2, G, p)
  BY <1>1, <1>2 DEF QueueInv, DeletionOvertaken
<1>6. Inverted(b, mine, G, p)
  BY <1>1 DEF QueueInv, Inverted
<1> QED BY <1>3, <1>4, <1>5, <1>6 DEF QueueInv
-----------------------------------------------------------------------------
(* THE ROW OF ONE PRODUCT                                                   *)

(* The row shows the same, or what change s left. *)
SameRow(b, h, p) ==
    /\ b.rows[p] = None <=> h.rows[p] = None
    /\ b.rows[p] # None =>
        /\ h.rows[p].version = b.rows[p].version
        /\ h.rows[p].deleted = b.rows[p].deleted
        /\ h.rows[p].fields = b.rows[p].fields
Shows(h, p, image) ==
    /\ h.rows[p] # None
    /\ h.rows[p].version = image.version
    /\ h.rows[p].deleted = image.deleted
    /\ h.rows[p].fields = image.fields

(* A row that is excused has to be there. *)
LEMMA RowDisputed ==
    ASSUME NEW b, NEW h, NEW p, NEW mine, NEW O, NEW C, NEW F, h.cursor = b.cursor,
           b.rows[p] # None => h.rows[p] # None, Excused(h, mine, F, p)
    PROVE  /\ RowInv(b, mine, O, C, F, p) => RowInv(h, mine, O, C, F, p)
           /\ AheadKept(b, mine, F, h, mine, F, p)
  BY DEF RowInv, Founded, Present, Repaired, AheadKept, AheadRepaired

(* An active row that a pending upsert predicts is repaired by it.          *)
LEMMA RowPredicted ==
    ASSUME NEW b, NEW h, NEW p, NEW mine, NEW mine2, NEW O, NEW C, NEW F, h.cursor = b.cursor,
           h.rows[p] # None, ~h.rows[p].deleted, Predicted(h, p, h.rows[p]), Open(h, F, p) # {}
    PROVE  /\ RowInv(b, mine, O, C, F, p) => RowInv(h, mine2, O, C, F, p)
           /\ AheadKept(b, mine, F, h, mine2, F, p)
  BY DEF RowInv, Founded, Present, Repaired, AheadKept, AheadRepaired

(* A tombstone is behind nothing. *)
LEMMA RowBuried ==
    ASSUME NEW b, NEW h, NEW p, NEW mine, NEW mine2, NEW O, NEW C, NEW F, h.cursor = b.cursor,
           h.rows[p] # None, h.rows[p].deleted,
           Deleted(C, p) \/ \E x \in Pend(h, p) : x.kind = "delete"
    PROVE  /\ RowInv(b, mine, O, C, F, p) => RowInv(h, mine2, O, C, F, p)
           /\ AheadKept(b, mine, F, h, mine2, F, p)
  BY DEF RowInv, Founded, Present, Repaired, AheadKept, AheadRepaired, Behind

(* A row that shows the same when accepted operations have left the queue,  *)
(* and others may have joined it.                                          *)
LEMMA RowKept ==
    ASSUME NEW own, NEW known, NEW mine, NEW O, NEW C, NEW F, Grounds(own, known, mine, O, C, F),
           NEW p \in Products, NEW b, Local(b, own, known, F), NEW h, NEW gone,
           h.cursor = b.cursor, SameRow(b, h, p), Grown(b, h, p), NEW mine2, mine \subseteq mine2,
           \A x \in gone : x.id \in Accepted(F), Pend(b, p) \ gone \subseteq Pend(h, p)
    PROVE  /\ RowInv(b, mine, O, C, F, p) => RowInv(h, mine2, O, C, F, p)
           /\ AheadKept(b, mine, F, h, mine2, F, p)
<1>1. Excused(b, mine, F, p) => Excused(h, mine2, F, p)
  BY ExcusedStays
<1>2. Open(b, F, p) \subseteq Open(h, F, p)
  BY DEF Open
<1>3. \A m : Behind(h, F, p, m) => Behind(b, F, p, m)
  BY DEF Behind, SameRow
<1>4. ASSUME NEW x \in Pend(b, p), x \notin Pend(h, p)
      PROVE  \E s \in OfProduct(F, p) : F[s].op = x
  BY <1>4, AcceptedIsInFeed
<1>5. Founded(b, mine, O, C, F, p) => Founded(h, mine2, O, C, F, p)
  <2> DEFINE row == b.rows[p]  new == h.rows[p]
  <2>1. SUFFICES ASSUME new # None, ~Excused(h, mine2, F, p), Founded(b, mine, O, C, F, p)
                 PROVE  \/ new.deleted /\ (Deleted(C, p) \/ \E x \in Pend(h, p) : x.kind = "delete")
                        \/ ~new.deleted /\ (ServersRow(O, F, p, new) \/ Predicted(h, p, new))
    BY DEF Founded
  <2>2. row # None /\ new.version = row.version /\ new.deleted = row.deleted /\ new.fields = row.fields
    BY <2>1 DEF SameRow
  <2>3. \/ row.deleted /\ (Deleted(C, p) \/ \E x \in Pend(b, p) : x.kind = "delete")
        \/ ~row.deleted /\ (ServersRow(O, F, p, row) \/ Predicted(b, p, row))
    BY <1>1, <2>1, <2>2 DEF Founded
  <2> HIDE DEF row, new
  <2>4. CASE row.deleted
    <3>1. SUFFICES ASSUME NEW x \in Pend(b, p), x.kind = "delete", x \notin Pend(h, p) PROVE Deleted(C, p)
      BY <2>2, <2>3, <2>4
    <3> QED BY <1>4, <3>1, VersionsRise
  <2>5. CASE ~row.deleted /\ ServersRow(O, F, p, row)
    BY <2>2, <2>5 DEF ServersRow
  <2>6. CASE ~row.deleted /\ Predicted(b, p, row)
    <3>1. PICK x \in Pend(b, p) : Upsert(x) /\ row.version = x.base + 1 /\ row.fields = x.fields
      BY <2>6 DEF Predicted
    <3>2. CASE x \in Pend(h, p)
      BY <2>2, <2>6, <3>1, <3>2 DEF Predicted
    <3>3. CASE x \notin Pend(h, p)
      <4>1. PICK s \in OfProduct(F, p) : F[s].op = x
        BY <1>4, <3>3
      <4>2. Risen(C, O, F, p)
        BY DEF Grounds
      <4>3. F[s].image.version = x.base + 1 /\ F[s].image.fields = x.fields /\ ~F[s].image.deleted
        BY <3>1, <4>1, <4>2 DEF Risen
      <4> QED BY <2>2, <2>6, <3>1, <4>3 DEF ServersRow
    <3> QED BY <3>2, <3>3
  <2> QED BY <2>3, <2>4, <2>5, <2>6
<1>6. Present(b, O, F, p) => Present(h, O, F, p)
  BY DEF Present, SameRow
<1>7. Repaired(b, mine, F, p) => Repaired(h, mine2, F, p)
  BY <1>1, <1>2, <1>3 DEF Repaired
<1>8. AheadKept(b, mine, F, h, mine2, F, p)
  BY <1>1, <1>2, <1>3 DEF AheadKept, AheadRepaired, SameRow
<1> QED BY <1>5, <1>6, <1>7, <1>8 DEF RowInv

(* A row that shows what a change beyond the cursor left.                   *)
LEMMA RowCanonical ==
    ASSUME NEW own, NEW known, NEW mine, NEW O, NEW C, NEW F, Grounds(own, known, mine, O, C, F),
           NEW p \in Products, NEW b, NEW h, h.cursor = b.cursor, b.cursor \in Nat,
           NEW s \in OfProduct(F, p), s > b.cursor, Shows(h, p, F[s].image),
           NEW S, NEW from, NEW to
    PROVE  /\ RowInv(b, mine, O, C, F, p) => RowInv(h, mine, O, C, F, p)
           /\  (\A m \in OfProduct(F, p) \cap S : from < m /\ m <= to /\ s < m =>
                    \/ Excused(h, mine, F, p)
                    \/ Open(h, F, p) # {}
                    \/ \E k \in OfProduct(F, p) : k > m /\ (k > to \/ k \notin S \cup {s}))
                => AheadRepaired(h, mine, F, S \cup {s}, from, to, p)
<1>1. ASSUME NEW m \in OfProduct(F, p), Behind(h, F, p, m) PROVE s < m
  <2>1. F[s].image.version < F[m].image.version
    BY <1>1 DEF Behind, Shows
  <2> QED BY <2>1, VersionsRise
<1>2. Founded(h, mine, O, C, F, p)
  <2>1. F[s].image.deleted => Deleted(C, p) /\ h.rows[p].deleted
    BY VersionsRise DEF Shows
  <2>2. F[s].image.deleted \in BOOLEAN
    BY VersionsRise DEF Image
  <2>3. ~F[s].image.deleted => ~h.rows[p].deleted /\ ServersRow(O, F, p, h.rows[p])
    BY DEF Shows, ServersRow
  <2> QED BY <2>1, <2>2, <2>3 DEF Founded
<1>3. Present(h, O, F, p)
  BY DEF Present, Shows
<1>4. Repaired(h, mine, F, p)
  <2>1. SUFFICES ASSUME NEW m \in OfProduct(F, p), m <= h.cursor, Behind(h, F, p, m) PROVE FALSE
    BY DEF Repaired
  <2> QED BY <1>1, <2>1, VersionsRise
<1>5. ASSUME \A m \in OfProduct(F, p) \cap S : from < m /\ m <= to /\ s < m =>
                \/ Excused(h, mine, F, p)
                \/ Open(h, F, p) # {}
                \/ \E k \in OfProduct(F, p) : k > m /\ (k > to \/ k \notin S \cup {s})
      PROVE  AheadRepaired(h, mine, F, S \cup {s}, from, to, p)
  <2>1. h.rows[p] # None
    BY DEF Shows
  <2>2. ASSUME NEW m \in OfProduct(F, p) \cap (S \cup {s}), Behind(h, F, p, m) PROVE m \in S /\ s < m
    <3>1. s < m
      BY <1>1, <2>2
    <3> QED BY <2>2, <3>1, VersionsRise
  <2> QED BY <1>5, <2>1, <2>2 DEF AheadRepaired
<1> QED BY <1>2, <1>3, <1>4, <1>5 DEF RowInv

(* A change that is not of the page adds nothing to what was written ahead. *)
LEMMA AheadOfOther ==
    ASSUME NEW h, NEW mine, NEW F, NEW p, NEW S, NEW from \in Nat, NEW to \in Nat, NEW s \in Nat,
           OfProduct(F, p) \subseteq Nat, s \notin OfProduct(F, p) \/ s \notin from + 1 .. to,
           AheadRepaired(h, mine, F, S, from, to, p)
    PROVE  AheadRepaired(h, mine, F, S \cup {s}, from, to, p)
<1>1. SUFFICES ASSUME NEW m \in OfProduct(F, p) \cap (S \cup {s}), from < m, m <= to
               PROVE  /\ m \in S /\ m # s
                      /\ \A k \in OfProduct(F, p) :
                            k > m /\ (k > to \/ k \notin S) => k > to \/ k \notin S \cup {s}
  BY DEF AheadRepaired
<1>2. m \in Nat /\ m # s
  BY <1>1
<1> QED BY <1>1, <1>2

(* An operation on the product is accepted: the change comes after whatever *)
(* the row is behind.                                                      *)
LEMMA RowDecides ==
    ASSUME NEW own, NEW known, NEW mine, NEW O, NEW C, NEW F, Grounds(own, known, mine, O, C, F),
           NEW p \in Products, NEW b, b.cursor \in Nat, b.cursor <= Len(F), NEW op, On(op, p),
           NEW G, OneMore(F, G, op), NEW C2, ~Deleted(C, p)
    PROVE  /\ RowInv(b, mine, O, C, F, p) => RowInv(b, mine, O, C2, G, p)
           /\ \A S, from : \A to \in Nat : to <= Len(F) /\ AheadRepaired(b, mine, F, S, from, to, p) =>
                AheadRepaired(b, mine, G, S, from, to, p)
<1>1. /\ OfProduct(G, p) = OfProduct(F, p) \cup {Len(G)}
      /\ \A s \in OfProduct(F, p) : G[s] = F[s] /\ s < Len(G) /\ s # Len(G)
      /\ Len(F) \in Nat /\ Len(G) \in Nat /\ Len(G) > Len(F)
  BY OneMoreChange DEF OneMore
<1>2. Excused(b, mine, F, p) => Excused(b, mine, G, p)
  BY <1>1 DEF Excused, Outrun
<1>3. Founded(b, mine, O, C, F, p) => Founded(b, mine, O, C2, G, p)
  <2>1. ServersRow(O, F, p, b.rows[p]) => ServersRow(O, G, p, b.rows[p])
    BY <1>1 DEF ServersRow
  <2> QED BY <1>2, <2>1 DEF Founded
<1>4. Present(b, O, F, p) => Present(b, O, G, p)
  BY <1>1 DEF Present
<1>5. Repaired(b, mine, G, p)
  BY <1>1 DEF Repaired
<1>6. ASSUME NEW S, NEW from, NEW to \in Nat, to <= Len(F), AheadRepaired(b, mine, F, S, from, to, p)
      PROVE  AheadRepaired(b, mine, G, S, from, to, p)
  <2>1. SUFFICES ASSUME NEW m \in OfProduct(G, p) \cap S, from < m, m <= to
                 PROVE  b.rows[p] # None /\ Len(G) > m /\ Len(G) > to
    BY <1>1 DEF AheadRepaired
  <2>2. m \in OfProduct(F, p)
    BY <1>1, <1>6, <2>1
  <2> QED BY <1>1, <1>6, <2>1, <2>2 DEF AheadRepaired
<1> QED BY <1>3, <1>4, <1>5, <1>6 DEF RowInv

(* Nothing changes for the row when something else is accepted.            *)
LEMMA RowApart ==
    ASSUME NEW own, NEW known, NEW mine, NEW O, NEW C, NEW F, Grounds(own, known, mine, O, C, F),
           NEW p, NEW b, Local(b, own, known, F), NEW op \in known, ~On(op, p),
           NEW G, OneMore(F, G, op), NEW C2, C2[p] = C[p]
    PROVE  /\ RowInv(b, mine, O, C, F, p) => RowInv(b, mine, O, C2, G, p)
           /\ AheadKept(b, mine, F, b, mine, G, p)
<1>1. /\ OfProduct(G, p) = OfProduct(F, p) /\ \A s \in OfProduct(F, p) : G[s] = F[s]
      /\ Open(b, G, p) = Open(b, F, p)
      /\ Excused(b, mine, G, p) <=> Excused(b, mine, F, p)
  BY LaneApart
<1>2. Deleted(C2, p) <=> Deleted(C, p)
  BY DEF Deleted
<1>3. Founded(b, mine, O, C, F, p) => Founded(b, mine, O, C2, G, p)
  <2>1. ServersRow(O, F, p, b.rows[p]) => ServersRow(O, G, p, b.rows[p])
    BY <1>1 DEF ServersRow
  <2> QED BY <1>1, <1>2, <2>1 DEF Founded
<1>4. \A m \in OfProduct(F, p) : Behind(b, G, p, m) <=> Behind(b, F, p, m)
  BY <1>1 DEF Behind
<1>5. Present(b, O, F, p) => Present(b, O, G, p)
  BY <1>1 DEF Present
<1>6. Repaired(b, mine, F, p) => Repaired(b, mine, G, p)
  BY <1>1, <1>4 DEF Repaired
<1>7. AheadKept(b, mine, F, b, mine, G, p)
  BY <1>1, <1>4 DEF AheadKept, AheadRepaired
<1> QED BY <1>3, <1>5, <1>6, <1>7 DEF RowInv

(* A row as the catalog has it, when the cursor is at the end of the feed.  *)
LEMMA RowInstalled ==
    ASSUME NEW own, NEW known, NEW mine, NEW O, NEW C, NEW F, Grounds(own, known, mine, O, C, F),
           NEW p \in Products, NEW h, C[p] = None <=> h.rows[p] = None,
           C[p] # None => Shows(h, p, C[p])
    PROVE  RowInv(h, mine, O, C, F, p)
<1>1. /\ C[p] # None => C[p].version = Version(C, p) /\ C[p].deleted \in BOOLEAN
      /\ Version(C, p) \in Nat
  <2>1. C[p] # None => C[p] \in Image
    BY DEF Grounds
  <2> QED BY <2>1, VersionsRise DEF Image
<1>2. Founded(h, mine, O, C, F, p)
  <2>1. SUFFICES ASSUME C[p] # None, ~C[p].deleted PROVE ServersRow(O, F, p, C[p])
    BY <1>1 DEF Founded, Shows, Deleted, ServersRow
  <2>2. CASE OfProduct(F, p) = {}
    <3>1. C[p] = O[p]
      BY <2>2 DEF Grounds, Risen
    <3> QED BY <2>1, <3>1 DEF ServersRow
  <2>3. CASE OfProduct(F, p) # {}
    <3>1. PICK l \in OfProduct(F, p) : C[p] = F[l].image
      BY <2>3, VersionsRise
    <3> QED BY <2>1, <3>1 DEF ServersRow
  <2> QED BY <2>2, <2>3
<1>3. Present(h, O, F, p)
  BY VersionsRise DEF Present
<1>4. Repaired(h, mine, F, p)
  <2>1. SUFFICES ASSUME NEW m \in OfProduct(F, p), Behind(h, F, p, m) PROVE FALSE
    BY DEF Repaired
  <2>2. C[p] # None /\ h.rows[p].version = Version(C, p)
    BY <1>1, <2>1 DEF Behind, Shows
  <2>3. F[m].image.version <= Version(C, p) /\ F[m].image.version \in Nat
    BY VersionsRise
  <2> QED BY <1>1, <2>1, <2>2, <2>3 DEF Behind
<1> QED BY <1>2, <1>3, <1>4 DEF RowInv
-----------------------------------------------------------------------------
(* THE PAGE OF A RESPONSE                                                   *)

(* A product change leaves a row that shows it, or one that is not behind.  *)
Applying(b, h, p, image) ==
    /\ h.queue = b.queue /\ h.conflicts = b.conflicts /\ h.cursor = b.cursor
    /\ \A q \in Products : q # p => h.rows[q] = b.rows[q]
    /\ \/ /\ h.rows = b.rows
          /\ b.rows[p] # None
          /\ b.rows[p].deleted \/ b.rows[p].version >= image.version
       \/ /\ Shows(h, p, image)
          /\ \/ b.rows[p] = None
             \/ image.deleted
             \/ ~b.rows[p].deleted /\ b.rows[p].version < image.version

(* A canonical product is shown. *)
LEMMA StoreShows ==
    ASSUME NEW b \in Database, NEW p \in Products, NEW image \in Image, StoreProduct(b, p, image) # None
    PROVE  LET h == StoreProduct(b, p, image) IN
           /\ h.queue = b.queue /\ h.conflicts = b.conflicts /\ h.cursor = b.cursor
           /\ \A q \in Products : q # p => h.rows[q] = b.rows[q]
           /\ Shows(h, p, image)
<1> DEFINE h == StoreProduct(b, p, image)
<1>1. DOMAIN b.rows = Products
  BY DEF Database
<1>3. CASE b.rows[p] = None
  <2> DEFINE row == ToLocal(image, "synced")
  <2>1. h = [b EXCEPT !.rows[p] = row, !.balance[p] = Total(MovesOf(b, p))]
    BY <1>3 DEF StoreProduct
  <2>2. row \in LocalRow
    BY DEF ToLocal, LocalRow, Image, SyncStatus
  <2>3. row # None
    BY <2>2, NoneIsNoData
  <2>4. row.version = image.version /\ row.deleted = image.deleted /\ row.fields = image.fields
    BY DEF ToLocal
  <2> HIDE DEF row
  <2> QED BY <1>1, <2>1, <2>3, <2>4 DEF Shows, Database
<1>4. CASE b.rows[p] # None
  <2> DEFINE row == ToLocal(image, b.rows[p].status)
  <2>1. h = [b EXCEPT !.rows[p] = row]
    BY <1>1, <1>4 DEF StoreProduct
  <2>2. b.rows[p] \in LocalRow
    BY <1>4 DEF Database
  <2>3. row \in LocalRow
    BY <2>2 DEF ToLocal, LocalRow, Image
  <2>4. row # None
    BY <2>3, NoneIsNoData
  <2>5. row.version = image.version /\ row.deleted = image.deleted /\ row.fields = image.fields
    BY DEF ToLocal
  <2> HIDE DEF row
  <2> QED BY <1>1, <2>1, <2>4, <2>5 DEF Shows, Database
<1> QED BY <1>3, <1>4

(* So does one of a page, where the row is not newer already.              *)
LEMMA ProductApplies ==
    ASSUME NEW b \in Database, NEW p \in Products, NEW image \in Image, ApplyProduct(b, p, image) # None
    PROVE  Applying(b, ApplyProduct(b, p, image), p, image)
<1> DEFINE old == b.rows[p]
           h == ApplyProduct(b, p, image)
<1>1. old = None \/ (old \in LocalRow /\ old.version \in Nat /\ old.deleted \in BOOLEAN)
  BY DEF Database, LocalRow
<1>2. image.version \in Nat /\ image.deleted \in BOOLEAN
  BY DEF Image
<1>3. \/ h = b /\ old # None /\ (old.deleted \/ old.version >= image.version)
      \/ /\ h = StoreProduct(b, p, image)
         /\ \/ old = None
            \/ image.deleted
            \/ ~old.deleted /\ old.version < image.version
  <2>1. CASE old = None
    BY <2>1 DEF ApplyProduct
  <2>2. CASE old # None /\ old.deleted /\ ~image.deleted
    BY <2>2 DEF ApplyProduct
  <2>3. CASE /\ old # None /\ ~(old.deleted /\ ~image.deleted)
             /\ (image.version > old.version \/ (image.deleted /\ ~old.deleted))
    BY <1>1, <1>2, <2>3 DEF ApplyProduct
  <2>4. CASE /\ old # None /\ ~(old.deleted /\ ~image.deleted)
             /\ ~(image.version > old.version \/ (image.deleted /\ ~old.deleted))
    <3>1. h = b
      BY <2>4 DEF ApplyProduct
    <3>2. old.version >= image.version
      BY <1>1, <1>2, <2>4
    <3> QED BY <2>4, <3>1, <3>2
  <2> QED BY <2>1, <2>2, <2>3, <2>4
<1>4. CASE h = b /\ old # None /\ (old.deleted \/ old.version >= image.version)
  BY <1>4 DEF Applying
<1>5. CASE /\ h = StoreProduct(b, p, image)
           /\ \/ old = None
              \/ image.deleted
              \/ ~old.deleted /\ old.version < image.version
  BY <1>5, StoreShows DEF Applying
<1> QED BY <1>3, <1>4, <1>5

(* After the first n changes of page from+1..to, S of which were written    *)
(* before: the changes that are covered by now are there or repaired.       *)
Advancing(b, mine, O, C, F, S, from, n, to, p) ==
    /\ Founded(b, mine, O, C, F, p)
    /\ O[p] # None => b.rows[p] # None
    /\ \A m \in OfProduct(F, p) : m <= from + n \/ (m <= to /\ m \in S) =>
        /\ b.rows[p] # None
        /\ Behind(b, F, p, m) =>
            \/ Excused(b, mine, F, p)
            \/ Open(b, F, p) # {}
            \/ \E s \in OfProduct(F, p) : s > m /\ (s > to \/ (s > from + n /\ s \notin S))

(* Before the first one. *)
LEMMA AdvanceBegins ==
    ASSUME NEW own, NEW known, NEW mine, NEW O, NEW C, NEW F, Grounds(own, known, mine, O, C, F),
           NEW p \in Products, NEW b \in Database, NEW S, NEW to \in Nat, b.cursor <= to,
           RowInv(b, mine, O, C, F, p), AheadRepaired(b, mine, F, S, b.cursor, to, p)
    PROVE  Advancing(b, mine, O, C, F, S, b.cursor, 0, to, p)
<1> DEFINE from == b.cursor
<1>1. from \in Nat /\ \A m \in OfProduct(F, p) : m \in Nat /\ F[m].image.version \in Nat
  BY VersionsRise DEF Database
<1>a. from + 0 = from
  BY <1>1
<1>2. SUFFICES ASSUME NEW m \in OfProduct(F, p), m <= from \/ (m <= to /\ m \in S)
               PROVE  /\ b.rows[p] # None
                      /\ Behind(b, F, p, m) =>
                           \/ Excused(b, mine, F, p)
                           \/ Open(b, F, p) # {}
                           \/ \E s \in OfProduct(F, p) : s > m /\ (s > to \/ (s > from /\ s \notin S))
  BY <1>a DEF Advancing, RowInv, Present
<1>3. CASE from < m
  BY <1>1, <1>2, <1>3 DEF AheadRepaired
<1>4. CASE m <= from
  <2>1. b.rows[p] # None
    BY <1>4 DEF RowInv, Present
  <2>2. SUFFICES ASSUME Behind(b, F, p, m), ~Excused(b, mine, F, p), Open(b, F, p) = {}
                 PROVE  \E s \in OfProduct(F, p) : s > m /\ (s > to \/ (s > from /\ s \notin S))
    BY <2>1
  <2>3. PICK s \in OfProduct(F, p) : s > from
    BY <1>4, <2>2 DEF RowInv, Repaired
  <2>4. CASE s > to \/ s \notin S
    BY <1>1, <1>4, <2>3, <2>4
  <2>5. CASE s <= to /\ s \in S
    <3>1. F[m].image.version < F[s].image.version
      BY <1>1, <1>4, <2>3, VersionsRise
    <3>2. Behind(b, F, p, s)
      <4>1. b.rows[p].version \in Nat
        BY <2>1 DEF Database, LocalRow
      <4> QED BY <1>1, <2>2, <3>1, <4>1 DEF Behind
    <3>3. PICK k \in OfProduct(F, p) : k > s /\ (k > to \/ k \notin S)
      BY <2>2, <2>3, <2>5, <3>2 DEF AheadRepaired
    <3> QED BY <1>1, <1>4, <2>3, <3>3
  <2> QED BY <1>1, <2>4, <2>5
<1> QED BY <1>1, <1>3, <1>4

(* One change of the page more, which was written before or is applied.     *)
LEMMA AdvanceSteps ==
    ASSUME NEW own, NEW known, NEW mine, NEW O, NEW C, NEW F, Grounds(own, known, mine, O, C, F),
           NEW p \in Products, NEW b \in Database, NEW h, NEW S, NEW from \in Nat, NEW n \in Nat \ {0},
           NEW to \in Nat, from + n <= to,
           h.queue = b.queue, h.conflicts = b.conflicts,
           \/ /\ h.rows[p] = b.rows[p]
              /\ from + n \in OfProduct(F, p) => from + n \in S
           \/ /\ from + n \in OfProduct(F, p) /\ from + n \notin S
              /\ Applying(b, h, p, F[from + n].image),
           Advancing(b, mine, O, C, F, S, from, n - 1, to, p)
    PROVE  Advancing(h, mine, O, C, F, S, from, n, to, p)
<1> DEFINE c == from + n
<1>1. c \in Nat /\ from + (n - 1) = c - 1
  OBVIOUS
<1> HIDE DEF c
<1>2. \A m \in OfProduct(F, p) : m \in Nat /\ F[m].image.version \in Nat
  BY VersionsRise
<1>3. Pend(h, p) = Pend(b, p) /\ Confl(h, p) = Confl(b, p) /\ Open(h, F, p) = Open(b, F, p)
  BY DEF Pend, Outbox, Confl, Open
<1>4. Excused(h, mine, F, p) <=> Excused(b, mine, F, p)
  BY <1>3 DEF Excused, Disputed, Outrun
<1>5. b.rows[p] # None => b.rows[p].version \in Nat /\ b.rows[p].deleted \in BOOLEAN
  BY DEF Database, LocalRow
<1>6. \A m \in OfProduct(F, p) : m <= c - 1 \/ (m <= to /\ m \in S) =>
        /\ b.rows[p] # None
        /\ Behind(b, F, p, m) =>
            \/ Excused(b, mine, F, p)
            \/ Open(b, F, p) # {}
            \/ \E s \in OfProduct(F, p) : s > m /\ (s > to \/ (s > c - 1 /\ s \notin S))
  BY <1>1 DEF Advancing
<1>7. CASE h.rows[p] = b.rows[p] /\ (c \in OfProduct(F, p) => c \in S)
  <2>1. Founded(h, mine, O, C, F, p)
    BY <1>3, <1>4, <1>7 DEF Advancing, Founded, Predicted
  <2>2. ASSUME NEW m \in OfProduct(F, p), m <= c \/ (m <= to /\ m \in S)
        PROVE  /\ h.rows[p] # None
               /\ Behind(h, F, p, m) =>
                    \/ Excused(h, mine, F, p)
                    \/ Open(h, F, p) # {}
                    \/ \E s \in OfProduct(F, p) : s > m /\ (s > to \/ (s > c /\ s \notin S))
    <3>1. m <= c - 1 \/ (m <= to /\ m \in S)
      BY <1>1, <1>2, <1>7, <2>2 DEF c
    <3>2. Behind(h, F, p, m) <=> Behind(b, F, p, m)
      BY <1>7 DEF Behind
    <3>3. \A s \in OfProduct(F, p) : s > c - 1 /\ s \notin S => s > c
      BY <1>1, <1>2, <1>7
    <3> QED BY <1>3, <1>4, <1>6, <1>7, <3>1, <3>2, <3>3
  <2> QED BY <1>7, <2>1, <2>2 DEF Advancing, c
<1>8. CASE c \in OfProduct(F, p) /\ c \notin S /\ Applying(b, h, p, F[c].image)
  <2> DEFINE image == F[c].image
  <2>1. /\ image.version \in Nat
        /\ \A m \in OfProduct(F, p) : m < c <=> F[m].image.version < image.version
    BY <1>8, <1>2, VersionsRise
  <2>2. h.rows[p] # None /\ ~Behind(h, F, p, c)
    BY <1>5, <1>8, <2>1 DEF Applying, Behind, Shows
  <2>3. Founded(h, mine, O, C, F, p)
    <3>1. CASE h.rows = b.rows
      BY <1>3, <1>4, <3>1 DEF Advancing, Founded, Predicted
    <3>2. CASE Shows(h, p, image)
      <4>1. image.deleted => Deleted(C, p) /\ h.rows[p].deleted
        BY <1>8, <3>2, VersionsRise DEF Shows
      <4>2. image.deleted \in BOOLEAN
        BY <1>8, VersionsRise DEF Image
      <4>3. ~image.deleted => ~h.rows[p].deleted /\ ServersRow(O, F, p, h.rows[p])
        BY <1>8, <3>2 DEF Shows, ServersRow
      <4> QED BY <4>1, <4>2, <4>3 DEF Founded
    <3> QED BY <1>8, <3>1, <3>2 DEF Applying
  (* Whatever the row is behind now, it was before. *)
  <2>4. ASSUME NEW m \in OfProduct(F, p), Behind(h, F, p, m)
        PROVE  m > c /\ (b.rows[p] # None => Behind(b, F, p, m))
    <3>1. CASE Shows(h, p, image) /\ (b.rows[p] = None \/ image.deleted \/ (~b.rows[p].deleted /\ b.rows[p].version < image.version))
      <4>1. image.version < F[m].image.version /\ ~image.deleted
        BY <2>4, <3>1 DEF Behind, Shows
      <4>2. m > c
        BY <1>1, <1>2, <2>1, <4>1
      <4>3. ASSUME b.rows[p] # None PROVE Behind(b, F, p, m)
        BY <1>2, <1>5, <2>1, <3>1, <4>1, <4>3 DEF Behind
      <4> QED BY <4>2, <4>3
    <3>2. CASE h.rows = b.rows /\ b.rows[p] # None /\ (b.rows[p].deleted \/ b.rows[p].version >= image.version)
      <4>1. Behind(b, F, p, m)
        BY <2>4, <3>2 DEF Behind
      <4>2. image.version < F[m].image.version
        BY <1>2, <1>5, <2>1, <3>2, <4>1 DEF Behind
      <4>3. m > c
        BY <1>1, <1>2, <2>1, <4>2
      <4> QED BY <4>1, <4>3
    <3> QED BY <1>8, <3>1, <3>2 DEF Applying
  <2>5. ASSUME NEW m \in OfProduct(F, p), m <= c \/ (m <= to /\ m \in S), Behind(h, F, p, m)
        PROVE  \/ Excused(h, mine, F, p)
               \/ Open(h, F, p) # {}
               \/ \E s \in OfProduct(F, p) : s > m /\ (s > to \/ (s > c /\ s \notin S))
    <3>1. m > c /\ (b.rows[p] # None => Behind(b, F, p, m))
      BY <2>4, <2>5
    <3>2. m <= to /\ m \in S
      BY <1>1, <1>2, <2>5, <3>1
    <3>3. \/ Excused(b, mine, F, p)
          \/ Open(b, F, p) # {}
          \/ \E s \in OfProduct(F, p) : s > m /\ (s > to \/ (s > c - 1 /\ s \notin S))
      BY <1>6, <3>1, <3>2
    <3>4. \A s \in OfProduct(F, p) : s > m => s > c
      BY <1>1, <1>2, <3>1
    <3> QED BY <1>3, <1>4, <3>3, <3>4
  <2>6. O[p] # None => h.rows[p] # None
    BY <2>2
  <2> QED BY <2>2, <2>3, <2>5, <2>6 DEF Advancing, c
<1> QED BY <1>7, <1>8 DEF c

(* At the end the cursor moves on, and everything is as it has to be.       *)
LEMMA AdvanceEnds ==
    ASSUME NEW own, NEW known, NEW mine, NEW O, NEW C, NEW F, Grounds(own, known, mine, O, C, F),
           NEW p \in Products, NEW b, NEW h, NEW S, NEW from \in Nat, NEW n \in Nat,
           h.rows = b.rows, Pend(h, p) = Pend(b, p), Confl(h, p) = Confl(b, p), h.cursor = from + n,
           Advancing(b, mine, O, C, F, S, from, n, from + n, p)
    PROVE  RowInv(h, mine, O, C, F, p)
<1>1. Open(h, F, p) = Open(b, F, p)
  BY DEF Open
<1>2. Excused(h, mine, F, p) <=> Excused(b, mine, F, p)
  BY DEF Excused, Disputed, Outrun
<1>3. Founded(h, mine, O, C, F, p)
  BY <1>2 DEF Advancing, Founded, Predicted
<1>4. Present(h, O, F, p)
  BY DEF Advancing, Present
<1>5. \A m : Behind(h, F, p, m) <=> Behind(b, F, p, m)
  BY DEF Behind
<1>6. Repaired(h, mine, F, p)
  BY <1>1, <1>2, <1>5 DEF Advancing, Repaired
<1> QED BY <1>3, <1>4, <1>6 DEF RowInv
-----------------------------------------------------------------------------
(* LOCAL TRANSACTIONS                                                       *)

(* Queued operations stay as they are, and follow-ups are explained.        *)
Agreeing(b, h, known) == \A x \in known : Agrees(b, x) => Agrees(h, x)

(* Nothing of the products changes. *)
Quiet(b, h, known) ==
    /\ Turns(b, h, {}, {})
    /\ h.cursor = b.cursor
    /\ Agreeing(b, h, known)
    /\ \A p \in Products : Confl(h, p) = Confl(b, p) /\ SameRow(b, h, p)

(* Twice nothing is nothing. *)
LEMMA QuietOn ==
    ASSUME NEW b, NEW g, NEW h, NEW known, Quiet(b, g, known), Quiet(g, h, known)
    PROVE  Quiet(b, h, known)
<1>1. Turns(b, h, {}, {})
  BY DEF Quiet, Turns
<1>2. Agreeing(b, h, known)
  BY DEF Quiet, Agreeing
<1>3. \A p \in Products : Confl(h, p) = Confl(b, p) /\ SameRow(b, h, p)
  BY DEF Quiet, SameRow
<1> QED BY <1>1, <1>2, <1>3 DEF Quiet

(* Operations that agree do so when the queue has no others for their ids,  *)
(* and what explains them is still there.                                  *)
LEMMA AgreesOn ==
    ASSUME NEW b, NEW h, NEW known, NEW new, QueueOps(h) \subseteq QueueOps(b) \cup new,
           \A y \in new : \A x \in known : Agrees(b, x) => x.id # y.id,
           \A x \in known : Explained(b, x.id) => Explained(h, x.id)
    PROVE  Agreeing(b, h, known)
<1>1. SUFFICES ASSUME NEW x \in known, Agrees(b, x), NEW n \in DOMAIN h.queue, h.queue[n].op.id = x.id
               PROVE  h.queue[n].op = x
  BY DEF Agreeing, Agrees
<1>2. h.queue[n].op \in QueueOps(h)
  BY DEF QueueOps
<1>3. h.queue[n].op \in QueueOps(b)
  BY <1>1, <1>2
<1>4. PICK k \in DOMAIN b.queue : b.queue[k].op = h.queue[n].op
  BY <1>3 DEF QueueOps
<1> QED BY <1>1, <1>4 DEF Agrees

(* The queue and the conflicts stay, and rows show the same.                *)
LEMMA RowsQuiet ==
    ASSUME NEW b, NEW h, NEW known, h.queue = b.queue, h.conflicts = b.conflicts,
           h.cursor = b.cursor, \A p \in Products : SameRow(b, h, p)
    PROVE  Quiet(b, h, known)
<1>1. Turns(b, h, {}, {})
  BY DEF Turns, Outbox, Before
<1>2. Agreeing(b, h, known)
  BY DEF Agreeing, Agrees, Explained
<1>3. \A p \in Products : Confl(h, p) = Confl(b, p)
  BY DEF Confl
<1> QED BY <1>1, <1>2, <1>3 DEF Quiet

(* Statuses other than blocked give way to one another. *)
LEMMA RestatusQuiet ==
    ASSUME NEW own, NEW known, NEW F, NEW b, Good(b, own, known, Accepted(F)), NEW ids,
           NEW old \in {"queued", "retrying", "inflight", "parked"},
           NEW new \in {"queued", "retrying", "inflight", "parked"}
    PROVE  Quiet(b, Restatus(b, ids, old, new), known)
<1> DEFINE h == Restatus(b, ids, old, new)
<1>1. /\ DOMAIN h.queue = DOMAIN b.queue
      /\ \A n \in DOMAIN b.queue : h.queue[n].op = b.queue[n].op
      /\ h.conflicts = b.conflicts /\ h.rows = b.rows /\ h.cursor = b.cursor
  <2> HIDE DEF h
  <2> QED BY Restatused DEF h
<1>2. ASSUME NEW n \in DOMAIN b.queue
      PROVE  h.queue[n].status = "blocked" <=> b.queue[n].status = "blocked"
  <2>1. b.queue[n] \in QueueRow
    BY DEF Good, Database
  <2>2. h.queue[n] = IF b.queue[n].op.id \in ids /\ b.queue[n].status = old
                     THEN [b.queue[n] EXCEPT !.status = new] ELSE b.queue[n]
    BY DEF Restatus, Good, Database
  <2> QED BY <2>1, <2>2 DEF QueueRow
<1> HIDE DEF h
<1>3. Turns(b, h, {}, {}) /\ QueueOps(h) = QueueOps(b)
  BY <1>1, <1>2, RelabelTurns
<1>4. Agreeing(b, h, known)
  <2>1. \A x \in known : Explained(b, x.id) => Explained(h, x.id)
    BY <1>1 DEF Explained
  <2> DEFINE new2 == {}
  <2>2. QueueOps(h) \subseteq QueueOps(b) \cup new2 /\ \A y \in new2 : FALSE
    BY <1>3
  <2> HIDE DEF new2
  <2> QED BY <2>1, <2>2, AgreesOn
<1>5. \A p \in Products : Confl(h, p) = Confl(b, p) /\ SameRow(b, h, p)
  BY <1>1 DEF Confl, SameRow
<1> QED BY <1>1, <1>3, <1>4, <1>5 DEF Quiet, h

(* Displaced stocktakes are no operations on products. *)
LEMMA DisplaceQuiet ==
    ASSUME NEW own, NEW known, NEW F, World(own, known, F),
           NEW b, Good(b, own, known, Accepted(F)), NEW ops, Displaceable(ops, F)
    PROVE  Quiet(b, Displace(b, ops), known)
<1> DEFINE h == Displace(b, ops)
           ids == {op.id : op \in ops}
<1>1. /\ DOMAIN h.queue = DOMAIN b.queue
      /\ \A n \in DOMAIN b.queue : h.queue[n].op = b.queue[n].op
      /\ h.rows = b.rows /\ h.cursor = b.cursor
  <2> HIDE DEF h
  <2> QED BY Displaced DEF h
<1>2. b \in Database /\ \A op \in ops : ~IsProductOp(op) /\ op \in known
  BY DEF Good, Displaceable, World, FeedOk
<1>3. ASSUME NEW x \in known, NEW op \in ops, op.id[1] = x.id[1]
      PROVE  ~IsProductOp(x) /\ x.id = op.id /\ x.id[2] = 0
  <2>1. Alike(op, x) /\ ~IsProductOp(op) /\ Alike(x, op)
    BY <1>2, <1>3 DEF World, Family
  <2> QED BY <2>1 DEF Alike
<1>4. ASSUME NEW n \in DOMAIN b.queue, IsProductOp(b.queue[n].op)
      PROVE  h.queue[n].status = b.queue[n].status
  <2>1. b.queue[n].op \in known
    BY DEF Good, GoodQueue, World, Family
  <2>2. b.queue[n].op.id \notin ids
    BY <1>3, <1>4, <2>1
  <2> HIDE DEF ids
  <2>3. h.queue[n] = IF b.queue[n].op.id \in ids THEN [b.queue[n] EXCEPT !.status = "blocked"] ELSE b.queue[n]
    BY <1>2 DEF Displace, Database, ids
  <2> QED BY <2>2, <2>3
<1>5. h.conflicts = {x \in b.conflicts : x.op.id \notin ids} \cup
         {[op |-> op, reason |-> "stocktake_displaced", server |-> None, resolution |-> "unresolved"] : op \in ops}
  BY <1>2 DEF Displace, Database
<1> HIDE DEF h
<1>6. Turns(b, h, {}, {}) /\ QueueOps(h) = QueueOps(b)
  BY <1>1, <1>4, RelabelTurns
<1>7. \A c \in b.conflicts : c.op \in known
  BY DEF Good, GoodConflicts
<1>8. \A p \in Products : Confl(h, p) = Confl(b, p)
  <2>1. \A c \in b.conflicts : IsProductOp(c.op) => c.op.id \notin ids
    BY <1>3, <1>7
  <2>2. \A op \in ops : ~IsProductOp(op)
    BY <1>2
  <2> QED BY <1>5, <2>1, <2>2 DEF Confl, On
<1>9. Agreeing(b, h, known)
  <2>1. ASSUME NEW x \in known, Explained(b, x.id) PROVE Explained(h, x.id)
    <3>1. SUFFICES ASSUME x.id[2] > 0 PROVE Explained(h, x.id)
      BY DEF Explained
    <3>5. PICK e \in b.conflicts : NextId(e.op.id) = x.id /\ e.resolution \in {"auto_merged", "resolved"}
      BY <2>1, <3>1 DEF Explained
    <3>2. x.id \in OpId /\ e.op.id \in OpId /\ e.op \in known
      BY <1>7 DEF World, Family, Operation
    <3>3. e.op.id[1] = x.id[1] /\ e.op.id # x.id
      <4> DEFINE id == e.op.id
      <4>1. id \in OpId /\ NextId(id) = x.id /\ id[2] \in Nat
        BY <3>2, <3>5 DEF OpId
      <4> HIDE DEF id
      <4>2. x.id[1] = id[1] /\ x.id[2] = id[2] + 1
        BY <4>1, NextIdType
      <4>3. id # x.id
        BY <4>1, <4>2
      <4> QED BY <4>2, <4>3 DEF id
    <3>4. e.op.id \notin ids
      BY <1>3, <3>2, <3>3
    <3>6. e \in h.conflicts
      BY <1>5, <3>4
    <3> QED BY <3>5, <3>6 DEF Explained
  <2> DEFINE new == {}
  <2>2. QueueOps(h) \subseteq QueueOps(b) \cup new /\ \A y \in new : FALSE
    BY <1>6
  <2> HIDE DEF new
  <2> QED BY <2>1, <2>2, AgreesOn
<1>10. \A p \in Products : SameRow(b, h, p)
  BY <1>1 DEF SameRow
<1> QED BY <1>1, <1>6, <1>8, <1>9, <1>10 DEF Quiet, h

(* What is said of a product, and what it is excused or repaired by.        *)
Lane(b, mine, O, C, F, p) == QueueInv(b, mine, C, F, p) /\ RowInv(b, mine, O, C, F, p)
Saved(b, mine, C, F, p) ==
    \/ Excused(b, mine, F, p)
    \/ Open(b, F, p) # {}
    \/ Confl(b, p) # {} /\ Deleted(C, p)

(* It stays, for one product, when nothing changes or an accepted operation *)
(* leaves the queue.                                                       *)
LEMMA LaneAccepts ==
    ASSUME NEW own, NEW known, NEW mine, NEW O, NEW C, NEW F, Grounds(own, known, mine, O, C, F),
           NEW p \in Products, NEW b, Local(b, own, known, F), NEW h, NEW gone,
           LaneTurns(b, h, p, gone, {}), \A x \in gone : x.id \in Accepted(F),
           h.cursor = b.cursor, SameRow(b, h, p), Grown(b, h, p)
    PROVE  /\ Lane(b, mine, O, C, F, p) => Lane(h, mine, O, C, F, p)
           /\ AheadKept(b, mine, F, h, mine, F, p)
           /\ QueueInv(b, mine, C, F, p) /\ Saved(b, mine, C, F, p) => Saved(h, mine, C, F, p)
<1>1. QueueInv(b, mine, C, F, p) => QueueInv(h, mine, C, F, p) /\ Open(h, F, p) = Open(b, F, p)
  BY QueueAccepts
<1>2. Pend(b, p) \ gone \subseteq Pend(h, p)
  BY DEF LaneTurns
<1>3. /\ RowInv(b, mine, O, C, F, p) => RowInv(h, mine, O, C, F, p)
      /\ AheadKept(b, mine, F, h, mine, F, p)
  BY <1>2, RowKept
<1>4. Excused(b, mine, F, p) => Excused(h, mine, F, p)
  BY ExcusedStays
<1> QED BY <1>1, <1>3, <1>4 DEF Lane, Saved, Grown

(* Nothing happens in a lane over a quiet transaction. *)
LEMMA QuietLane ==
    ASSUME NEW own, NEW known, NEW mine, NEW O, NEW C, NEW F, Grounds(own, known, mine, O, C, F),
           NEW p \in Products, NEW b, Local(b, own, known, F), NEW h, Quiet(b, h, known)
    PROVE  /\ Lane(b, mine, O, C, F, p) => Lane(h, mine, O, C, F, p)
           /\ AheadKept(b, mine, F, h, mine, F, p)
           /\ QueueInv(b, mine, C, F, p) /\ Saved(b, mine, C, F, p) => Saved(h, mine, C, F, p)
<1> DEFINE gone == {}
<1>1. LaneTurns(b, h, p, gone, {})
  <2>1. Turns(b, h, {}, {})
    BY DEF Quiet
  <2> QED BY <2>1, TurnsInLane
<1>2. \A x \in gone : x.id \in Accepted(F)
  OBVIOUS
<1>3. h.cursor = b.cursor /\ SameRow(b, h, p) /\ Grown(b, h, p)
  BY DEF Quiet, Grown, Disputed
<1> HIDE DEF gone
<1> QED BY <1>1, <1>2, <1>3, LaneAccepts

(* The operations of the feed agree with what a transaction leaves. *)
LEMMA LocalKept ==
    ASSUME NEW own, NEW known, NEW mine, NEW O, NEW C, NEW F, Grounds(own, known, mine, O, C, F),
           NEW b, Local(b, own, known, F), NEW h, Good(h, own, known, Accepted(F)), Agreeing(b, h, known)
    PROVE  Local(h, own, known, F)
<1>1. \A s \in DOMAIN F : F[s].op \in known
  BY DEF Grounds, World, FeedOk
<1> QED BY <1>1 DEF Local, Agreeing

(* The status of a row or movement is nothing. *)
LEMMA StatusQuiet ==
    ASSUME NEW own, NEW known, NEW F, World(own, known, F), NEW op \in own,
           NEW b \in Database, NEW status \in SyncStatus
    PROVE  Quiet(b, SetLocalStatus(b, op, status), known)
<1> DEFINE h == SetLocalStatus(b, op, status)
<1>1. op.product \in Products
  BY DEF World, Family, Operation
<1>2. CASE ~HasConsequence(b, op)
  <2>1. h = b
    BY <1>2 DEF SetLocalStatus
  <2> HIDE DEF h
  <2> QED BY <2>1, RowsQuiet DEF SameRow, h
<1>3. CASE HasConsequence(b, op) /\ IsProductOp(op)
  <2> DEFINE row == [b.rows[op.product] EXCEPT !.status = status]
  <2>1. b.rows[op.product] \in LocalRow
    BY <1>1, <1>3 DEF HasConsequence, Database
  <2>2. h = [b EXCEPT !.rows[op.product] = row]
    BY <1>1, <1>3 DEF SetLocalStatus, Database
  <2>3. /\ row.version = b.rows[op.product].version /\ row.deleted = b.rows[op.product].deleted
        /\ row.fields = b.rows[op.product].fields
    BY <2>1 DEF LocalRow
  <2>4. row \in LocalRow /\ row # None
    BY <2>1, NoneIsNoData DEF LocalRow
  <2> HIDE DEF row
  <2>5. /\ h.queue = b.queue /\ h.conflicts = b.conflicts /\ h.cursor = b.cursor
        /\ h.rows = [b.rows EXCEPT ![op.product] = row]
    BY <2>2 DEF Database
  <2>6. DOMAIN b.rows = Products
    BY DEF Database
  <2> HIDE DEF h
  <2>7. \A p \in Products : SameRow(b, h, p)
    BY <1>1, <1>3, <2>3, <2>4, <2>5, <2>6 DEF SameRow, HasConsequence
  <2> QED BY <2>5, <2>7, RowsQuiet DEF h
<1>4. CASE HasConsequence(b, op) /\ ~IsProductOp(op)
  <2>1. h.rows = b.rows /\ h.queue = b.queue /\ h.conflicts = b.conflicts /\ h.cursor = b.cursor
    BY <1>4 DEF SetLocalStatus, Database
  <2> HIDE DEF h
  <2> QED BY <2>1, RowsQuiet DEF SameRow, h
<1> QED BY <1>2, <1>3, <1>4
-----------------------------------------------------------------------------
(* THE RESULTS OF A RESPONSE                                                *)

(* Agreement over two transactions. *)
LEMMA AgreeingOn ==
    ASSUME NEW b, NEW g, NEW h, NEW known, Agreeing(b, g, known), Agreeing(g, h, known)
    PROVE  Agreeing(b, h, known)
  BY DEF Agreeing

(* An operation that is queued as it was sent, and accepted, is in the feed *)
(* as it is.                                                               *)
LEMMA AcceptedAsSent ==
    ASSUME NEW own, NEW known, NEW mine, NEW O, NEW C, NEW F, Grounds(own, known, mine, O, C, F),
           NEW op \in own, NEW b, Local(b, own, known, F), Agrees(b, op), op.id \in QueuedIds(b)
    PROVE  op \in QueueOps(b) /\ \A s \in DOMAIN F : F[s].op.id = op.id => F[s].op = op
<1>1. PICK n \in DOMAIN b.queue : b.queue[n].op.id = op.id
  BY DEF QueuedIds
<1>2. b.queue[n].op = op
  BY <1>1 DEF Agrees
<1>3. ASSUME NEW s \in DOMAIN F, F[s].op.id = op.id PROVE F[s].op = op
  <2>1. op \in known /\ F[s].op \in known
    BY DEF Grounds, World, Family, FeedOk
  <2>2. F[s].op \in own
    BY <1>3, <2>1 DEF Grounds
  <2>3. Agrees(b, F[s].op)
    BY <2>2 DEF Local
  <2> QED BY <1>1, <1>2, <1>3, <2>3 DEF Agrees
<1> QED BY <1>1, <1>2, <1>3 DEF QueueOps

(* The canonical row of an accepted operation. *)
LEMMA CanonicalRows ==
    ASSUME NEW b \in Database, NEW op, op.product \in Products, NEW c,
           IsProductOp(op) => c.image \in Image, ApplyCanonical(b, op, c) # None
    PROVE  LET e == ApplyCanonical(b, op, c) IN
           /\ ~IsProductOp(op) => e.rows = b.rows
           /\ IsProductOp(op) => Shows(e, op.product, c.image)
           /\ \A p \in Products : p # op.product => SameRow(b, e, p)
<1> DEFINE e == ApplyCanonical(b, op, c)
<1>1. b.rows[op.product] # None
  BY DEF ApplyCanonical
<1>2. CASE IsProductOp(op)
  <2> DEFINE row == ToLocal(c.image, "synced")
  <2>1. e = [b EXCEPT !.rows[op.product] = row]
    BY <1>1, <1>2 DEF ApplyCanonical, HasConsequence
  <2>2. /\ row.version = c.image.version /\ row.deleted = c.image.deleted
        /\ row.fields = c.image.fields /\ row \in LocalRow
    BY <1>2 DEF ToLocal, LocalRow, Image, SyncStatus
  <2>3. row # None
    BY <2>2, NoneIsNoData
  <2> HIDE DEF row
  <2>4. e.rows = [b.rows EXCEPT ![op.product] = row] /\ DOMAIN b.rows = Products
    BY <2>1 DEF Database
  <2> HIDE DEF e
  <2> QED BY <1>2, <2>2, <2>3, <2>4 DEF Shows, SameRow, e
<1>3. CASE ~IsProductOp(op)
  <2>1. e.rows = b.rows
    BY <1>1, <1>3 DEF ApplyCanonical, InsertCanonical, WithMove, Database
  <2> HIDE DEF e
  <2> QED BY <1>3, <2>1 DEF SameRow, e
<1> QED BY <1>2, <1>3

(* An accepted operation leaves the queue; its row shows the change, if the *)
(* page has it.                                                            *)
LEMMA AcceptedSettles ==
    ASSUME NEW own, NEW known, NEW mine, NEW O, NEW C, NEW F, Grounds(own, known, mine, O, C, F),
           NEW op \in own, NEW b, Local(b, own, known, F), Agrees(b, op),
           NEW r, ResultFits(op, r, F), r.applied,
           NEW page, PageOf(page, F), Settle(b, op, r, page) # None
    PROVE  LET h == Settle(b, op, r, page) IN
           /\ F[r.seq].op = op
           /\ Turns(b, h, {op}, {}) /\ h.cursor = b.cursor /\ Agreeing(b, h, known)
           /\ \A p \in Products :
                /\ Confl(h, p) = Confl(b, p)
                /\ IF On(op, p) /\ r.seq \in DOMAIN page THEN Shows(h, p, F[r.seq].image)
                   ELSE SameRow(b, h, p)
<1> DEFINE h == Settle(b, op, r, page)
           settled == IF r.seq \in DOMAIN page THEN ApplyCanonical(b, op, page[r.seq])
                      ELSE IF HasConsequence(b, op) THEN SetLocalStatus(b, op, "synced")
                      ELSE None
           shown == Displace(settled, r.displaced)
<1>1. StatusOf(b, op.id) = {"inflight"} /\ settled # None /\ h = Dequeue(shown, op.id)
  BY DEF Settle, Indexed
<1>2. /\ r.seq \in DOMAIN F /\ F[r.seq].op.id = op.id /\ r.displaced = F[r.seq].displaced
      /\ op.id \in Accepted(F) /\ op \in Operation /\ op.product \in Products
      /\ World(own, known, F) /\ Good(b, own, known, Accepted(F)) /\ b \in Database
  BY DEF ResultFits, Accepted, Grounds, World, Family, Local, Good, Operation
<1>3. op.id \in QueuedIds(b)
  BY <1>1 DEF StatusOf, QueuedIds
<1>4. op \in QueueOps(b) /\ F[r.seq].op = op
  BY <1>2, <1>3, AcceptedAsSent
<1>5. /\ Good(settled, own, known, Accepted(F)) /\ settled.queue = b.queue
      /\ settled.conflicts = b.conflicts /\ settled.cursor = b.cursor
      /\ \A p \in Products : IF On(op, p) /\ r.seq \in DOMAIN page THEN Shows(settled, p, F[r.seq].image)
                             ELSE SameRow(b, settled, p)
  <2>1. CASE r.seq \in DOMAIN page
    <3>1. settled = ApplyCanonical(b, op, F[r.seq])
      BY <2>1 DEF PageOf
    <3>2. IsProductOp(op) => F[r.seq].image \in Image
      BY <1>2, <1>4 DEF World, FeedOk
    <3> HIDE DEF settled
    <3>3. /\ Good(settled, own, known, Accepted(F)) /\ settled.queue = b.queue
          /\ settled.conflicts = b.conflicts /\ Follows(b, settled, F)
      BY <1>1, <1>2, <3>1, CanonicalApplied
    <3>4. /\ ~IsProductOp(op) => settled.rows = b.rows
          /\ IsProductOp(op) => Shows(settled, op.product, F[r.seq].image)
          /\ \A p \in Products : p # op.product => SameRow(b, settled, p)
      <4> DEFINE c == F[r.seq]
      <4> HIDE DEF c
      <4>1. ApplyCanonical(b, op, c) # None /\ (IsProductOp(op) => c.image \in Image)
        BY <1>1, <3>1, <3>2 DEF c
      <4>2. LET e == ApplyCanonical(b, op, c) IN
            /\ ~IsProductOp(op) => e.rows = b.rows
            /\ IsProductOp(op) => Shows(e, op.product, c.image)
            /\ \A p \in Products : p # op.product => SameRow(b, e, p)
        BY <1>2, <4>1, CanonicalRows
      <4> QED BY <3>1, <4>2 DEF c
    <3>5. settled.cursor = b.cursor
      BY <3>3 DEF Follows
    <3>6. ASSUME NEW p \in Products
          PROVE IF On(op, p) /\ r.seq \in DOMAIN page THEN Shows(settled, p, F[r.seq].image)
                ELSE SameRow(b, settled, p)
      BY <2>1, <3>4 DEF On, SameRow
    <3> QED BY <3>3, <3>5, <3>6
  <2>2. CASE r.seq \notin DOMAIN page
    <3>1. settled = SetLocalStatus(b, op, "synced") /\ "synced" \in SyncStatus
      BY <1>1, <2>2 DEF SyncStatus
    <3> HIDE DEF settled
    <3>2. /\ Good(settled, own, known, Accepted(F)) /\ settled.queue = b.queue
          /\ settled.conflicts = b.conflicts
      BY <1>2, <3>1, StatusSet
    <3>3. Quiet(b, settled, known)
      BY <1>2, <3>1, StatusQuiet
    <3> QED BY <2>2, <3>2, <3>3 DEF Quiet
  <2> QED BY <2>1, <2>2
<1> HIDE DEF settled, h
<1>6. Displaceable(r.displaced, F)
  BY <1>2 DEF World, FeedOk, Displaceable
<1>7. /\ Good(shown, own, known, Accepted(F)) /\ DOMAIN shown.queue = DOMAIN settled.queue
      /\ \A n \in DOMAIN settled.queue : shown.queue[n].op = settled.queue[n].op
  BY <1>2, <1>5, <1>6, Displaced
<1>8. Quiet(settled, shown, known)
  BY <1>2, <1>5, <1>6, DisplaceQuiet
<1> HIDE DEF shown
<1>9. QueueOps(shown) = QueueOps(b)
  BY <1>5, <1>7 DEF QueueOps
<1>10. Turns(shown, h, {op}, {}) /\ QueueOps(h) \subseteq QueueOps(shown)
  <2>1. GoodQueue(shown, own) /\ shown \in Database
    BY <1>7 DEF Good
  <2> QED BY <1>1, <1>4, <1>9, <2>1, DequeueTurns
<1>11. h.rows = shown.rows /\ h.conflicts = shown.conflicts /\ h.cursor = shown.cursor
  BY <1>1, <1>7 DEF Dequeue, Good, Database
<1>12. Turns(b, h, {op}, {})
  <2>1. Turns(b, settled, {}, {})
    BY <1>5, RelabelTurns
  <2>2. Turns(settled, shown, {}, {})
    BY <1>8 DEF Quiet
  <2> DEFINE none == {}
  <2>3. none \cap Outbox(b) = {} /\ none \cup none = {} /\ none \cup {op} = {op}
    OBVIOUS
  <2>4. Turns(b, settled, none, {}) /\ Turns(settled, shown, none, none) /\ Turns(shown, h, {op}, none)
    BY <1>10, <2>1, <2>2
  <2> HIDE DEF none
  <2>5. Turns(b, shown, none \cup none, none)
    BY <2>3, <2>4, TurnsOn
  <2>6. Turns(b, shown, none, {})
    BY <2>3, <2>5 DEF none
  <2>7. Turns(b, h, none \cup {op}, none)
    BY <2>3, <2>4, <2>6, TurnsOn
  <2> QED BY <2>3, <2>7 DEF none
<1>13. Agreeing(b, h, known)
  <2>1. Agreeing(b, settled, known)
    BY <1>5 DEF Agreeing, Agrees, Explained
  <2>2. Agreeing(settled, shown, known)
    BY <1>8 DEF Quiet
  <2>3. Agreeing(shown, h, known)
    <3> DEFINE none == {}
    <3>1. QueueOps(h) \subseteq QueueOps(shown) \cup none
      BY <1>10
    <3>2. \A y \in none : \A x \in known : Agrees(shown, x) => x.id # y.id
      OBVIOUS
    <3>3. \A x \in known : Explained(shown, x.id) => Explained(h, x.id)
      BY <1>11 DEF Explained
    <3> HIDE DEF none
    <3> QED BY <3>1, <3>2, <3>3, AgreesOn
  <2> QED BY <2>1, <2>2, <2>3, AgreeingOn
<1>14. h.cursor = b.cursor
  BY <1>5, <1>8, <1>11 DEF Quiet
<1>15. ASSUME NEW p \in Products
       PROVE  /\ Confl(h, p) = Confl(b, p)
              /\ IF On(op, p) /\ r.seq \in DOMAIN page THEN Shows(h, p, F[r.seq].image)
                 ELSE SameRow(b, h, p)
  <2>1. Confl(h, p) = Confl(b, p)
    <3>1. Confl(shown, p) = Confl(settled, p)
      BY <1>8 DEF Quiet
    <3> QED BY <1>5, <1>11, <3>1 DEF Confl
  <2>2. SameRow(settled, h, p)
    BY <1>8, <1>11 DEF Quiet, SameRow
  <2>3. CASE On(op, p) /\ r.seq \in DOMAIN page
    BY <1>5, <2>1, <2>2, <2>3 DEF Shows, SameRow
  <2>4. CASE ~(On(op, p) /\ r.seq \in DOMAIN page)
    BY <1>5, <2>1, <2>2, <2>4 DEF SameRow
  <2> QED BY <2>3, <2>4
<1> QED BY <1>4, <1>12, <1>13, <1>14, <1>15 DEF h

(* A tombstone is written over whatever there is. *)
LEMMA TombstoneApplies ==
    ASSUME NEW b \in Database, NEW p \in Products, NEW image \in Image, image.deleted,
           ApplyProduct(b, p, image) # None
    PROVE  Gone(ApplyProduct(b, p, image), p)
<1> DEFINE h == ApplyProduct(b, p, image)
<1>1. CASE b.rows[p] # None /\ b.rows[p].deleted
  <2>1. h = b \/ h = StoreProduct(b, p, image)
    BY <1>1 DEF ApplyProduct
  <2>2. CASE h = StoreProduct(b, p, image)
    <3>1. Shows(StoreProduct(b, p, image), p, image)
      BY <2>2, StoreShows
    <3> QED BY <2>2, <3>1 DEF Gone, Shows
  <2>3. CASE h = b
    <3> HIDE DEF h
    <3>1. Gone(h, p)
      BY <1>1, <2>3 DEF Gone
    <3> QED BY <3>1 DEF h
  <2> QED BY <2>1, <2>2, <2>3
<1>2. CASE b.rows[p] = None \/ ~b.rows[p].deleted
  <2>1. h = StoreProduct(b, p, image)
    BY <1>2 DEF ApplyProduct
  <2>2. Shows(StoreProduct(b, p, image), p, image)
    BY <2>1, StoreShows
  <2> QED BY <2>1, <2>2 DEF Gone, Shows
<1> QED BY <1>1, <1>2

(* A rejected operation leaves the outbox with a conflict: it is merged     *)
(* into an edit of a later version, the user decides, or the product is    *)
(* deleted.                                                                *)
Merges(b, h, op, next, C, F) ==
    /\ Turns(b, h, {op}, {next})
    /\ On(next, op.product) /\ Upsert(next) /\ next.id \notin Accepted(F)
    /\ next.base \in Nat /\ op.base < next.base /\ next.base <= Version(C, op.product)
    /\ Confl(h, op.product) # {}
    /\ h.rows[op.product] # None /\ ~h.rows[op.product].deleted
    /\ h.rows[op.product].version = next.base + 1
    /\ h.rows[op.product].fields = next.fields
Retains(b, h, op, C) ==
    /\ Turns(b, h, {op}, {})
    /\ b.rows[op.product] # None => h.rows[op.product] # None
    /\ IsProductOp(op) =>
        \/ Disputed(h, op.product)
        \/ Confl(h, op.product) # {} /\ Deleted(C, op.product) /\ Gone(h, op.product)

(* The conflict that shows a verdict. *)
LEMMA VerdictShown ==
    ASSUME NEW op \in Operation, NEW r \in Outcome, NEW resolution \in {"unresolved", "auto_merged"}
    PROVE  LET c == [op |-> op, reason |-> r.reason, server |-> r.state, resolution |-> resolution] IN
           /\ c \in Conflict /\ c.op = op /\ c.reason = r.reason /\ c.resolution = resolution
           /\ r.state \in Image \cup {None}
<1>1. r.state \in Image \cup {None} /\ r.reason \in Reasons \cup {""}
  BY Zenon DEF Outcome
<1> QED BY <1>1, Zenon DEF Conflict

(* A rejected operation is merged or retained. *)
LEMMA RejectedSettles ==
    ASSUME NEW own, NEW known, NEW mine, NEW O, NEW C, NEW F, Grounds(own, known, mine, O, C, F),
           NEW op \in own, OpFits(op), NEW b, Local(b, own, known, F), Agrees(b, op),
           NEW r, ResultFits(op, r, F), ~r.applied, Told(C, op, r),
           NEW page, PageOf(page, F), Settle(b, op, r, page) # None
    PROVE  LET h == Settle(b, op, r, page) IN
           /\ h.cursor = b.cursor /\ Agreeing(b, h, known)
           /\ \A p \in Products :
                /\ Grown(b, h, p)
                /\ ~On(op, p) => SameRow(b, h, p)
           /\ (IsProductOp(op) /\ \E next : Merges(b, h, op, next, C, F)) \/ Retains(b, h, op, C)
<1> DEFINE merge == MergeOf(b, op, r)
           c == [op |-> op, reason |-> r.reason, server |-> r.state,
                 resolution |-> IF merge = None THEN "unresolved" ELSE "auto_merged"]
           kept == Blocked(b, op, c)
           marked == SetLocalStatus(kept, op, "conflict")
           e == Retain(b, op, r)
<1>1. /\ op \in Operation /\ op.id \in OpId /\ op.product \in Products /\ r \in Outcome
      /\ b \in Database /\ World(own, known, F) /\ Good(b, own, known, Accepted(F))
      /\ GoodQueue(b, own) /\ GoodLinks(b) /\ op \in known
  BY DEF World, Family, Operation, ResultFits, Good, Local, Grounds
<1>2. StatusOf(b, op.id) = {"inflight"} /\ Settle(b, op, r, page) = e /\ e # None
  BY DEF Settle, Indexed
<1>3. /\ c \in Conflict /\ c.op = op /\ c.reason = r.reason
      /\ c.resolution = IF merge = None THEN "unresolved" ELSE "auto_merged"
      /\ r.state \in Image \cup {None}
  <2> DEFINE resolution == IF merge = None THEN "unresolved" ELSE "auto_merged"
  <2>1. op \in Operation /\ r \in Outcome /\ resolution \in {"unresolved", "auto_merged"}
    BY <1>1
  <2> HIDE DEF resolution
  <2>2. LET k == [op |-> op, reason |-> r.reason, server |-> r.state, resolution |-> resolution] IN
        /\ k \in Conflict /\ k.op = op /\ k.reason = r.reason /\ k.resolution = resolution
        /\ r.state \in Image \cup {None}
    BY <2>1, VerdictShown
  <2> QED BY <2>2, Zenon DEF resolution
<1>4. Choosable(c, own)
  BY <1>1, <1>3 DEF Choosable, ResultFits, OpFits
<1>5. e = IF merge # None THEN FollowUp(kept, op, merge, r.state)
          ELSE IF IsProductOp(op) /\ r.state # None /\ r.state.deleted
          THEN ApplyProduct(marked, op.product, r.state)
          ELSE marked
  BY DEF Retain, Blocked
<1>6. kept.rows = b.rows /\ kept.cursor = b.cursor
  BY <1>1 DEF Blocked, WithConflict, Restatus, Database
<1>7. /\ kept.conflicts = {x \in b.conflicts : x.op.id # op.id} \cup {c}
  BY <1>1, <1>3 DEF Blocked, WithConflict, Restatus, Database
<1> HIDE DEF c, e
<1>8. /\ GoodBut(kept, own, known, Accepted(F), NextId(op.id)) /\ Follows(b, kept, F)
      /\ c.resolution # "auto_merged" => Good(kept, own, known, Accepted(F))
      /\ NextId(op.id) \notin QueuedIds(kept) /\ ~HasConflict(kept, NextId(op.id))
  BY <1>1, <1>2, <1>3, <1>4, OperationBlocked DEF World
<1>9. op.id \in QueuedIds(b) /\ op \in QueueOps(b)
  <2>1. op.id \in QueuedIds(b)
    BY <1>2 DEF StatusOf, QueuedIds
  <2> QED BY <2>1, AcceptedAsSent
<1>10. ~HasConflict(b, op.id)
  <2>1. PICK n \in DOMAIN b.queue : b.queue[n].op.id = op.id
    BY <1>9 DEF QueuedIds
  <2>2. b.queue[n].status \in StatusOf(b, op.id)
    BY <2>1 DEF StatusOf
  <2>3. b.queue[n].status = "inflight"
    BY <1>2, <2>2
  <2> QED BY <1>1, <2>1, <2>3 DEF GoodLinks
<1>11. kept.conflicts = b.conflicts \cup {c}
  BY <1>7, <1>10 DEF HasConflict
<1>12. Turns(b, kept, {op}, {}) /\ QueueOps(kept) = QueueOps(b)
  BY <1>1, <1>2, <1>9, BlockTurns
<1>13. ~Explained(b, NextId(op.id))
  <2>1. NextId(op.id)[2] > 0
    BY <1>1, NextIdType
  <2>2. SUFFICES ASSUME NEW x \in b.conflicts, NextId(x.op.id) = NextId(op.id) PROVE FALSE
    BY <2>1 DEF Explained
  <2>3. x.op.id \in OpId
    <3>1. x \in Conflict
      BY <1>1 DEF Database
    <3>2. x.op \in Operation
      BY <3>1, Zenon DEF Conflict
    <3> QED BY <3>2 DEF Operation
  <2>4. x.op.id = op.id
    BY <1>1, <2>2, <2>3, NextIdIsOne
  <2> QED BY <1>10, <2>4 DEF HasConflict
<1>14. op \in Outbox(b) <=> IsProductOp(op)
  <2>1. PICK n \in DOMAIN b.queue : b.queue[n].op = op
    BY <1>9 DEF QueueOps
  <2>2. b.queue[n].status \in StatusOf(b, op.id)
    BY <2>1 DEF StatusOf
  <2>3. b.queue[n].status # "blocked"
    BY <1>2, <2>2
  <2> QED BY <2>1, <2>3 DEF Outbox
<1> HIDE DEF kept, merge
<1>15. ASSUME NEW g, b.conflicts \cup {c} = g.conflicts
       PROVE  /\ \A p : Grown(b, g, p) /\ (On(op, p) => c \in Confl(g, p))
              /\ \A x \in known : Explained(b, x.id) => Explained(g, x.id)
  <2>1. \A p : Grown(b, g, p)
    BY <1>15 DEF Grown, Disputed, Confl
  <2>2. \A p : On(op, p) => c \in Confl(g, p)
    BY <1>3, <1>15 DEF Confl
  <2>3. \A x \in known : Explained(b, x.id) => Explained(g, x.id)
    BY <1>15 DEF Explained
  <2> QED BY <2>1, <2>2, <2>3
<1>16. CASE merge # None
  <2> DEFINE next == [op EXCEPT !.id = <<@[1], @[2] + 1>>, !.kind = "edit", !.base = r.state.version,
                                !.fields = merge, !.basis = r.state.fields]
             row == OptimisticRow(kept, next)
  <2>1. merge \in Payload /\ r.state \in Image /\ IsProductOp(op)
    BY <1>1, <1>16, MergeType DEF merge
  <2>2. r.reason = "version_conflict" /\ r.state.version > op.base
    BY <1>16 DEF merge, MergeOf
  <2>3. r.state.version <= Version(C, op.product)
    BY <2>2 DEF Told
  <2>4. r.state.version \in Nat \ {0} /\ op.base \in Nat
    BY <1>1, <2>1 DEF Image, Operation
  <2>5. /\ next.product = op.product /\ next.kind = "edit" /\ next.base = r.state.version
        /\ next.fields = merge /\ next.id = NextId(op.id)
    BY <1>1 DEF Operation, NextId
  <2> HIDE DEF next
  <2>6. /\ row.version = next.base + 1 /\ ~row.deleted /\ row.fields = next.fields
        /\ row \in LocalRow
    <3>1. row = [version |-> next.base + 1, deleted |-> FALSE, fields |-> next.fields,
                 stamp |-> None, status |-> "pending"]
      BY <2>5 DEF OptimisticRow
    <3>2. "pending" \in SyncStatus
      BY DEF SyncStatus
    <3>3. next.base + 1 \in Nat \ {0} /\ next.fields \in Payload
      BY <2>1, <2>4, <2>5
    <3> HIDE DEF row
    <3> QED BY <3>1, <3>2, <3>3 DEF LocalRow
  <2>7. row # None
    BY <2>6, NoneIsNoData
  <2> HIDE DEF row
  <2>8. kept \in Database /\ GoodQueue(kept, own)
    BY <1>8 DEF GoodBut
  <2> DEFINE g == [kept EXCEPT !.rows[op.product] = row]
  <2>9. e = Enqueue(g, next)
    BY <1>5, <1>16, <2>5 DEF FollowUp, row, next
  <2>10. /\ g \in Database /\ g.queue = kept.queue /\ g.conflicts = kept.conflicts
         /\ g.rows = [kept.rows EXCEPT ![op.product] = row] /\ g.cursor = kept.cursor
    BY <1>1, <2>6, <2>8 DEF Database
  <2> HIDE DEF g
  <2>11. GoodQueue(g, own) /\ next.id \notin QueuedIds(g) /\ Outbox(g) = Outbox(kept) /\ QueueOps(g) = QueueOps(kept)
    BY <1>8, <2>5, <2>8, <2>10 DEF GoodQueue, QueuedIds, Outbox, QueueOps
  <2>12. IsProductOp(next)
    BY <2>5 DEF IsProductOp
  <2>13. Turns(g, e, {}, {next}) /\ QueueOps(e) = QueueOps(b) \cup {next}
    <3>1. Turns(g, Enqueue(g, next), {}, IF IsProductOp(next) THEN {next} ELSE {})
          /\ QueueOps(Enqueue(g, next)) = QueueOps(g) \cup {next}
      BY <2>10, <2>11, EnqueueTurns
    <3> QED BY <1>12, <2>9, <2>11, <2>12, <3>1
  <2>14. e.rows = g.rows /\ e.conflicts = g.conflicts /\ e.cursor = g.cursor
    BY <2>9, <2>10 DEF Enqueue, Database
  <2>15. Turns(b, g, {op}, {})
    BY <1>12, <2>10 DEF Turns, Outbox, Before
  <2>16. next \notin Outbox(b)
    BY <1>12, <2>11 DEF Outbox, QueueOps, QueuedIds
  <2>17. Turns(b, e, {op}, {next})
    <3> DEFINE none == {}  gone == {op}  new == {next}
    <3>1. Turns(b, g, gone, none) /\ Turns(g, e, none, new) /\ new \cap Outbox(b) = {}
          /\ gone \cup none = gone
      BY <2>13, <2>15, <2>16
    <3>2. Turns(b, e, gone \cup none, new)
      <4>1. Turns(b, g, gone, {})
        BY <3>1
      <4> HIDE DEF none, gone, new
      <4> QED BY <3>1, <4>1, TurnsOn
    <3> QED BY <3>1, <3>2
  <2>18. next.id \notin Accepted(F)
    <3>1. SUFFICES ASSUME NEW s \in DOMAIN F, F[s].op.id = next.id PROVE FALSE
      BY DEF Accepted
    <3>2. F[s].op.id[1] = op.id[1]
      BY <1>1, <2>5, <3>1, NextIdType
    <3>3. F[s].op \in known
      BY <1>1 DEF World, FeedOk
    <3>4. F[s].op \in own
      BY <1>1, <3>2, <3>3 DEF Grounds
    <3>5. Explained(b, next.id)
      BY <3>1, <3>4 DEF Local, Agrees
    <3> QED BY <1>13, <2>5, <3>5
  <2>19. Agreeing(b, e, known)
    <3> DEFINE new == {next}
    <3>1. QueueOps(e) \subseteq QueueOps(b) \cup new
      BY <2>13
    <3>2. \A y \in new : \A x \in known : Agrees(b, x) => x.id # y.id
      BY <1>13, <2>5 DEF Agrees
    <3>3. \A x \in known : Explained(b, x.id) => Explained(e, x.id)
      BY <1>11, <1>15, <2>10, <2>14
    <3> HIDE DEF new
    <3> QED BY <3>1, <3>2, <3>3, AgreesOn
  <2>20. /\ \A p : Grown(b, e, p)
         /\ c \in Confl(e, op.product)
    BY <1>11, <1>15, <2>1, <2>10, <2>14 DEF On
  <2>21. \A p \in Products : ~On(op, p) => SameRow(b, e, p)
    BY <1>1, <1>6, <2>1, <2>10, <2>14 DEF SameRow, On, Database
  <2>22. e.rows[op.product] = row
    BY <1>1, <1>6, <2>10, <2>14 DEF Database
  <2>23. Merges(b, e, op, next, C, F)
    <3>1. On(next, op.product) /\ Upsert(next)
      BY <2>5, <2>12 DEF On, Upsert
    <3>2. next.base \in Nat /\ op.base < next.base /\ next.base <= Version(C, op.product)
      BY <2>2, <2>3, <2>4, <2>5
    <3> QED BY <2>6, <2>7, <2>17, <2>18, <2>20, <2>22, <3>1, <3>2 DEF Merges
  <2>24. e.cursor = b.cursor
    BY <1>6, <2>10, <2>14
  <2> QED BY <1>2, <2>1, <2>19, <2>20, <2>21, <2>23, <2>24
<1>17. CASE merge = None
  <2>1. "conflict" \in SyncStatus /\ "conflict" # "synced"
    BY DEF SyncStatus
  <2>2. Good(kept, own, known, Accepted(F)) /\ kept \in Database
    BY <1>3, <1>8, <1>17 DEF Good
  <2>3. Good(marked, own, known, Accepted(F)) /\ marked.queue = kept.queue /\ marked.conflicts = kept.conflicts
    BY <1>1, <2>1, <2>2, StatusSet
  <2>4. Quiet(kept, marked, known)
    BY <1>1, <2>1, <2>2, StatusQuiet
  <2>5. marked.cursor = b.cursor /\ \A p \in Products : SameRow(b, marked, p)
    <3>1. marked.cursor = kept.cursor /\ \A p \in Products : SameRow(kept, marked, p)
      BY <2>4 DEF Quiet
    <3> QED BY <1>6, <3>1 DEF SameRow
  <2> HIDE DEF marked
  <2> DEFINE buries == IsProductOp(op) /\ r.state # None /\ r.state.deleted
  <2>6. CASE buries
    <3>1. e = ApplyProduct(marked, op.product, r.state) /\ r.state \in Image /\ r.state.deleted
      BY <1>5, <1>17, <1>3, <2>6
    <3>2. Applying(marked, e, op.product, r.state) /\ Gone(e, op.product)
      BY <1>1, <1>2, <2>3, <3>1, ProductApplies, TombstoneApplies DEF Good
    <3>3. Deleted(C, op.product)
      BY <2>6 DEF Told
    <3>4. e.queue = kept.queue /\ e.conflicts = b.conflicts \cup {c} /\ e.cursor = b.cursor
      BY <1>11, <2>3, <2>5, <3>2 DEF Applying
    <3>5. \A p \in Products : ~On(op, p) => SameRow(b, e, p)
      BY <2>5, <2>6, <3>2 DEF Applying, SameRow, On
    <3>6. Turns(b, e, {op}, {})
      BY <1>12, <3>4 DEF Turns, Outbox, Before
    <3>7. Agreeing(b, e, known)
      <4> DEFINE none == {}
      <4>1. QueueOps(e) \subseteq QueueOps(b) \cup none
        BY <1>12, <3>4 DEF QueueOps
      <4>2. \A y \in none : \A x \in known : Agrees(b, x) => x.id # y.id
        OBVIOUS
      <4>3. \A x \in known : Explained(b, x.id) => Explained(e, x.id)
        BY <1>15, <3>4
      <4> HIDE DEF none
      <4> QED BY <4>1, <4>2, <4>3, AgreesOn
    <3>8. c \in Confl(e, op.product) /\ \A p : Grown(b, e, p)
      BY <1>15, <2>6, <3>4 DEF On
    <3>9. Retains(b, e, op, C)
      BY <3>2, <3>3, <3>6, <3>8 DEF Retains, Gone
    <3> QED BY <1>2, <3>4, <3>5, <3>7, <3>8, <3>9
  <2>7. CASE ~buries
    <3>1. e = marked
      BY <1>5, <1>17, <2>7
    <3>2. e.queue = kept.queue /\ e.conflicts = b.conflicts \cup {c} /\ e.cursor = b.cursor
      BY <1>11, <2>3, <2>5, <3>1
    <3>3. Turns(b, e, {op}, {})
      BY <1>12, <3>2 DEF Turns, Outbox, Before
    <3>4. Agreeing(b, e, known)
      <4> DEFINE none == {}
      <4>1. QueueOps(e) \subseteq QueueOps(b) \cup none
        BY <1>12, <3>2 DEF QueueOps
      <4>2. \A y \in none : \A x \in known : Agrees(b, x) => x.id # y.id
        OBVIOUS
      <4>3. \A x \in known : Explained(b, x.id) => Explained(e, x.id)
        BY <1>15, <3>2
      <4> HIDE DEF none
      <4> QED BY <4>1, <4>2, <4>3, AgreesOn
    <3>5. (\A p : On(op, p) => c \in Confl(e, p)) /\ \A p : Grown(b, e, p)
      BY <1>15, <3>2
    <3>6. IsProductOp(op) => c.reason # "product_deleted" /\ c.resolution # "auto_merged"
      BY <1>3, <1>17, <2>7 DEF Told
    <3>7. IsProductOp(op) => Disputed(e, op.product)
      BY <3>5, <3>6 DEF Disputed, On
    <3>8. \A p \in Products : SameRow(b, e, p)
      BY <2>5, <3>1
    <3>9. Retains(b, e, op, C)
      BY <1>1, <3>3, <3>7, <3>8 DEF Retains, SameRow
    <3> QED BY <1>2, <3>2, <3>4, <3>5, <3>8, <3>9
  <2> QED BY <2>6, <2>7
<1> QED BY <1>16, <1>17

(* The lane of a product over one result; S are the changes that earlier    *)
(* ones wrote ahead of the cursor.                                         *)
LEMMA LaneSettles ==
    ASSUME NEW own, NEW known, NEW mine, NEW O, NEW C, NEW F, Grounds(own, known, mine, O, C, F),
           NEW op \in own, OpFits(op), NEW b, Local(b, own, known, F), Agrees(b, op),
           NEW r, ResultFits(op, r, F), Told(C, op, r),
           NEW page, PageOf(page, F), Settle(b, op, r, page) # None,
           NEW from \in Nat, NEW to \in Nat, DOMAIN page = from + 1 .. to, b.cursor \in Nat, b.cursor <= from,
           NEW S, \A m \in S : m \in DOMAIN F => F[m].op \in own,
           NEW p \in Products,
           r.applied /\ On(op, p) => \A m \in OfProduct(F, p) \cap S : r.seq < m =>
                \/ Saved(b, mine, C, F, p)
                \/ \E k \in OfProduct(F, p) : k > m /\ k \notin S \cup {r.seq},
           Lane(b, mine, O, C, F, p), AheadRepaired(b, mine, F, S, from, to, p)
    PROVE  LET h == Settle(b, op, r, page) IN
           /\ Lane(h, mine, O, C, F, p)
           /\ AheadRepaired(h, mine, F, IF r.applied THEN S \cup {r.seq} ELSE S, from, to, p)
           /\ Saved(b, mine, C, F, p) => Saved(h, mine, C, F, p)
<1> DEFINE h == Settle(b, op, r, page)
           none == {}
<1>1. /\ op.product \in Products /\ op \in known /\ op.base \in Nat
      /\ \A x \in Outbox(b) : IsProductOp(x)
      /\ OfProduct(F, p) \subseteq Nat
  <2>1. GoodQueue(b, own)
    BY DEF Local, Good
  <2>2. op.product \in Products /\ op \in known /\ op.base \in Nat
    BY DEF Grounds, World, Family, Operation
  <2> QED BY <2>1, <2>2, OutboxSays, VersionsRise
<1>2. QueueInv(b, mine, C, F, p) /\ RowInv(b, mine, O, C, F, p)
  BY DEF Lane
<1>3. Local(h, own, known, F) \/ ~Agreeing(b, h, known)
  <2>1. Good(h, own, known, Accepted(F))
    BY Settled DEF Grounds, Local
  <2> HIDE DEF h
  <2> QED BY <2>1, LocalKept
<1>4. none = {}
  OBVIOUS
<1>5. CASE r.applied
  <2>1. /\ F[r.seq].op = op
        /\ Turns(b, h, {op}, {}) /\ h.cursor = b.cursor /\ Agreeing(b, h, known)
        /\ Confl(h, p) = Confl(b, p)
        /\ IF On(op, p) /\ r.seq \in DOMAIN page THEN Shows(h, p, F[r.seq].image)
           ELSE SameRow(b, h, p)
    <3>1. /\ F[r.seq].op = op
          /\ Turns(b, h, {op}, {}) /\ h.cursor = b.cursor /\ Agreeing(b, h, known)
          /\ \A q \in Products :
                /\ Confl(h, q) = Confl(b, q)
                /\ IF On(op, q) /\ r.seq \in DOMAIN page THEN Shows(h, q, F[r.seq].image)
                   ELSE SameRow(b, h, q)
      BY <1>5, AcceptedSettles
    <3> HIDE DEF h
    <3> QED BY <3>1
  <2>2. r.seq \in DOMAIN F /\ r.seq \in Nat /\ op.id \in Accepted(F)
    BY <1>5, <2>1 DEF ResultFits, Accepted, Grounds, World, FeedOk
  <2>3. PICK gone : LaneTurns(b, h, p, gone, {}) /\ \A x \in gone : x.id \in Accepted(F)
    <3>1. CASE op.product = p
      <4> DEFINE g == {op}
      <4>1. Turns(b, h, g, none) /\ (\A x \in g \cup none : x.product = p)
            /\ (\A x \in g : x.id \in Accepted(F))
        BY <1>4, <2>1, <2>2, <3>1
      <4> HIDE DEF g, none, h
      <4>2. LaneTurns(b, h, p, g, none)
        BY <4>1, TurnsInLane
      <4> QED BY <1>4, <4>1, <4>2
    <3>2. CASE op.product # p
      <4> DEFINE g == {op}
      <4>1. Turns(b, h, g, none) /\ (\A x \in g \cup none : x.product # p)
        BY <1>4, <2>1, <3>2
      <4> HIDE DEF g, none, h
      <4>2. LaneTurns(b, h, p, {}, {})
        BY <4>1, TurnsInLane
      <4> QED BY <4>2
    <3> QED BY <3>1, <3>2
  <2>4. Grown(b, h, p)
    BY <2>1 DEF Grown, Disputed
  <2> HIDE DEF h
  <2>5. QueueInv(h, mine, C, F, p) /\ Open(h, F, p) = Open(b, F, p)
    BY <1>2, <2>3, <2>4, QueueAccepts
  <2>6. Excused(b, mine, F, p) => Excused(h, mine, F, p)
    BY <2>4, ExcusedStays
  <2>7. Saved(b, mine, C, F, p) => Saved(h, mine, C, F, p)
    BY <2>1, <2>5, <2>6 DEF Saved
  <2>8. CASE ~(On(op, p) /\ r.seq \in DOMAIN page)
    <3>1. Lane(h, mine, O, C, F, p) /\ AheadKept(b, mine, F, h, mine, F, p)
      BY <2>1, <2>3, <2>4, <2>8, LaneAccepts
    <3>2. AheadRepaired(h, mine, F, S, from, to, p)
      BY <3>1 DEF AheadKept
    <3>3. r.seq \notin OfProduct(F, p) \/ r.seq \notin from + 1 .. to
      BY <2>1, <2>8 DEF OfProduct
    <3>4. AheadRepaired(h, mine, F, S \cup {r.seq}, from, to, p)
      BY <1>1, <2>2, <3>2, <3>3, AheadOfOther
    <3> QED BY <1>5, <2>7, <3>1, <3>4 DEF h
  <2>9. CASE On(op, p) /\ r.seq \in DOMAIN page
    <3>1. r.seq \in OfProduct(F, p) /\ r.seq > b.cursor /\ Shows(h, p, F[r.seq].image)
      BY <2>1, <2>2, <2>9 DEF OfProduct
    <3>2. ASSUME NEW m \in OfProduct(F, p) \cap S, r.seq < m
          PROVE  \/ Excused(h, mine, F, p)
                 \/ Open(h, F, p) # {}
                 \/ \E k \in OfProduct(F, p) : k > m /\ k \notin S \cup {r.seq}
      <4>1. SUFFICES ASSUME Confl(h, p) # {}, Deleted(C, p)
                     PROVE  \/ Excused(h, mine, F, p)
                            \/ \E k \in OfProduct(F, p) : k > m /\ k \notin S \cup {r.seq}
        BY <1>5, <2>7, <2>9, <3>2 DEF Saved
      <4>2. PICK l \in OfProduct(F, p) : C[p] = F[l].image /\ \A k \in OfProduct(F, p) : k <= l
        BY <3>1, VersionsRise
      <4>3. F[l].op.kind = "delete" /\ F[l].op \in known /\ l \in DOMAIN F /\ m \in DOMAIN F
        BY <4>1, <4>2, VersionsRise DEF Deleted
      <4>4. CASE F[l].op.id[1] \in mine
        BY <4>1, <4>3, <4>4 DEF Excused, Outrun
      <4>5. CASE F[l].op.id[1] \notin mine
        <5>1. F[l].op \notin own
          BY <4>3, <4>5 DEF Grounds
        <5>2. l \notin S \cup {r.seq}
          BY <2>1, <4>3, <5>1
        <5>3. m <= l /\ m # l /\ m \in Nat /\ l \in Nat
          BY <1>1, <4>2, <5>2
        <5> QED BY <5>2, <5>3
      <4> QED BY <4>4, <4>5
    <3>3. RowInv(h, mine, O, C, F, p) /\ AheadRepaired(h, mine, F, S \cup {r.seq}, from, to, p)
      <4> DEFINE s == r.seq
      <4>1. /\ s \in OfProduct(F, p) /\ s > b.cursor /\ Shows(h, p, F[s].image) /\ h.cursor = b.cursor
            /\ \A m \in OfProduct(F, p) \cap S : s < m =>
                  \/ Excused(h, mine, F, p)
                  \/ Open(h, F, p) # {}
                  \/ \E k \in OfProduct(F, p) : k > m /\ k \notin S \cup {s}
        BY <2>1, <3>1, <3>2
      <4> HIDE DEF s
      <4>2. /\ RowInv(b, mine, O, C, F, p) => RowInv(h, mine, O, C, F, p)
            /\  (\A m \in OfProduct(F, p) \cap S : from < m /\ m <= to /\ s < m =>
                    \/ Excused(h, mine, F, p)
                    \/ Open(h, F, p) # {}
                    \/ \E k \in OfProduct(F, p) : k > m /\ (k > to \/ k \notin S \cup {s}))
                => AheadRepaired(h, mine, F, S \cup {s}, from, to, p)
        BY <4>1, RowCanonical
      <4>3. AheadRepaired(h, mine, F, S \cup {s}, from, to, p)
        BY <4>1, <4>2
      <4> QED BY <1>2, <4>2, <4>3 DEF s
    <3> QED BY <1>5, <2>5, <2>7, <3>3 DEF h, Lane
  <2> QED BY <2>8, <2>9
<1>6. CASE ~r.applied
  <2>1. /\ h.cursor = b.cursor /\ Agreeing(b, h, known)
        /\ Grown(b, h, p) /\ (~On(op, p) => SameRow(b, h, p))
        /\ (IsProductOp(op) /\ \E next : Merges(b, h, op, next, C, F)) \/ Retains(b, h, op, C)
    BY <1>6, RejectedSettles
  <2>2. Local(h, own, known, F)
    BY <1>3, <2>1
  <2> HIDE DEF h
  <2>3. Excused(b, mine, F, p) => Excused(h, mine, F, p)
    BY <2>1, ExcusedStays
  <2>4. CASE ~On(op, p)
    <3>1. LaneTurns(b, h, p, {}, {})
      <4>1. CASE IsProductOp(op)
        <5>1. op.product # p
          BY <2>4, <4>1 DEF On
        <5>2. PICK new : Turns(b, h, {op}, new) /\ \A x \in new : x.product # p
          <6>1. CASE \E next : Merges(b, h, op, next, C, F)
            <7>1. PICK next : Merges(b, h, op, next, C, F)
              BY <6>1
            <7> DEFINE new == {next}
            <7>2. Turns(b, h, {op}, new) /\ \A x \in new : x.product # p
              BY <5>1, <7>1 DEF Merges, On
            <7> QED BY <7>2
          <6>2. CASE Retains(b, h, op, C)
            <7>1. Turns(b, h, {op}, none) /\ \A x \in none : x.product # p
              BY <6>2 DEF Retains
            <7> QED BY <7>1
          <6> QED BY <2>1, <6>1, <6>2
        <5> DEFINE g == {op}
        <5>3. Turns(b, h, g, new) /\ \A x \in g \cup new : x.product # p
          BY <5>1, <5>2
        <5> HIDE DEF g
        <5> QED BY <5>3, TurnsInLane
      <4>2. CASE ~IsProductOp(op)
        <5>1. Turns(b, h, {op}, {}) /\ op \notin Outbox(b)
          BY <1>1, <2>1, <4>2 DEF Retains
        <5>2. Turns(b, h, {}, {})
          BY <5>1 DEF Turns
        <5> QED BY <5>2, TurnsInLane
      <4> QED BY <4>1, <4>2
    <3>2. LaneTurns(b, h, p, none, {}) /\ \A x \in none : x.id \in Accepted(F)
      BY <3>1
    <3> HIDE DEF none
    <3>3. /\ Lane(h, mine, O, C, F, p) /\ AheadKept(b, mine, F, h, mine, F, p)
          /\ Saved(b, mine, C, F, p) => Saved(h, mine, C, F, p)
      BY <1>2, <2>1, <2>4, <3>2, LaneAccepts
    <3>4. AheadRepaired(h, mine, F, S, from, to, p)
      BY <3>3 DEF AheadKept
    <3> QED BY <1>6, <3>3, <3>4 DEF h
  <2>5. CASE On(op, p)
    <3>1. IsProductOp(op) /\ op.product = p
      BY <2>5 DEF On
    <3>2. SUFFICES /\ QueueInv(h, mine, C, F, p) /\ Saved(h, mine, C, F, p)
                   /\ RowInv(h, mine, O, C, F, p) /\ AheadKept(b, mine, F, h, mine, F, p)
      BY <1>6 DEF h, Lane, AheadKept
    <3>3. CASE \E next : Merges(b, h, op, next, C, F)
      <4>1. PICK next : Merges(b, h, op, next, C, F)
        BY <3>3
      <4> DEFINE gone == {op}  new == {next}
      <4>2. /\ Turns(b, h, gone, new) /\ \A x \in gone \cup new : x.product = p
            /\ Upsert(next) /\ next.id \notin Accepted(F)
            /\ next.base \in Nat /\ op.base < next.base /\ next.base <= Version(C, p)
            /\ Confl(h, p) # {}
            /\ h.rows[p] # None /\ ~h.rows[p].deleted
            /\ h.rows[p].version = next.base + 1
            /\ h.rows[p].fields = next.fields
        BY <3>1, <4>1 DEF Merges, On
      <4>3. LaneTurns(b, h, p, {op}, {next})
        <5> HIDE DEF gone, new
        <5>1. LaneTurns(b, h, p, gone, new)
          BY <4>2, TurnsInLane
        <5> QED BY <5>1 DEF gone, new
      <4>4. QueueInv(h, mine, C, F, p) /\ next \in Open(h, F, p)
        BY <1>1, <1>2, <2>1, <4>2, <4>3, QueueMerges
      <4>5. Predicted(h, p, h.rows[p]) /\ Open(h, F, p) # {}
        BY <4>2, <4>4 DEF Predicted, Open
      <4>6. RowInv(h, mine, O, C, F, p) /\ AheadKept(b, mine, F, h, mine, F, p)
        BY <1>2, <2>1, <4>2, <4>5, RowPredicted
      <4> QED BY <4>4, <4>5, <4>6 DEF Saved
    <3>4. CASE Retains(b, h, op, C) /\ Disputed(h, p)
      <4>1. Excused(h, mine, F, p) /\ (b.rows[p] # None => h.rows[p] # None)
        BY <3>1, <3>4 DEF Excused, Retains
      <4>2. QueueInv(h, mine, C, F, p)
        BY <4>1, QueueDisputes
      <4>3. RowInv(h, mine, O, C, F, p) /\ AheadKept(b, mine, F, h, mine, F, p)
        BY <1>2, <2>1, <4>1, RowDisputed
      <4> QED BY <4>1, <4>2, <4>3 DEF Saved
    <3>5. CASE Confl(h, p) # {} /\ Deleted(C, p) /\ Gone(h, p)
      <4>1. QueueInv(h, mine, C, F, p)
        BY <2>2, <3>5, QueueEnds
      <4>2. RowInv(h, mine, O, C, F, p) /\ AheadKept(b, mine, F, h, mine, F, p)
        BY <1>2, <2>1, <3>5, RowBuried DEF Gone
      <4> QED BY <3>5, <4>1, <4>2 DEF Saved
    <3> QED BY <2>1, <3>1, <3>3, <3>4, <3>5 DEF Retains
  <2> QED BY <2>4, <2>5
<1> QED BY <1>5, <1>6

(* The changes that the first n results say their operations made.          *)
WrittenBy(results, n) == {results[k].seq : k \in {j \in 1..n : results[j].applied}}

(* Two results of a response in the other order than they were made leave   *)
(* something to come.                                                      *)
LEMMA InvertedSaved ==
    ASSUME NEW own, NEW known, NEW mine, NEW O, NEW C, NEW F, Grounds(own, known, mine, O, C, F),
           NEW ops, NEW N \in Nat, DOMAIN ops = 1..N, NEW results,
           \A n \in 1..N : ops[n] \in own /\ ResultFits(ops[n], results[n], F),
           NEW b, Local(b, own, known, F), ClaimsQueued(b, ops), \A n \in 1..N : Agrees(b, ops[n]),
           NEW p \in Products, Inverted(b, mine, F, p),
           NEW n \in 1..N, results[n].applied, On(ops[n], p),
           NEW m \in OfProduct(F, p) \cap WrittenBy(results, n - 1), results[n].seq < m
    PROVE  \/ Saved(b, mine, C, F, p)
           \/ \E k \in OfProduct(F, p) :
                k > m /\ k \notin WrittenBy(results, n - 1) \cup {results[n].seq}
<1>1. ASSUME NEW i \in 1..N, results[i].applied, results[i].seq \in OfProduct(F, p)
      PROVE  F[results[i].seq].op = ops[i] /\ ops[i] \in Pend(b, p) /\ IsProductOp(ops[i])
  <2> DEFINE s == results[i].seq
  <2>1. s \in DOMAIN F /\ F[s].op.id = ops[i].id /\ On(F[s].op, p) /\ ops[i] \in own
    BY <1>1 DEF ResultFits, OfProduct
  <2>2. ops[i] \in known /\ F[s].op \in known
    BY <2>1 DEF Grounds, World, Family, FeedOk
  <2>3. On(ops[i], p)
    BY <2>1, <2>2 DEF Grounds, World, Family, Alike, On
  <2>4. ops[i] \in Outbox(b)
    BY <2>3 DEF ClaimsQueued, On
  <2>5. ops[i].id \in QueuedIds(b)
    BY <2>4 DEF Outbox, QueuedIds
  <2>6. F[s].op = ops[i]
    BY <2>1, <2>5, AcceptedAsSent
  <2> QED BY <2>3, <2>4, <2>6 DEF Pend, On
<1> DEFINE s == results[n].seq
<1>2. s \in DOMAIN F /\ F[s].op.id = ops[n].id /\ ops[n].id \in QueuedIds(b)
  <2>1. ops[n] \in Outbox(b)
    BY DEF ClaimsQueued, On
  <2> QED BY <2>1 DEF Outbox, QueuedIds, ResultFits
<1>3. s \in OfProduct(F, p) /\ F[s].op = ops[n] /\ ops[n] \in Pend(b, p)
  <2>1. F[s].op = ops[n]
    BY <1>2, AcceptedAsSent
  <2>2. s \in OfProduct(F, p)
    BY <1>2, <2>1 DEF OfProduct
  <2> QED BY <1>1, <2>1, <2>2
<1>4. PICK i \in 1..(n - 1) : results[i].applied /\ results[i].seq = m
  BY DEF WrittenBy
<1>5. i \in 1..N /\ i < n
  BY <1>4
<1>6. F[m].op = ops[i] /\ ops[i] \in Pend(b, p) /\ IsProductOp(ops[i])
  BY <1>1, <1>4, <1>5
<1>7. Before(b, ops[i], ops[n])
  BY <1>5, <1>6 DEF ClaimsQueued, On
<1>8. \/ Excused(b, mine, F, p)
      \/ Open(b, F, p) # {}
      \/ \E k \in OfProduct(F, p) :
            k > m /\ F[k].op # ops[n] /\ ~(F[k].op \in Pend(b, p) /\ Before(b, F[k].op, ops[n]))
  BY <1>3, <1>6, <1>7 DEF Inverted
<1>9. ASSUME NEW k \in OfProduct(F, p), F[k].op # ops[n],
             ~(F[k].op \in Pend(b, p) /\ Before(b, F[k].op, ops[n]))
      PROVE  k \notin WrittenBy(results, n - 1) \cup {s}
  <2>1. k # s
    BY <1>3, <1>9
  <2>2. ASSUME k \in WrittenBy(results, n - 1) PROVE FALSE
    <3>1. PICK j \in 1..(n - 1) : results[j].applied /\ results[j].seq = k
      BY <2>2 DEF WrittenBy
    <3>2. j \in 1..N /\ j < n
      BY <3>1
    <3>3. F[k].op = ops[j] /\ ops[j] \in Pend(b, p) /\ IsProductOp(ops[j])
      BY <1>1, <3>1, <3>2
    <3>4. Before(b, ops[j], ops[n])
      BY <3>2, <3>3 DEF ClaimsQueued, On
    <3> QED BY <1>9, <3>3, <3>4
  <2> QED BY <2>1, <2>2
<1> QED BY <1>8, <1>9 DEF Saved

(* Any result keeps to what is given. *)
LEMMA SettleKeeps ==
    ASSUME NEW own, NEW known, NEW mine, NEW O, NEW C, NEW F, Grounds(own, known, mine, O, C, F),
           NEW op \in own, OpFits(op), NEW b, Local(b, own, known, F), Agrees(b, op),
           NEW r, ResultFits(op, r, F), Told(C, op, r),
           NEW page, PageOf(page, F), Settle(b, op, r, page) # None
    PROVE  LET h == Settle(b, op, r, page) IN
           h.cursor = b.cursor /\ Agreeing(b, h, known) /\ Local(h, own, known, F)
<1> DEFINE h == Settle(b, op, r, page)
<1>1. h.cursor = b.cursor /\ Agreeing(b, h, known)
  <2>1. CASE r.applied
    <3>1. /\ F[r.seq].op = op
          /\ Turns(b, h, {op}, {}) /\ h.cursor = b.cursor /\ Agreeing(b, h, known)
          /\ \A q \in Products :
                /\ Confl(h, q) = Confl(b, q)
                /\ IF On(op, q) /\ r.seq \in DOMAIN page THEN Shows(h, q, F[r.seq].image)
                   ELSE SameRow(b, h, q)
      BY <2>1, AcceptedSettles
    <3> QED BY <3>1
  <2>2. CASE ~r.applied
    <3>1. /\ h.cursor = b.cursor /\ Agreeing(b, h, known)
          /\ \A p \in Products :
                /\ Grown(b, h, p)
                /\ ~On(op, p) => SameRow(b, h, p)
          /\ (IsProductOp(op) /\ \E next : Merges(b, h, op, next, C, F)) \/ Retains(b, h, op, C)
      BY <2>2, RejectedSettles
    <3> QED BY <3>1
  <2> QED BY <2>1, <2>2
<1>2. Good(h, own, known, Accepted(F))
  BY Settled DEF Grounds, Local
<1> HIDE DEF h
<1>3. Local(h, own, known, F)
  BY <1>1, <1>2, LocalKept
<1> QED BY <1>1, <1>3 DEF h

(* All results of a response. *)
LEMMA BatchLanes ==
    ASSUME NEW own, NEW known, NEW mine, NEW O, NEW C, NEW F, Grounds(own, known, mine, O, C, F),
           NEW ops, NEW N \in Nat, DOMAIN ops = 1..N, NEW results,
           \A n \in 1..N : ops[n] \in own /\ OpFits(ops[n]) /\ ResultFits(ops[n], results[n], F)
                           /\ Told(C, ops[n], results[n]),
           NEW page, PageOf(page, F),
           NEW from \in Nat, NEW to \in Nat, DOMAIN page = from + 1 .. to,
           NEW b, Local(b, own, known, F), b.cursor \in Nat, b.cursor <= from,
           ClaimsQueued(b, ops), \A n \in 1..N : Agrees(b, ops[n]),
           \A p \in Products : Lane(b, mine, O, C, F, p),
           Reconcile(b, ops, results, page) # None
    PROVE  LET h == Reconcile(b, ops, results, page) IN
           /\ Local(h, own, known, F) /\ Agreeing(b, h, known) /\ h.cursor = b.cursor
           /\ \A p \in Products :
                /\ Lane(h, mine, O, C, F, p)
                /\ AheadRepaired(h, mine, F, WrittenBy(results, N), from, to, p)
<1> DEFINE U == {x \in Database \cup {None} : x # None => Good(x, own, known, Accepted(F))}
<1>1. \A x \in U : x # None => Good(x, own, known, Accepted(F))
  OBVIOUS
<1>2. \A x : Good(x, own, known, Accepted(F)) => x \in U
  BY DEF Good
<1>3. None \in U /\ b \in U
  BY <1>2 DEF Local
<1> HIDE DEF U
<1>4. ASSUME NEW n \in 1..N, NEW x \in U, Settle(x, ops[n], results[n], page) # None
      PROVE  LET y == Settle(x, ops[n], results[n], page) IN
             x # None /\ y \in U /\ Good(y, own, known, Accepted(F))
  <2>1. x # None
    BY <1>4 DEF Settle
  <2>2. Good(x, own, known, Accepted(F))
    BY <1>1, <2>1
  <2> DEFINE y == Settle(x, ops[n], results[n], page)
  <2>3. Good(y, own, known, Accepted(F))
    BY <1>4, <2>2, Settled DEF Grounds
  <2> QED BY <1>2, <2>1, <2>3
<1>5. SettlesWithin(U, N, ops, results, page)
  BY <1>3, <1>4 DEF SettlesWithin
<1>6. PICK R :
         /\ R \in [0..N -> U]
         /\ R[0] = b
         /\ \A n \in 1..N : R[n] = Settle(R[n - 1], ops[n], results[n], page)
         /\ Reconcile(b, ops, results, page) = R[N]
  <2>1. PICK R : IsReconciliation(R, U, N, b, ops, results, page)
    BY <1>3, <1>5, ReconcileRuns
  <2> QED BY <2>1 DEF IsReconciliation
<1> DEFINE Lanes(x, n) == \A p \in Products :
               /\ Lane(x, mine, O, C, F, p)
               /\ AheadRepaired(x, mine, F, WrittenBy(results, n), from, to, p)
               /\ Saved(b, mine, C, F, p) => Saved(x, mine, C, F, p)
           Fine(x, n) == x # None =>
               /\ Local(x, own, known, F) /\ Agreeing(b, x, known) /\ x.cursor = b.cursor
               /\ Lanes(x, n)
           P == {n \in 0..N : Fine(R[n], n)}
<1>7. 0 \in P
  <2>1. WrittenBy(results, 0) = {}
    BY DEF WrittenBy
  <2>2. Agreeing(b, b, known)
    BY DEF Agreeing
  <2>3. \A p : AheadRepaired(b, mine, F, {}, from, to, p)
    BY DEF AheadRepaired
  <2>4. Lanes(b, 0)
    BY <2>1, <2>3
  <2> HIDE DEF Lanes
  <2>5. Fine(b, 0)
    BY <2>2, <2>4
  <2> HIDE DEF Fine
  <2> QED BY <1>6, <2>5
<1>8. ASSUME NEW n \in 1..N, n - 1 \in P PROVE n \in P
  <2> DEFINE x == R[n - 1]  y == R[n]  op == ops[n]  r == results[n]  S == WrittenBy(results, n - 1)
  <2>1. n - 1 \in 0..N /\ n \in 0..N /\ x \in U /\ Fine(x, n - 1)
    BY <1>6, <1>8
  <2>2. SUFFICES ASSUME y # None PROVE Fine(y, n)
    BY <2>1
  <2>3. y = Settle(x, op, r, page)
    BY <1>6
  <2>4. x # None /\ Good(y, own, known, Accepted(F))
    BY <1>4, <2>1, <2>2, <2>3
  <2>5. Local(x, own, known, F) /\ Agreeing(b, x, known) /\ x.cursor = b.cursor /\ Lanes(x, n - 1)
    BY <2>1, <2>4
  <2>6. op \in own /\ OpFits(op) /\ ResultFits(op, r, F) /\ Told(C, op, r) /\ op \in known
    BY DEF Grounds, World, Family
  <2>7. Agrees(x, op)
    BY <2>5, <2>6 DEF Agreeing
  <2>8. WrittenBy(results, n) = IF r.applied THEN S \cup {r.seq} ELSE S
    BY DEF WrittenBy
  <2>9. \A m \in S : m \in DOMAIN F => F[m].op \in own
    <3>1. SUFFICES ASSUME NEW i \in 1..(n - 1), results[i].applied PROVE F[results[i].seq].op \in own
      BY DEF WrittenBy
    <3>2. i \in 1..N
      OBVIOUS
    <3>3. ops[i] \in own /\ results[i].seq \in DOMAIN F /\ F[results[i].seq].op.id = ops[i].id
      BY <3>1, <3>2 DEF ResultFits
    <3>4. ops[i] \in known /\ F[results[i].seq].op \in known
      BY <3>3 DEF Grounds, World, Family, FeedOk
    <3> QED BY <3>3, <3>4 DEF Grounds
  <2>10. ASSUME NEW p \in Products
         PROVE  r.applied /\ On(op, p) => \A m \in OfProduct(F, p) \cap S : r.seq < m =>
                    \/ Saved(x, mine, C, F, p)
                    \/ \E k \in OfProduct(F, p) : k > m /\ k \notin S \cup {r.seq}
    <3>1. Inverted(b, mine, F, p)
      BY DEF Lane, QueueInv
    <3>2. Saved(b, mine, C, F, p) => Saved(x, mine, C, F, p)
      BY <2>5
    <3>3. ASSUME r.applied, On(op, p), NEW m \in OfProduct(F, p) \cap S, r.seq < m
          PROVE  \/ Saved(b, mine, C, F, p)
                 \/ \E k \in OfProduct(F, p) : k > m /\ k \notin S \cup {r.seq}
      BY <3>1, <3>3, InvertedSaved
    <3> QED BY <3>2, <3>3
  <2>11. Agreeing(x, y, known) /\ y.cursor = x.cursor /\ Local(y, own, known, F)
    <3>1. Settle(x, op, r, page) # None
      BY <2>2, <2>3
    <3> HIDE DEF x, op, r, y, Lanes
    <3>2. LET g == Settle(x, op, r, page) IN
          g.cursor = x.cursor /\ Agreeing(x, g, known) /\ Local(g, own, known, F)
      BY <2>5, <2>6, <2>7, <3>1, SettleKeeps
    <3> QED BY <2>3, <3>2
  <2>12. ASSUME NEW p \in Products
         PROVE  /\ Lane(y, mine, O, C, F, p)
                /\ AheadRepaired(y, mine, F, WrittenBy(results, n), from, to, p)
                /\ Saved(x, mine, C, F, p) => Saved(y, mine, C, F, p)
    <3>1. Lane(x, mine, O, C, F, p) /\ AheadRepaired(x, mine, F, S, from, to, p)
      BY <2>5
    <3>2. x.cursor \in Nat /\ x.cursor <= from /\ Settle(x, op, r, page) # None
      BY <2>2, <2>3, <2>5
    <3>3. r.applied /\ On(op, p) => \A m \in OfProduct(F, p) \cap S : r.seq < m =>
                    \/ Saved(x, mine, C, F, p)
                    \/ \E k \in OfProduct(F, p) : k > m /\ k \notin S \cup {r.seq}
      BY <2>10
    <3>4. Local(x, own, known, F)
      BY <2>5
    <3> HIDE DEF x, op, r, S, y
    <3>5. LET g == Settle(x, op, r, page) IN
          /\ Lane(g, mine, O, C, F, p)
          /\ AheadRepaired(g, mine, F, IF r.applied THEN S \cup {r.seq} ELSE S, from, to, p)
          /\ Saved(x, mine, C, F, p) => Saved(g, mine, C, F, p)
      BY <2>6, <2>7, <2>9, <3>1, <3>2, <3>3, <3>4, LaneSettles
    <3> QED BY <2>3, <2>8, <3>5
  <2>14. Agreeing(b, y, known)
    <3> HIDE DEF x, y
    <3> QED BY <2>5, <2>11, AgreeingOn
  <2>15. Lanes(y, n)
    <3> HIDE DEF x, y
    <3> QED BY <2>5, <2>12
  <2> HIDE DEF Lanes, y
  <2> QED BY <2>5, <2>11, <2>14, <2>15
<1>9. 0..N \subseteq P
  <2> HIDE DEF P
  <2> QED BY <1>7, <1>8, RunInduction
<1>10. Fine(R[N], N)
  <2>1. N \in 0..N
    OBVIOUS
  <2> HIDE DEF Fine
  <2> QED BY <1>9, <2>1
<1> QED BY <1>6, <1>10
-----------------------------------------------------------------------------
(* THE CHANGES OF A PAGE                                                    *)

(* Those of products, and the movements. *)
ProductsOf(b, changes, fresh) == ApplyKind(b, changes, fresh, TRUE)
MovementsOf(b, changes, fresh) == ApplyKind(b, changes, fresh, FALSE)

(* A movement of the page is nothing to the products. *)
LEMMA MoveQuiet ==
    ASSUME NEW own, NEW known, NEW F, World(own, known, F), NEW b, Good(b, own, known, Accepted(F)),
           NEW s \in DOMAIN F, ~IsProductOp(F[s].op), ApplyMove(b, F[s]) # None
    PROVE  LET h == ApplyMove(b, F[s]) IN Quiet(b, h, known) /\ h.rows = b.rows
<1> DEFINE c == F[s]
           h == ApplyMove(b, c)
           g == Displace(b, c.displaced)
<1>1. Displaceable(c.displaced, F) /\ b \in Database
  BY DEF World, FeedOk, Displaceable, Good
<1>2. g.rows = b.rows
  BY <1>1 DEF Displace, Database
<1>3. h = InsertRemote(b, c) \/ h = g
  BY DEF ApplyMove
<1>4. h.rows = b.rows /\ h.queue = g.queue /\ h.conflicts = g.conflicts /\ h.cursor = g.cursor
  <2>1. CASE h = g
    <3> HIDE DEF h, g
    <3> QED BY <1>2, <2>1
  <2>2. CASE h = InsertRemote(b, c)
    <3> HIDE DEF h, c
    <3> QED BY <1>1, <2>2 DEF InsertRemote, WithMove, Displace, Database
  <2> QED BY <1>3, <2>1, <2>2
<1>5. Quiet(b, g, known)
  BY <1>1, DisplaceQuiet
<1> HIDE DEF h, g
<1>6. Quiet(g, h, known)
  BY <1>2, <1>4, RowsQuiet DEF SameRow
<1> QED BY <1>4, <1>5, <1>6, QuietOn DEF h

(* Nor are all of them. *)
LEMMA MovesQuiet ==
    ASSUME NEW own, NEW known, NEW F, World(own, known, F), NEW N \in Nat, NEW from \in Nat,
           NEW changes, ChangesAfter(changes, from, N, F), NEW fresh,
           NEW b, Good(b, own, known, Accepted(F)), MovementsOf(b, changes, fresh) # None
    PROVE  LET h == MovementsOf(b, changes, fresh) IN Quiet(b, h, known) /\ h.rows = b.rows
<1> DEFINE kept(x) == Good(x, own, known, Accepted(F)) /\ Quiet(b, x, known) /\ x.rows = b.rows
           no == FALSE
           U == {x \in Database \cup {None} : x # None => kept(x)} \cup {b}
<1>1. kept(b)
  BY RowsQuiet DEF SameRow
<1>2. \A x \in U : x # None => kept(x)
  BY <1>1
<1>3. \A x : kept(x) => x \in U
  BY DEF Good
<1>4. None \in U /\ b \in U /\ no \in BOOLEAN
  OBVIOUS
<1> HIDE DEF U, kept
<1>5. ASSUME NEW n \in 1..N, NEW x \in U PROVE StepOf(x, n, changes, fresh, no) \in U
  <2> DEFINE y == StepOf(x, n, changes, fresh, no)
  <2>1. from + n \in DOMAIN F /\ changes[n] = F[from + n]
    BY DEF ChangesAfter
  <2>2. CASE y = x \/ y = None
    BY <1>4, <2>2
  <2>3. CASE y # x /\ y # None
    <3> DEFINE s == from + n
    <3>1. y = ApplyChange(x, F[s]) /\ ~IsProductOp(F[s].op)
      BY <2>1, <2>3 DEF StepOf
    <3>2. x # None /\ y = ApplyMove(x, F[s])
      BY <2>3, <3>1 DEF ApplyChange
    <3>3. kept(x)
      BY <1>2, <3>2
    <3> HIDE DEF y, s
    <3>4. Good(y, own, known, Accepted(F)) /\ Quiet(x, y, known) /\ y.rows = x.rows
      BY <2>1, <2>3, <3>1, <3>2, <3>3, MoveApplied, MoveQuiet DEF s, kept
    <3>5. kept(y)
      BY <3>3, <3>4, QuietOn DEF kept
    <3> QED BY <1>3, <3>5 DEF y
  <2> QED BY <2>2, <2>3
<1>6. AppliesWithin(U, N, changes, fresh, no)
  BY <1>5 DEF AppliesWithin
<1>7. DOMAIN changes = 1..N
  BY DEF ChangesAfter
<1>8. ApplyKind(b, changes, fresh, no) \in U
  <2> HIDE DEF no
  <2>1. PICK R : IsApplication(R, U, N, b, changes, fresh, no)
    BY <1>4, <1>6, <1>7, ApplyKindRuns
  <2>2. N \in 0..N
    OBVIOUS
  <2> QED BY <2>1, <2>2 DEF IsApplication
<1> QED BY <1>2, <1>8 DEF kept, MovementsOf

(* The changes of page from+1..from+N that were not written before. *)
Unwritten(fresh, S, from, N) == fresh = {n \in 1..N : from + n \notin S}

(* The changes of products, one after the other. *)
LEMMA ProductsAdvance ==
    ASSUME NEW own, NEW known, NEW mine, NEW O, NEW C, NEW F, Grounds(own, known, mine, O, C, F),
           NEW N \in Nat, NEW from \in Nat, NEW changes, ChangesAfter(changes, from, N, F),
           NEW S, NEW fresh, Unwritten(fresh, S, from, N),
           NEW b, Good(b, own, known, Accepted(F)), b.cursor = from,
           \A p \in Products : RowInv(b, mine, O, C, F, p) /\ AheadRepaired(b, mine, F, S, from, from + N, p),
           ProductsOf(b, changes, fresh) # None
    PROVE  LET h == ProductsOf(b, changes, fresh) IN
           /\ Good(h, own, known, Accepted(F))
           /\ h.queue = b.queue /\ h.conflicts = b.conflicts /\ h.cursor = b.cursor
           /\ \A p \in Products : Advancing(h, mine, O, C, F, S, from, N, from + N, p)
<1> DEFINE to == from + N
           yes == TRUE
           U == {x \in Database \cup {None} : x # None => Good(x, own, known, Accepted(F))}
           Lanes(x, n) == \A p \in Products : Advancing(x, mine, O, C, F, S, from, n, to, p)
           Fine(x, n) == x # None =>
               /\ x.queue = b.queue /\ x.conflicts = b.conflicts /\ x.cursor = b.cursor
               /\ Lanes(x, n)
<1>1. \A x \in U : x # None => Good(x, own, known, Accepted(F)) /\ x \in Database
  BY DEF Good
<1>2. \A x : Good(x, own, known, Accepted(F)) => x \in U
  BY DEF Good
<1>3. None \in U /\ b \in U /\ yes \in BOOLEAN /\ b \in Database
  BY <1>2 DEF Good
<1>4. to \in Nat /\ b.cursor <= to /\ World(own, known, F)
  BY DEF Grounds
<1> HIDE DEF U
<1>5. ASSUME NEW n \in 1..N, NEW x \in U
      PROVE  /\ StepOf(x, n, changes, fresh, yes) \in U
             /\ n - 1 \in 0..N /\ Fine(x, n - 1) => Fine(StepOf(x, n, changes, fresh, yes), n)
  <2> DEFINE y == StepOf(x, n, changes, fresh, yes)
             s == from + n
  <2>1. s \in DOMAIN F /\ changes[n] = F[s] /\ s <= to /\ s \in Nat /\ n \in Nat \ {0}
    BY DEF ChangesAfter
  <2>2. n \in fresh <=> s \notin S
    BY DEF Unwritten
  <2>3. /\ F[s].op.product \in Products
        /\ IsProductOp(F[s].op) => F[s].image \in Image
    BY <1>4, <2>1 DEF World, FeedOk, Family, Operation
  <2>4. y = IF n \in fresh /\ IsProductOp(F[s].op) THEN ApplyChange(x, F[s]) ELSE x
    BY <2>1 DEF StepOf
  <2>5. CASE ~(n \in fresh /\ IsProductOp(F[s].op))
    <3>1. y = x
      BY <2>4, <2>5
    <3>2. ASSUME x # None, Fine(x, n - 1), NEW p \in Products
          PROVE  Advancing(x, mine, O, C, F, S, from, n, to, p)
      <4>1. Advancing(x, mine, O, C, F, S, from, n - 1, to, p) /\ x \in Database
        BY <1>1, <3>2
      <4>2. s \in OfProduct(F, p) => s \in S
        BY <2>2, <2>5 DEF OfProduct, On
      <4> HIDE DEF to
      <4> QED BY <1>4, <2>1, <4>1, <4>2, AdvanceSteps
    <3> HIDE DEF y
    <3>3. Fine(x, n - 1) => Fine(y, n)
      BY <3>1, <3>2
    <3> HIDE DEF Fine
    <3> QED BY <3>1, <3>3 DEF y
  <2>6. CASE n \in fresh /\ IsProductOp(F[s].op)
    <3> DEFINE q == F[s].op.product  image == F[s].image
    <3>1. y = ApplyChange(x, F[s])
      BY <2>4, <2>6
    <3>2. x = None => y = None
      BY <3>1 DEF ApplyChange
    <3>3. x # None => y = ApplyProduct(x, q, image)
      BY <2>6, <3>1 DEF ApplyChange
    <3>4. CASE y = None
      BY <1>3, <3>4
    <3>5. CASE y # None
      <4>1. x # None /\ Good(x, own, known, Accepted(F)) /\ x \in Database
        BY <1>1, <3>2, <3>5
      <4>2. Good(y, own, known, Accepted(F))
        <5> HIDE DEF y, s
        <5> QED BY <1>4, <2>1, <3>1, <3>5, <4>1, ChangeApplied
      <4>3. Applying(x, y, q, image)
        <5> DEFINE z == ApplyProduct(x, q, image)
        <5>1. z # None /\ image \in Image /\ q \in Products
          BY <2>3, <2>6, <3>3, <3>5, <4>1
        <5> HIDE DEF q, image, y
        <5>2. Applying(x, ApplyProduct(x, q, image), q, image)
          BY <4>1, <5>1, ProductApplies
        <5> QED BY <3>3, <4>1, <5>2
      <4> HIDE DEF y
      <4>4. y.queue = x.queue /\ y.conflicts = x.conflicts /\ y.cursor = x.cursor
        BY <4>3 DEF Applying
      <4>5. ASSUME Fine(x, n - 1), NEW p \in Products
            PROVE  Advancing(y, mine, O, C, F, S, from, n, to, p)
        <5>1. Advancing(x, mine, O, C, F, S, from, n - 1, to, p)
          BY <4>1, <4>5
        <5>2. CASE p = q
          <6>1. s \in OfProduct(F, p) /\ s \notin S /\ Applying(x, y, p, F[s].image)
            BY <2>1, <2>2, <2>6, <4>3, <5>2 DEF OfProduct, On
          <6> HIDE DEF to
          <6> QED BY <1>4, <2>1, <4>1, <4>4, <5>1, <6>1, AdvanceSteps
        <5>3. CASE p # q
          <6>1. y.rows[p] = x.rows[p] /\ s \notin OfProduct(F, p)
            BY <4>3, <5>3 DEF Applying, OfProduct, On
          <6> HIDE DEF to
          <6> QED BY <1>4, <2>1, <4>1, <4>4, <5>1, <6>1, AdvanceSteps
        <5> QED BY <5>2, <5>3
      <4>6. Fine(x, n - 1) => Fine(y, n)
        BY <4>1, <4>4, <4>5
      <4> HIDE DEF Fine
      <4> QED BY <1>2, <4>2, <4>6 DEF y
    <3> QED BY <3>4, <3>5
  <2> QED BY <2>5, <2>6
<1>6. AppliesWithin(U, N, changes, fresh, yes)
  BY <1>5 DEF AppliesWithin
<1>7. DOMAIN changes = 1..N
  BY DEF ChangesAfter
<1>8. PICK R :
         /\ R \in [0..N -> U]
         /\ R[0] = b
         /\ \A n \in 1..N : R[n] = StepOf(R[n - 1], n, changes, fresh, yes)
         /\ ApplyKind(b, changes, fresh, yes) = R[N]
  <2> HIDE DEF yes
  <2>1. PICK R : IsApplication(R, U, N, b, changes, fresh, yes)
    BY <1>3, <1>6, <1>7, ApplyKindRuns
  <2> QED BY <2>1 DEF IsApplication
<1>9. Fine(b, 0)
  <2>1. ASSUME NEW p \in Products PROVE Advancing(b, mine, O, C, F, S, from, 0, to, p)
    <3>1. RowInv(b, mine, O, C, F, p) /\ AheadRepaired(b, mine, F, S, b.cursor, to, p)
      OBVIOUS
    <3> HIDE DEF to
    <3>2. Advancing(b, mine, O, C, F, S, b.cursor, 0, to, p)
      BY <1>3, <1>4, <3>1, AdvanceBegins
    <3> QED BY <3>2
  <2> QED BY <2>1
<1> DEFINE P == {n \in 0..N : Fine(R[n], n)}
<1> HIDE DEF Fine, yes, to
<1>10. 0 \in P
  BY <1>8, <1>9
<1>11. ASSUME NEW n \in 1..N, n - 1 \in P PROVE n \in P
  <2>1. n - 1 \in 0..N /\ n \in 0..N /\ R[n - 1] \in U /\ Fine(R[n - 1], n - 1)
    BY <1>8, <1>11
  <2>2. R[n] = StepOf(R[n - 1], n, changes, fresh, yes)
    BY <1>8
  <2> QED BY <1>5, <2>1, <2>2
<1>12. 0..N \subseteq P
  <2> HIDE DEF P
  <2> QED BY <1>10, <1>11, RunInduction
<1>13. Fine(R[N], N) /\ R[N] \in U
  <2>1. N \in 0..N
    OBVIOUS
  <2> QED BY <1>8, <1>12, <2>1
<1>14. R[N] # None
  BY <1>8 DEF yes, ProductsOf
<1> QED BY <1>1, <1>8, <1>13, <1>14 DEF Fine, yes, to, ProductsOf

(* A page. *)
LEMMA PageLanes ==
    ASSUME NEW own, NEW known, NEW mine, NEW O, NEW C, NEW F, Grounds(own, known, mine, O, C, F),
           NEW N \in Nat, NEW from \in Nat, NEW changes, ChangesAfter(changes, from, N, F),
           NEW S, NEW fresh, Unwritten(fresh, S, from, N),
           NEW b, Local(b, own, known, F), b.cursor = from,
           \A p \in Products :
                Lane(b, mine, O, C, F, p) /\ AheadRepaired(b, mine, F, S, from, from + N, p),
           ApplyPage(b, from, changes, fresh, from + N) # None
    PROVE  LET h == ApplyPage(b, from, changes, fresh, from + N) IN
           /\ Agreeing(b, h, known) /\ Local(h, own, known, F)
           /\ \A p \in Products : Lane(h, mine, O, C, F, p)
<1> DEFINE to == from + N
           g == ApplyKind(b, changes, fresh, TRUE)
           m == ApplyKind(g, changes, fresh, FALSE)
           h == ApplyPage(b, from, changes, fresh, to)
<1>1. m # None /\ h = [m EXCEPT !.cursor = to]
  BY DEF ApplyPage
<1>2. g # None
  <2>1. DOMAIN changes = 1..N
    BY DEF ChangesAfter
  <2> QED BY <1>1, <2>1, NothingApplied
<1>3. World(own, known, F) /\ Good(b, own, known, Accepted(F)) /\ to \in Nat
  BY DEF Grounds, Local
<1>4. /\ Good(g, own, known, Accepted(F))
      /\ g.queue = b.queue /\ g.conflicts = b.conflicts /\ g.cursor = b.cursor
      /\ \A p \in Products : Advancing(g, mine, O, C, F, S, from, N, to, p)
  <2>1. \A p \in Products :
            RowInv(b, mine, O, C, F, p) /\ AheadRepaired(b, mine, F, S, from, from + N, p)
    BY DEF Lane
  <2>2. ProductsOf(b, changes, fresh) # None
    BY <1>2 DEF ProductsOf
  <2>3. LET w == ProductsOf(b, changes, fresh) IN
        /\ Good(w, own, known, Accepted(F))
        /\ w.queue = b.queue /\ w.conflicts = b.conflicts /\ w.cursor = b.cursor
        /\ \A p \in Products : Advancing(w, mine, O, C, F, S, from, N, from + N, p)
    BY <1>3, <2>1, <2>2, ProductsAdvance
  <2> QED BY <2>3 DEF ProductsOf
<1> HIDE DEF g
<1>5. /\ Good(m, own, known, Accepted(F)) /\ Quiet(g, m, known) /\ m.rows = g.rows
  <2>1. Good(m, own, known, Accepted(F))
    <3> DEFINE no == FALSE
    <3>1. no \in BOOLEAN /\ ApplyKind(g, changes, fresh, no) # None
      BY <1>1
    <3> HIDE DEF no
    <3>2. Good(ApplyKind(g, changes, fresh, no), own, known, Accepted(F))
      BY <1>3, <1>4, <3>1, KindApplied
    <3> QED BY <3>2 DEF no
  <2>2. MovementsOf(g, changes, fresh) # None
    BY <1>1 DEF MovementsOf
  <2>3. LET w == MovementsOf(g, changes, fresh) IN Quiet(g, w, known) /\ w.rows = g.rows
    BY <1>3, <1>4, <2>2, MovesQuiet
  <2> QED BY <2>1, <2>3 DEF MovementsOf
<1> HIDE DEF m, h, to
<1>6. /\ Good(h, own, known, Accepted(F)) /\ h.cursor = to /\ h.queue = m.queue
      /\ h.conflicts = m.conflicts /\ h.rows = m.rows
  <2>1. m \in Database
    BY <1>5 DEF Good
  <2>2. h.rows = m.rows
    BY <1>1, <2>1 DEF Database
  <2> QED BY <1>1, <1>3, <1>5, <2>2, CursorMoved
<1>7. Turns(b, h, {}, {})
  <2>1. Turns(g, m, {}, {})
    BY <1>5 DEF Quiet
  <2>2. Outbox(h) = Outbox(m) /\ Outbox(b) = Outbox(g)
    BY <1>4, <1>6 DEF Outbox
  <2>3. \A x, y : (Before(h, x, y) <=> Before(m, x, y)) /\ (Before(b, x, y) <=> Before(g, x, y))
    BY <1>4, <1>6 DEF Before
  <2> QED BY <2>1, <2>2, <2>3, Zenon DEF Turns
<1>8. Agreeing(b, h, known)
  <2>1. Agreeing(g, m, known)
    BY <1>5 DEF Quiet
  <2> QED BY <1>4, <1>6, <2>1 DEF Agreeing, Agrees, Explained
<1>9. \A p \in Products : Confl(h, p) = Confl(b, p)
  <2>1. \A p \in Products : Confl(m, p) = Confl(g, p)
    BY <1>5 DEF Quiet
  <2> QED BY <1>4, <1>6, <2>1 DEF Confl
<1>10. ASSUME NEW p \in Products PROVE Lane(h, mine, O, C, F, p)
  <2> DEFINE none == {}
  <2>1. LaneTurns(b, h, p, none, {}) /\ \A x \in none : x.id \in Accepted(F)
    BY <1>7, TurnsInLane
  <2> HIDE DEF none
  <2>2. Grown(b, h, p) /\ QueueInv(b, mine, C, F, p)
    BY <1>9 DEF Grown, Disputed, Lane
  <2>3. QueueInv(h, mine, C, F, p)
    BY <2>1, <2>2, QueueAccepts
  <2>4. Pend(h, p) = Pend(g, p) /\ Confl(h, p) = Confl(g, p) /\ h.rows = g.rows
    BY <1>4, <1>5, <1>6, <1>7, <1>9 DEF Turns, Pend, Outbox, Confl
  <2>5. RowInv(h, mine, O, C, F, p)
    <3>1. Advancing(g, mine, O, C, F, S, from, N, from + N, p) /\ h.cursor = from + N
      BY <1>4, <1>6 DEF to
    <3> QED BY <2>4, <3>1, AdvanceEnds
  <2> QED BY <2>3, <2>5 DEF Lane
<1>11. Local(h, own, known, F)
  BY <1>6, <1>8, LocalKept
<1> QED BY <1>8, <1>10, <1>11 DEF h, to
-----------------------------------------------------------------------------
(* WHAT THE USER DOES, AND SNAPSHOTS                                        *)

(* More mutations of the device excuse more. *)
LEMMA MoreMine ==
    ASSUME NEW b, NEW mine, NEW mine2, mine \subseteq mine2, NEW O, NEW C, NEW F, NEW p
    PROVE  /\ Lane(b, mine, O, C, F, p) => Lane(b, mine2, O, C, F, p)
           /\ AheadKept(b, mine, F, b, mine2, F, p)
<1>1. Excused(b, mine, F, p) => Excused(b, mine2, F, p)
  BY DEF Excused, Outrun
<1>2. QueueInv(b, mine, C, F, p) => QueueInv(b, mine2, C, F, p)
  <2> HIDE DEF Excused
  <2>1. Chained(b, mine, C, F, p) => Chained(b, mine2, C, F, p)
    BY <1>1 DEF Chained
  <2>2. EditsOvertaken(b, mine, C, F, p) => EditsOvertaken(b, mine2, C, F, p)
    BY <1>1, Zenon DEF EditsOvertaken
  <2>3. DeletionOvertaken(b, mine, C, F, p) => DeletionOvertaken(b, mine2, C, F, p)
    BY DEF DeletionOvertaken
  <2>4. Inverted(b, mine, F, p) => Inverted(b, mine2, F, p)
    BY <1>1, Zenon DEF Inverted
  <2> QED BY <2>1, <2>2, <2>3, <2>4 DEF QueueInv
<1>3. RowInv(b, mine, O, C, F, p) => RowInv(b, mine2, O, C, F, p)
  BY <1>1 DEF RowInv, Founded, Repaired
<1>4. AheadKept(b, mine, F, b, mine2, F, p)
  BY <1>1 DEF AheadKept, AheadRepaired
<1> QED BY <1>2, <1>3, <1>4 DEF Lane

(* The turns depend on the queue alone. *)
LEMMA QueueTurns ==
    ASSUME NEW b, NEW g, NEW h, g.queue = h.queue, NEW gone, NEW new, Turns(b, g, gone, new)
    PROVE  Turns(b, h, gone, new) /\ QueueOps(h) = QueueOps(g)
<1>1. Outbox(h) = Outbox(g) /\ QueueOps(h) = QueueOps(g)
  BY DEF Outbox, QueueOps
<1>2. \A x, y : Before(h, x, y) <=> Before(g, x, y)
  BY DEF Before
<1> QED BY <1>1, <1>2, Zenon DEF Turns

(* What a mutation writes and queues. *)
Intending(b, h, x) ==
    /\ h.cursor = b.cursor /\ h.conflicts = b.conflicts
    /\ h.queue = Enqueue(b, x).queue
    /\ ~IsProductOp(x) => h.rows = b.rows
    /\ IsProductOp(x) => h.rows = [b.rows EXCEPT ![x.product] = OptimisticRow(b, x)]

(* A mutation writes just that, based on the row it finds.                 *)
LEMMA MutationWrites ==
    ASSUME NEW b \in Database, NEW i \in Intent, i.kind = "count" => i.qty \in Nat, Mutate(b, i) # None
    PROVE  LET x == OperationFor(b, i) IN
           /\ Intending(b, Mutate(b, i), x)
           /\ x \in Operation /\ x.id = <<i.id, 0>> /\ x.product \in Products /\ x.base \in Nat
           /\ OptimisticRow(b, x) \in LocalRow \/ ~IsProductOp(x)
           /\ x.base = 0 \/ (b.rows[x.product] # None /\ ~b.rows[x.product].deleted
                               /\ x.base = b.rows[x.product].version)
<1> DEFINE x == OperationFor(b, i)
           h == Mutate(b, i)
<1>1. Mutable(b, i) /\ x.product = i.product /\ x.kind = i.kind
  BY DEF Mutate, OperationFor
<1>2. /\ x \in Operation /\ x.id = <<i.id, 0>>
      /\ x.kind \in {"create", "edit"} => x.fields \in Payload
      /\ x.kind \notin {"edit", "delete"} => x.base = 0
  BY <1>1, OperationOf
<1>3. i.kind \in {"edit", "delete"} => Active(b, i.product) /\ x.base = b.rows[i.product].version
  BY <1>1 DEF Mutable, OperationFor
<1>4. h = Enqueue(IF IsProductOp(x) THEN [b EXCEPT !.rows[x.product] = OptimisticRow(b, x)]
                  ELSE WithMove(b, NewMove(x, x.delta, "pending")), x)
  BY DEF Mutate, Indexed
<1> HIDE DEF x, h
<1>5. x.product \in Products /\ x.base \in Nat
  BY <1>2 DEF Operation
<1>6. Intending(b, h, x)
  <2>1. CASE IsProductOp(x)
    BY <1>4, <1>5, <2>1 DEF Intending, Enqueue, Database
  <2>2. CASE ~IsProductOp(x)
    BY <1>4, <2>2 DEF Intending, Enqueue, WithMove, Database
  <2> QED BY <2>1, <2>2
<1>7. x.base = 0 \/ (b.rows[x.product] # None /\ ~b.rows[x.product].deleted
                       /\ x.base = b.rows[x.product].version)
  BY <1>1, <1>2, <1>3 DEF Active
<1>8. OptimisticRow(b, x) \in LocalRow \/ ~IsProductOp(x)
  <2>1. SUFFICES ASSUME IsProductOp(x) PROVE OptimisticRow(b, x) \in LocalRow
    OBVIOUS
  <2>2. b.rows[x.product] \in LocalRow \cup {None}
    BY <1>5 DEF Database
  <2>3. IF x.kind = "delete" THEN b.rows[x.product].fields \in Payload ELSE x.fields \in Payload
    BY <1>1, <1>2, <1>3, <2>1, <2>2 DEF Active, IsProductOp, LocalRow
  <2> QED BY <1>5, <2>3 DEF OptimisticRow, LocalRow, SyncStatus
<1> QED BY <1>2, <1>5, <1>6, <1>7, <1>8 DEF x, h

(* A mutation queues its operation last, and what it wrote is repaired by   *)
(* it.                                                                     *)
LEMMA MutationLanes ==
    ASSUME NEW own, NEW known, NEW mine, NEW O, NEW C, NEW F, Grounds(own, known, mine, O, C, F),
           NEW b, Local(b, own, known, F), NEW h, NEW x \in Operation, Intending(b, h, x),
           \A y \in known : y.id # x.id, OptimisticRow(b, x) \in LocalRow \/ ~IsProductOp(x),
           x.base = 0 \/ (b.rows[x.product] # None /\ ~b.rows[x.product].deleted
                            /\ x.base = b.rows[x.product].version),
           NEW mine2, mine \subseteq mine2,
           \A p \in Products : Lane(b, mine, O, C, F, p)
    PROVE  /\ Agreeing(b, h, known) /\ Turns(b, h, {}, IF IsProductOp(x) THEN {x} ELSE {})
           /\ \A p \in Products :
                Lane(h, mine2, O, C, F, p) /\ AheadKept(b, mine, F, h, mine2, F, p)
<1> DEFINE new == IF IsProductOp(x) THEN {x} ELSE {}
           none == {}
           g == Enqueue(b, x)
<1>1. /\ World(own, known, F) /\ Good(b, own, known, Accepted(F)) /\ b \in Database
      /\ GoodQueue(b, own) /\ own \subseteq known /\ x.product \in Products /\ x.base \in Nat
  BY DEF Grounds, Local, Good, World, Family, Operation
<1>2. x.id \notin QueuedIds(b) /\ x.id \notin Accepted(F)
  <2>1. \A n \in DOMAIN b.queue : b.queue[n].op \in known
    BY <1>1 DEF GoodQueue
  <2>2. \A s \in DOMAIN F : F[s].op \in known
    BY <1>1 DEF World, FeedOk
  <2> QED BY <2>1, <2>2 DEF QueuedIds, Accepted
<1>3. Turns(b, g, none, new) /\ QueueOps(g) = QueueOps(b) \cup {x}
  BY <1>1, <1>2, EnqueueTurns
<1>4. g.queue = h.queue
  BY DEF Intending
<1> HIDE DEF none, new, g
<1>5. Turns(b, h, none, new) /\ QueueOps(h) = QueueOps(b) \cup {x}
  BY <1>3, <1>4, QueueTurns
<1>6. Agreeing(b, h, known)
  <2> DEFINE added == {x}
  <2>1. QueueOps(h) \subseteq QueueOps(b) \cup added
    BY <1>5
  <2>2. \A y \in added : \A z \in known : Agrees(b, z) => z.id # y.id
    OBVIOUS
  <2>3. \A z \in known : Explained(b, z.id) => Explained(h, z.id)
    BY DEF Intending, Explained
  <2> HIDE DEF added
  <2> QED BY <2>1, <2>2, <2>3, AgreesOn
<1>7. ASSUME NEW p \in Products PROVE Grown(b, h, p)
  BY DEF Intending, Grown, Confl, Disputed
<1>8. h.cursor = b.cursor
  BY DEF Intending
<1>9. ASSUME NEW p \in Products, ~On(x, p)
      PROVE  Lane(h, mine2, O, C, F, p) /\ AheadKept(b, mine, F, h, mine2, F, p)
  <2>1. LaneTurns(b, h, p, none, none)
    <3>1. \A y \in none \cup new : y.product # p
      BY <1>9 DEF none, new, On
    <3> QED BY <1>5, <3>1, TurnsInLane DEF none
  <2>2. SameRow(b, h, p)
    <3>1. h.rows[p] = b.rows[p]
      <4>1. CASE ~IsProductOp(x)
        BY <4>1 DEF Intending
      <4>2. CASE IsProductOp(x)
        BY <1>1, <1>9, <4>2 DEF Intending, On, Database
      <4> QED BY <4>1, <4>2
    <3> QED BY <3>1 DEF SameRow
  <2>3. \A y \in none : y.id \in Accepted(F)
    BY DEF none
  <2>4. LaneTurns(b, h, p, none, {})
    BY <2>1 DEF none
  <2>5. Lane(h, mine, O, C, F, p) /\ AheadKept(b, mine, F, h, mine, F, p)
    BY <1>7, <1>8, <2>2, <2>3, <2>4, LaneAccepts
  <2>6. Lane(h, mine2, O, C, F, p) /\ AheadKept(h, mine, F, h, mine2, F, p)
    BY <2>5, MoreMine
  <2> QED BY <2>5, <2>6 DEF AheadKept
<1>10. ASSUME NEW p \in Products, On(x, p)
       PROVE  Lane(h, mine2, O, C, F, p) /\ AheadKept(b, mine, F, h, mine2, F, p)
  <2>1. x.product = p /\ IsProductOp(x) /\ new = {x}
    BY <1>10 DEF On, new
  <2>2. LaneTurns(b, h, p, {}, {x})
    <3>1. \A y \in none \cup new : y.product = p
      BY <2>1 DEF none
    <3>2. LaneTurns(b, h, p, none, new)
      BY <1>5, <3>1, TurnsInLane
    <3> QED BY <2>1, <3>2 DEF none
  <2>3. QueueInv(b, mine, C, F, p) /\ Founded(b, mine, O, C, F, p) /\ RowInv(b, mine, O, C, F, p)
    BY DEF Lane, RowInv
  <2>4. QueueInv(h, mine2, C, F, p) /\ Pend(h, p) = Pend(b, p) \cup {x}
    BY <1>1, <1>2, <1>7, <2>1, <2>2, <2>3, QueueMutates
  <2>5. h.rows[p] = OptimisticRow(b, x)
    BY <1>1, <2>1 DEF Intending, Database
  <2>6. /\ h.rows[p] # None /\ h.rows[p].version = x.base + 1
        /\ h.rows[p].deleted <=> x.kind = "delete"
        /\ x.kind # "delete" => h.rows[p].fields = x.fields
    <3>1. h.rows[p] # None
      BY <2>1, <2>5, NoneIsNoData
    <3> DEFINE row == OptimisticRow(b, x)
    <3>2. /\ row.version = x.base + 1
          /\ row.deleted = (x.kind = "delete")
          /\ x.kind # "delete" => row.fields = x.fields
      BY DEF OptimisticRow
    <3> HIDE DEF row
    <3> QED BY <2>5, <3>1, <3>2 DEF row
  <2>7. x \in Pend(h, p) /\ (Upsert(x) <=> x.kind # "delete")
    BY <2>1, <2>4 DEF IsProductOp, Upsert
  <2>8. CASE Upsert(x)
    <3>1. Predicted(h, p, h.rows[p]) /\ x \in Open(h, F, p)
      BY <1>2, <2>6, <2>7, <2>8 DEF Predicted, Open
    <3>2. ~h.rows[p].deleted
      BY <2>6, <2>7, <2>8
    <3>3. RowInv(h, mine2, O, C, F, p) /\ AheadKept(b, mine, F, h, mine2, F, p)
      BY <1>8, <2>3, <2>6, <3>1, <3>2, RowPredicted
    <3> QED BY <2>4, <3>3 DEF Lane
  <2>9. CASE ~Upsert(x)
    <3>1. h.rows[p].deleted /\ \E y \in Pend(h, p) : y.kind = "delete"
      BY <2>6, <2>7, <2>9
    <3>2. RowInv(h, mine2, O, C, F, p) /\ AheadKept(b, mine, F, h, mine2, F, p)
      BY <1>8, <2>3, <2>6, <3>1, RowBuried
    <3> QED BY <2>4, <3>2 DEF Lane
  <2> QED BY <2>8, <2>9
<1> QED BY <1>5, <1>6, <1>9, <1>10 DEF none, new

(* A choice on a conflict settles it; nothing that was explained or excused *)
(* is so no longer.                                                        *)
LEMMA SettlingGrows ==
    ASSUME NEW own, NEW known, NEW F, NEW b, Good(b, own, known, Accepted(F)),
           NEW c \in b.conflicts, c.resolution = "unresolved", NEW res \in {"resolved", "reviewed"}
    PROVE  LET h == Settling(b, c, res) IN
           /\ h.queue = b.queue /\ h.rows = b.rows /\ h.cursor = b.cursor
           /\ \A id : Explained(b, id) => Explained(h, id)
           /\ \A p : /\ Grown(b, h, p)
                     /\ On(c.op, p) /\ c.reason # "product_deleted" => Disputed(h, p)
<1> DEFINE n == [c EXCEPT !.resolution = res]
           h == Settling(b, c, res)
<1>1. b \in Database /\ c \in Conflict /\ \A x \in b.conflicts : x.op.id = c.op.id => x = c
  BY DEF Good, GoodConflicts, Database
<1>2. n.op = c.op /\ n.reason = c.reason /\ n.resolution = res
  BY <1>1, Zenon DEF Conflict
<1> HIDE DEF n
<1>3. /\ h.queue = b.queue /\ h.rows = b.rows /\ h.cursor = b.cursor
      /\ h.conflicts = {x \in b.conflicts : x.op.id # c.op.id} \cup {n}
  BY <1>1, <1>2 DEF Settling, WithConflict, Database, n
<1> HIDE DEF h
<1>4. \A x \in b.conflicts : x = c \/ x \in h.conflicts
  BY <1>1, <1>3
<1>5. n \in h.conflicts
  BY <1>3
<1>6. \A id : Explained(b, id) => Explained(h, id)
  BY <1>4 DEF Explained
<1>7. ASSUME NEW p PROVE Grown(b, h, p)
  <2>1. On(n.op, p) <=> On(c.op, p)
    BY <1>2
  <2>2. Confl(b, p) # {} => Confl(h, p) # {}
    BY <1>4, <1>5, <2>1 DEF Confl
  <2>3. Disputed(b, p) => Disputed(h, p)
    <3>1. SUFFICES ASSUME NEW x \in b.conflicts, On(x.op, p), x.resolution # "auto_merged",
                          x.reason # "product_deleted"
                   PROVE  Disputed(h, p)
      BY DEF Disputed, Confl
    <3>2. CASE x = c
      BY <1>2, <1>5, <2>1, <3>1, <3>2 DEF Disputed, Confl
    <3>3. CASE x \in h.conflicts
      BY <3>1, <3>3 DEF Disputed, Confl
    <3> QED BY <1>4, <3>2, <3>3
  <2> QED BY <2>2, <2>3 DEF Grown
<1>8. ASSUME NEW p, On(c.op, p), c.reason # "product_deleted" PROVE Disputed(h, p)
  BY <1>2, <1>5, <1>8 DEF Disputed, Confl
<1> QED BY <1>3, <1>6, <1>7, <1>8 DEF h

(* What a choice writes and queues. *)
Retrying(b, h, c, next) ==
    /\ h.cursor = b.cursor /\ h.conflicts = Settling(b, c, "resolved").conflicts
    /\ h.queue = Enqueue(b, next).queue
    /\ IsProductOp(c.op) /\ IsProductOp(next) /\ next.product = c.op.product
    /\ next.id = NextId(c.op.id) /\ next.id \notin QueuedIds(b)
    /\ h.rows[c.op.product] # None
    /\ \A p \in Products : p # c.op.product => h.rows[p] = b.rows[p]
    /\ c.reason # "product_deleted"

(* A choice that asks for a follow-up does just that. *)
LEMMA RetryWrites ==
    ASSUME NEW own, NEW known, NEW F, Family(own, known),
           NEW b, Good(b, own, known, Accepted(F)),
           NEW c \in b.conflicts, c.resolution = "unresolved", NEW choice \in Offers(c),
           choice # "reviewed", Resolve(b, c, choice) # None
    PROVE  Retrying(b, Resolve(b, c, choice), c, RetryOf(c, choice))
<1> DEFINE decided == Settling(b, c, "resolved")
           next == RetryOf(c, choice)
           row == b.rows[c.op.product]
           new == ResolvedRow(row, next.fields, c.server)
           h == Resolve(b, c, choice)
<1>1. /\ b \in Database /\ c \in Conflict /\ c.op \in known /\ c.op.product \in Products
      /\ c.op.id \in OpId /\ GoodConflicts(b, own, known) /\ Choosable(c, own)
  BY DEF Good, GoodConflicts, Family, Operation, Database
<1>2. row # None /\ h = Enqueue([decided EXCEPT !.rows[c.op.product] = new], next)
  BY DEF Resolve, Indexed, Settling
<1>3. /\ IsProductOp(c.op) /\ Continues(next, c.op) /\ next.fields \in Payload \cup {None}
  BY <1>1, RetryContinues
<1>4. next.id = NextId(c.op.id) /\ next.product = c.op.product /\ IsProductOp(next)
  BY <1>3 DEF Continues, IsProductOp
<1> HIDE DEF next
<1>5. new \in LocalRow
  <2>1. row \in LocalRow /\ c.server \in Image \cup {None}
    <3>1. row \in LocalRow
      BY <1>1, <1>2 DEF Database
    <3>2. c.server \in Image \cup {None}
      BY <1>1, Zenon DEF Conflict
    <3> QED BY <3>1, <3>2
  <2>2. (IF c.server = None THEN row.version ELSE c.server.version) + 1 \in Nat \ {0}
    BY <2>1 DEF LocalRow, Image
  <2>3. [f \in Fields |->
            IF next.fields # None /\ (f \in Required => next.fields[f] # Blank) THEN next.fields[f]
            ELSE IF f \in Required THEN row.fields[f] ELSE Blank] \in Payload
    BY <1>3, <2>1, BlankIsAValue DEF Payload, LocalRow
  <2>4. "pending" \in SyncStatus
    BY DEF SyncStatus
  <2> HIDE DEF row
  <2> QED BY <2>1, <2>2, <2>3, <2>4 DEF ResolvedRow, LocalRow
<1>6. new # None
  BY <1>5, NoneIsNoData
<1> HIDE DEF new, row, h
<1>7. decided.queue = b.queue /\ decided.rows = b.rows /\ decided.cursor = b.cursor
  BY SettlingGrows
<1>8. decided = [b EXCEPT !.conflicts = decided.conflicts]
  BY <1>1 DEF Settling, WithConflict, Database
<1> HIDE DEF decided
<1>9. /\ h.cursor = b.cursor /\ h.conflicts = decided.conflicts
      /\ h.queue = Enqueue(b, next).queue
      /\ h.rows = [b.rows EXCEPT ![c.op.product] = new]
  BY <1>1, <1>2, <1>8 DEF Enqueue, Database
<1>10. h.rows[c.op.product] # None /\ \A p \in Products : p # c.op.product => h.rows[p] = b.rows[p]
  BY <1>1, <1>6, <1>9 DEF Database
<1>11. next.id \notin QueuedIds(b)
  <2>1. \A x \in b.conflicts : x.op.id = c.op.id => x.resolution \notin {"auto_merged", "resolved"}
    BY <1>1 DEF GoodConflicts
  <2>2. GoodBut(b, own, known, Accepted(F), NextId(c.op.id))
    BY GoodIsGoodBut
  <2> QED BY <1>1, <1>4, <2>1, <2>2, FollowUpIsNew
<1>12. c.reason # "product_deleted"
  BY Zenon DEF Offers
<1> QED BY <1>3, <1>4, <1>9, <1>10, <1>11, <1>12 DEF Retrying, next, h, decided

(* What the user has decided excuses the row; the other products do not     *)
(* notice.                                                                  *)
LEMMA RetryLanes ==
    ASSUME NEW own, NEW known, NEW mine, NEW O, NEW C, NEW F, Grounds(own, known, mine, O, C, F),
           NEW b, Local(b, own, known, F), NEW c \in b.conflicts, c.resolution = "unresolved",
           NEW h, NEW next, Retrying(b, h, c, next),
           \A p \in Products : Lane(b, mine, O, C, F, p)
    PROVE  /\ Agreeing(b, h, known) /\ Turns(b, h, {}, {next})
           /\ \A p \in Products :
                Lane(h, mine, O, C, F, p) /\ AheadKept(b, mine, F, h, mine, F, p)
<1> DEFINE new == {next}
           none == {}
           g == Enqueue(b, next)
           w == Settling(b, c, "resolved")
<1>1. /\ World(own, known, F) /\ Good(b, own, known, Accepted(F)) /\ b \in Database
      /\ GoodQueue(b, own) /\ GoodConflicts(b, own, known) /\ c.op \in known
      /\ known \subseteq Operation /\ c.op.id \in OpId
  BY DEF Grounds, Local, Good, GoodConflicts, World, Family, Operation
<1>2. /\ IsProductOp(c.op) /\ IsProductOp(next) /\ next.product = c.op.product
      /\ next.id = NextId(c.op.id) /\ next.id \notin QueuedIds(b) /\ g.queue = h.queue
      /\ h.conflicts = w.conflicts /\ h.cursor = b.cursor /\ c.reason # "product_deleted"
  BY DEF Retrying
<1>3. Turns(b, g, none, new) /\ QueueOps(g) = QueueOps(b) \cup {next}
  BY <1>1, <1>2, EnqueueTurns
<1>4. /\ \A id : Explained(b, id) => Explained(w, id)
      /\ \A p : /\ Grown(b, w, p)
                /\ On(c.op, p) /\ c.reason # "product_deleted" => Disputed(w, p)
  BY <1>1, SettlingGrows
<1> HIDE DEF none, new, g, w
<1>5. Turns(b, h, none, new) /\ QueueOps(h) = QueueOps(b) \cup {next}
  BY <1>2, <1>3, QueueTurns
<1>6. /\ \A id : Explained(b, id) => Explained(h, id)
      /\ \A p : /\ Grown(b, h, p)
                /\ On(c.op, p) => Disputed(h, p)
  BY <1>2, <1>4 DEF Explained, Grown, Disputed, Confl
<1>7. Agreeing(b, h, known)
  <2>1. QueueOps(h) \subseteq QueueOps(b) \cup new
    BY <1>5 DEF new
  <2>2. \A y \in new : \A x \in known : Agrees(b, x) => x.id # y.id
    <3> SUFFICES ASSUME NEW x \in known, Explained(b, x.id), x.id = NextId(c.op.id) PROVE FALSE
      BY <1>2 DEF new, Agrees
    <3>1. NextId(c.op.id)[2] > 0
      BY <1>1, NextIdType
    <3>2. PICK e \in b.conflicts :
             NextId(e.op.id) = NextId(c.op.id) /\ e.resolution \in {"auto_merged", "resolved"}
      BY <3>1 DEF Explained
    <3>3. e.op.id \in OpId
      BY <1>1 DEF GoodConflicts, Operation
    <3>4. e.op.id = c.op.id
      BY <1>1, <3>2, <3>3, NextIdIsOne
    <3>5. e = c
      BY <1>1, <3>4 DEF GoodConflicts
    <3> QED BY <3>2, <3>5
  <2>3. \A z \in known : Explained(b, z.id) => Explained(h, z.id)
    BY <1>6
  <2> QED BY <2>1, <2>2, <2>3, AgreesOn
<1>8. ASSUME NEW p \in Products, p # c.op.product
      PROVE  Lane(h, mine, O, C, F, p) /\ AheadKept(b, mine, F, h, mine, F, p)
  <2>1. LaneTurns(b, h, p, none, {})
    <3>1. \A y \in none \cup new : y.product # p
      BY <1>2, <1>8 DEF none, new
    <3> QED BY <1>5, <3>1, TurnsInLane DEF none
  <2>2. SameRow(b, h, p)
    BY <1>8 DEF Retrying, SameRow
  <2>3. \A y \in none : y.id \in Accepted(F)
    BY DEF none
  <2> QED BY <1>2, <1>6, <2>1, <2>2, <2>3, LaneAccepts
<1>9. ASSUME NEW p \in Products, p = c.op.product
      PROVE  Lane(h, mine, O, C, F, p) /\ AheadKept(b, mine, F, h, mine, F, p)
  <2>1. Excused(h, mine, F, p)
    BY <1>2, <1>6, <1>9 DEF Excused, On
  <2>2. h.rows[p] # None
    BY <1>9 DEF Retrying
  <2>3. QueueInv(h, mine, C, F, p)
    BY <2>1, QueueDisputes
  <2>4. RowInv(b, mine, O, C, F, p)
    BY DEF Lane
  <2>5. RowInv(h, mine, O, C, F, p) /\ AheadKept(b, mine, F, h, mine, F, p)
    BY <1>2, <2>1, <2>2, <2>4, RowDisputed
  <2> QED BY <2>3, <2>5 DEF Lane
<1> QED BY <1>5, <1>7, <1>8, <1>9 DEF none, new

(* A conflict that is reviewed is decided, and nothing else. *)
LEMMA ReviewLanes ==
    ASSUME NEW own, NEW known, NEW mine, NEW O, NEW C, NEW F, Grounds(own, known, mine, O, C, F),
           NEW b, Local(b, own, known, F), NEW c \in b.conflicts, c.resolution = "unresolved",
           \A p \in Products : Lane(b, mine, O, C, F, p)
    PROVE  LET h == Settling(b, c, "reviewed") IN
           /\ h.cursor = b.cursor /\ Agreeing(b, h, known) /\ Turns(b, h, {}, {})
           /\ \A p \in Products :
                Lane(h, mine, O, C, F, p) /\ AheadKept(b, mine, F, h, mine, F, p)
<1> DEFINE h == Settling(b, c, "reviewed")
           none == {}
<1>1. Good(b, own, known, Accepted(F))
  BY DEF Local
<1>2. /\ h.queue = b.queue /\ h.rows = b.rows /\ h.cursor = b.cursor
      /\ \A id : Explained(b, id) => Explained(h, id)
      /\ \A p : Grown(b, h, p)
  BY <1>1, SettlingGrows
<1> HIDE DEF h, none
<1>3. Agreeing(b, h, known)
  BY <1>2 DEF Agreeing, Agrees
<1>4. Turns(b, h, {}, {})
  <2>2. Outbox(h) = Outbox(b) /\ \A x, y : Before(h, x, y) <=> Before(b, x, y)
    BY <1>2 DEF Outbox, Before
  <2> QED BY <2>2 DEF Turns
<1>5. ASSUME NEW p \in Products
      PROVE  Lane(h, mine, O, C, F, p) /\ AheadKept(b, mine, F, h, mine, F, p)
  <2>1. LaneTurns(b, h, p, none, {}) /\ \A y \in none : y.id \in Accepted(F)
    BY <1>4, TurnsInLane DEF none
  <2>2. SameRow(b, h, p)
    BY <1>2 DEF SameRow
  <2> QED BY <1>2, <2>1, <2>2, LaneAccepts
<1> QED BY <1>2, <1>3, <1>4, <1>5 DEF h

(* A snapshot brings the catalog, and the feed up to its end. *)
LEMMA InstallLanes ==
    ASSUME NEW own, NEW known, NEW mine, NEW O, NEW C, NEW F, Grounds(own, known, mine, O, C, F),
           NEW b, Local(b, own, known, F), NEW snapshot, snapshot.products = C,
           \A p \in Products : Lane(b, mine, O, C, F, p)
    PROVE  LET h == Install(b, snapshot) IN
           Agreeing(b, h, known) /\ \A p \in Products : Lane(h, mine, O, C, F, p)
<1> DEFINE h == Install(b, snapshot)
           none == {}
<1>1. b \in Database /\ C \in [Products -> Image \cup {None}]
  BY DEF Local, Good, Grounds
<1>2. /\ h.queue = b.queue /\ h.conflicts = b.conflicts
      /\ h.rows = [p \in Products |-> IF C[p] = None THEN None ELSE ToLocal(C[p], "synced")]
  BY <1>1 DEF Install, Database
<1> HIDE DEF h, none
<1>3. Agreeing(b, h, known)
  BY <1>2 DEF Agreeing, Agrees, Explained
<1>4. Turns(b, h, none, none)
  <2>2. Outbox(h) = Outbox(b) /\ \A x, y : Before(h, x, y) <=> Before(b, x, y)
    BY <1>2 DEF Outbox, Before
  <2> QED BY <2>2 DEF Turns, none
<1>5. ASSUME NEW p \in Products PROVE Lane(h, mine, O, C, F, p)
  <2>1. LaneTurns(b, h, p, none, {}) /\ \A y \in none : y.id \in Accepted(F)
    BY <1>4, TurnsInLane DEF none
  <2>2. Grown(b, h, p) /\ QueueInv(b, mine, C, F, p)
    BY <1>2 DEF Grown, Confl, Disputed, Lane
  <2>3. QueueInv(h, mine, C, F, p)
    BY <2>1, <2>2, QueueAccepts
  <2>4. C[p] # None => ToLocal(C[p], "synced") # None
    <3>1. C[p] # None => ToLocal(C[p], "synced") \in LocalRow
      BY <1>1 DEF ToLocal, LocalRow, Image, SyncStatus
    <3> QED BY <3>1, NoneIsNoData
  <2>5. C[p] = None <=> h.rows[p] = None
    BY <1>2, <2>4
  <2>6. C[p] # None => Shows(h, p, C[p])
    BY <1>2, <2>5 DEF Shows, ToLocal
  <2>7. RowInv(h, mine, O, C, F, p)
    BY <2>5, <2>6, RowInstalled
  <2> QED BY <2>3, <2>7 DEF Lane
<1> QED BY <1>3, <1>5 DEF h
-----------------------------------------------------------------------------
(* THE CYCLE OF A DEVICE                                                    *)

(* What is due is queued without a verdict, as it is sent, and in order.    *)
LEMMA DueAgrees ==
    ASSUME NEW own, NEW b \in Database, GoodQueue(b, own), GoodLinks(b), NEW limit \in Nat
    PROVE  LET due == Due(b, limit) IN
           ClaimsQueued(b, due) /\ \A n \in DOMAIN due : Agrees(b, due[n])
<1> DEFINE rows == b.queue
           I == {n \in DOMAIN rows : rows[n].status = "queued"}
           q == At(rows, I)
           L == IF Len(q) < limit THEN Len(q) ELSE limit
           due == Due(b, limit)
           T == QueueRow
<1>1. rows \in Seq(T) /\ I \in SUBSET DOMAIN rows
  BY DEF Database
<1>2. due = [n \in 1..L |-> q[n].op]
  BY DEF Due
<1> HIDE DEF rows, I, T
<1>3. /\ q \in Seq(T)
      /\ \A m \in DOMAIN q : \E n \in I : q[m] = rows[n]
      /\ \A m, k \in DOMAIN q : m < k => \E i, j \in I : i < j /\ q[m] = rows[i] /\ q[k] = rows[j]
  BY <1>1, AtElements
<1> HIDE DEF q
<1>4. Len(q) \in Nat /\ DOMAIN q = 1..Len(q) /\ L \in Nat /\ L <= Len(q)
  BY <1>3
<1> HIDE DEF due, L
<1>5. DOMAIN due = 1..L /\ \A n \in 1..L : n \in DOMAIN q /\ due[n] = q[n].op /\ n \in Nat
  BY <1>2, <1>4
<1>6. ASSUME NEW n \in DOMAIN due
      PROVE  \E i \in DOMAIN b.queue : due[n] = b.queue[i].op /\ b.queue[i].status = "queued"
  BY <1>3, <1>5, <1>6 DEF I, rows
<1>7. ASSUME NEW n \in DOMAIN due, IsProductOp(due[n])
      PROVE  due[n] \in Outbox(b)
  BY <1>6, <1>7 DEF Outbox
<1>8. ASSUME NEW n \in DOMAIN due, NEW k \in DOMAIN due, n < k
      PROVE  Before(b, due[n], due[k])
  <2>1. PICK i \in I, j \in I : i < j /\ q[n] = rows[i] /\ q[k] = rows[j]
    BY <1>3, <1>5, <1>8
  <2> QED BY <1>5, <2>1 DEF Before, I, rows
<1>9. ASSUME NEW n \in DOMAIN due PROVE Agrees(b, due[n])
  <2>1. PICK i \in DOMAIN b.queue : due[n] = b.queue[i].op
    BY <1>6
  <2> QED BY <2>1 DEF Agrees, GoodLinks, GoodQueue
<1> QED BY <1>7, <1>8, <1>9 DEF ClaimsQueued, due

(* What the cycle of a device has in hand: operations as they were sent,    *)
(* claimed without a verdict, the results told, and what they wrote.       *)
InHand(b, mine, C, F, ph, ops, r) ==
    /\ \A n \in DOMAIN ops : Agrees(b, ops[n])
    /\ ph \in {"waiting", "reconcile"} => ClaimsQueued(b, ops)
    /\ ph = "reconcile" => AllTold(C, ops, r.results)
    /\ ph = "apply" =>
        \A p \in Products : AheadRepaired(b, mine, F, Reconciled(r), r.from, r.to, p)

(* Claimed operations stay so when others join the queue. *)
LEMMA ClaimsStay ==
    ASSUME NEW b, NEW h, NEW none, none = {}, NEW new, Turns(b, h, none, new), NEW ops,
           ClaimsQueued(b, ops)
    PROVE  ClaimsQueued(h, ops)
<1>1. Outbox(b) \subseteq Outbox(h) /\ \A x, y \in Outbox(b) : Before(b, x, y) => Before(h, x, y)
  BY DEF Turns
<1> QED BY <1>1 DEF ClaimsQueued

(* It stays so over a transaction of its own that comes in between.         *)
LEMMA HandKept ==
    ASSUME NEW b, NEW h, NEW known, NEW none, none = {}, NEW new, NEW mine, NEW mine2, NEW C, NEW F,
           NEW ph, NEW ops, NEW r, Agreeing(b, h, known), \A n \in DOMAIN ops : ops[n] \in known,
           Turns(b, h, none, new), \A p \in Products : AheadKept(b, mine, F, h, mine2, F, p),
           InHand(b, mine, C, F, ph, ops, r)
    PROVE  InHand(h, mine2, C, F, ph, ops, r)
<1>1. \A n \in DOMAIN ops : Agrees(h, ops[n])
  BY DEF InHand, Agreeing
<1>2. ph \in {"waiting", "reconcile"} => ClaimsQueued(h, ops)
  BY ClaimsStay DEF InHand
<1>3. ASSUME ph = "apply", NEW p \in Products
      PROVE  AheadRepaired(h, mine2, F, Reconciled(r), r.from, r.to, p)
  <2>1. AheadRepaired(b, mine, F, Reconciled(r), r.from, r.to, p)
    BY <1>3 DEF InHand
  <2> QED BY <2>1 DEF AheadKept
<1>4. ph = "reconcile" => AllTold(C, ops, r.results)
  BY DEF InHand
<1> QED BY <1>1, <1>2, <1>3, <1>4 DEF InHand
-----------------------------------------------------------------------------
(* THE INVARIANT OF THE SYSTEM                                              *)

MadeIds(D) == {i.id : i \in D}

(* A device has its operations of the feed as they are there, and every     *)
(* product is as it has to be.                                             *)
Steady(b, own, mine, O, C, F) ==
    /\ \A s \in DOMAIN F : F[s].op \in own => Agrees(b, F[s].op)
    /\ \A p \in Products : Lane(b, mine, O, C, F, p)

CatalogRisen(C, O, F) == \A p \in Products : Risen(C, O, F, p)
OutcomesTold(C, out, known) ==
    \A id \in DOMAIN out : \E op \in known : op.id = id /\ Told(C, op, out[id])
RequestTold(b, C, ops, results) ==
    AllTold(C, ops, results) /\ \A n \in DOMAIN ops : Agrees(b, ops[n])
WireTold == \A q \in wire : RequestTold(db[q.device], catalog, q.ops, q.results)
StoresSteady ==
    \A d \in Devices :
        Steady(db[d], Own(done[d]), MadeIds(done[d]), plan.opening, catalog, feed)
HandsHold ==
    \A d \in Devices :
        InHand(db[d], MadeIds(done[d]), catalog, feed, phase[d], claimed[d], reply[d])

ConvInv ==
    /\ CatalogRisen(catalog, plan.opening, feed)
    /\ OutcomesTold(catalog, outcomes, Known(done))
    /\ WireTold
    /\ StoresSteady
    /\ HandsHold

(* The operations of a device are those of the mutations made there.        *)
LEMMA OwnIsMade ==
    ASSUME NEW pl, NEW D, PlanKept(pl, D), NEW d \in Devices, NEW op \in Known(D)
    PROVE  op \in Own(D[d]) <=> op.id[1] \in MadeIds(D[d])
<1>1. PICK e \in Devices : \E j \in D[e] : From(op, j)
  BY KnownIsFrom
<1>2. PICK j \in D[e] : From(op, j)
  BY <1>1
<1>3. op \in Operation /\ op.id[1] = j.id
  BY <1>2, KnownIsFrom DEF From
<1>4. ASSUME op.id[1] \in MadeIds(D[d]) PROVE op \in Own(D[d])
  <2>1. PICK i \in D[d] : i.id = j.id
    BY <1>3, <1>4 DEF MadeIds
  <2>2. d = e
    BY <2>1, OneIntent
  <2> QED BY <1>2, <1>3, <2>2 DEF Own
<1>5. op \in Own(D[d]) => op.id[1] \in MadeIds(D[d])
  BY DEF Own, From, MadeIds
<1> QED BY <1>4, <1>5

(* What the invariants say of one device. *)
LEMMA OnGround ==
    ASSUME IInv, TombInv, ConvInv, NEW d \in Devices
    PROVE  LET own == Own(done[d])  known == Known(done)  mine == MadeIds(done[d]) IN
           /\ Grounds(own, known, mine, plan.opening, catalog, feed)
           /\ Local(db[d], own, known, feed)
           /\ \A p \in Products : Lane(db[d], mine, plan.opening, catalog, feed, p)
           /\ InHand(db[d], mine, catalog, feed, phase[d], claimed[d], reply[d])
<1> DEFINE own == Own(done[d])
           known == Known(done)
           mine == MadeIds(done[d])
           O == plan.opening
<1>1. /\ World(own, known, feed) /\ PlanKept(plan, done)
      /\ Good(db[d], own, known, Accepted(feed))
  BY InWorld
<1>2. O \in [Products -> Image \cup {None}] /\ catalog \in [Products -> Image \cup {None}]
  BY PlansAreOfTheirKind DEF IInv, TypeOK
<1>3. \A op \in known : op \in own <=> op.id[1] \in mine
  BY <1>1, OwnIsMade
<1>4. ASSUME NEW p \in Products, O[p] # None /\ O[p].deleted
      PROVE  OfProduct(feed, p) = {}
  <2>1. \A s \in DOMAIN feed : IsProductOp(feed[s].op) => ~Ended(O, feed, feed[s].op.product, s - 1)
    BY DEF TombInv, ServerTombs, FeedTombs
  <2> QED BY <1>4, <2>1 DEF Ended, OfProduct, On
<1>5. \A p \in Products : Risen(catalog, O, feed, p)
  BY DEF ConvInv, CatalogRisen
<1>6. Steady(db[d], own, mine, O, catalog, feed)
      /\ InHand(db[d], mine, catalog, feed, phase[d], claimed[d], reply[d])
  BY DEF ConvInv, StoresSteady, HandsHold
<1> HIDE DEF own, known, mine, O
<1>7. Grounds(own, known, mine, O, catalog, feed)
  BY <1>1, <1>2, <1>3, <1>4, <1>5 DEF Grounds
<1>8. Local(db[d], own, known, feed) /\ \A p \in Products : Lane(db[d], mine, O, catalog, feed, p)
  BY <1>1, <1>6 DEF Local, Steady
<1> QED BY <1>6, <1>7, <1>8 DEF own, known, mine, O

(* A step of device d, which leaves its operations as they are, keeps the   *)
(* invariant when its database and its cycle are as they have to be.        *)
LEMMA DeviceKeepsConv ==
    ASSUME IInv, ConvInv, NEW d \in Devices, NEW e, db' = [db EXCEPT ![d] = e],
           UNCHANGED <<plan, server>>, Known(done) \subseteq Known(done)',
           \A c \in Devices \ {d} : /\ done'[c] = done[c] /\ phase'[c] = phase[c]
                                    /\ claimed'[c] = claimed[c] /\ reply'[c] = reply[c],
           Agreeing(db[d], e, Known(done)),
           Steady(e, Own(done'[d]), MadeIds(done'[d]), plan.opening, catalog, feed),
           InHand(e, MadeIds(done'[d]), catalog, feed, phase'[d], claimed'[d], reply'[d]),
           \A q \in wire' :
              \/ \E r \in wire : q.device = r.device /\ q.ops = r.ops /\ q.results = r.results
              \/ q.device = d /\ q.results = << >> /\ \A n \in DOMAIN q.ops : Agrees(e, q.ops[n])
    PROVE  ConvInv'
<1>1. catalog' = catalog /\ feed' = feed /\ outcomes' = outcomes /\ plan' = plan
  BY DEF server
<1>2. \A c \in Devices : db'[c] = IF c = d THEN e ELSE db[c]
  BY DEF IInv, TypeOK
<1>3. CatalogRisen(catalog', plan'.opening, feed')
  BY <1>1 DEF ConvInv
<1>4. OutcomesTold(catalog', outcomes', Known(done)')
  BY <1>1 DEF ConvInv, OutcomesTold
<1>5. StoresSteady'
  BY <1>1, <1>2 DEF ConvInv, StoresSteady
<1>6. HandsHold'
  BY <1>1, <1>2 DEF ConvInv, HandsHold
<1>7. WireTold'
  <2> SUFFICES ASSUME NEW q \in wire' PROVE RequestTold(db'[q.device], catalog, q.ops, q.results)
    BY <1>1 DEF WireTold
  <2>1. CASE q.device = d /\ q.results = << >> /\ \A n \in DOMAIN q.ops : Agrees(e, q.ops[n])
    <3>1. \A n \in DOMAIN << >> : FALSE
      OBVIOUS
    <3> QED BY <1>2, <2>1, <3>1 DEF RequestTold, AllTold
  <2>2. ASSUME NEW r \in wire, q.device = r.device, q.ops = r.ops, q.results = r.results
        PROVE  RequestTold(db'[q.device], catalog, q.ops, q.results)
    <3>1. RequestTold(db[r.device], catalog, r.ops, r.results) /\ r.device \in Devices
      BY DEF ConvInv, WireTold, IInv, TypeOK, Request
    <3>2. r.ops \in Seq(Operation) /\ \A n \in DOMAIN r.ops : r.ops[n] \in Known(done)
      <4>1. Batch(r.ops, Own(done[r.device]))
        BY DEF IInv, WireInv, RequestOk
      <4>2. Own(done[r.device]) \subseteq Known(done)
        BY <3>1 DEF Own, Known
      <4> QED BY <4>1, <4>2 DEF Batch
    <3>3. \A n \in DOMAIN r.ops : Agrees(db'[r.device], r.ops[n])
      BY <1>2, <3>1, <3>2 DEF RequestTold, Agreeing
    <3> QED BY <2>2, <3>1, <3>3 DEF RequestTold
  <2> QED BY <2>1, <2>2
<1> QED BY <1>3, <1>4, <1>5, <1>6, <1>7 DEF ConvInv

(* A database is good after a step. *)
LEMMA GoodNext ==
    ASSUME IInv', UNCHANGED <<done, feed>>, NEW d \in Devices
    PROVE  Good(db'[d], Own(done[d]), Known(done), Accepted(feed))
  BY DEF IInv, StoreInv, StoreOk

(* A transaction keeps what is said of the device, when it does of every    *)
(* product.                                                                *)
LEMMA SteadyKept ==
    ASSUME IInv, TombInv, ConvInv, NEW d \in Devices, NEW e,
           Good(e, Own(done[d]), Known(done), Accepted(feed)),
           Agreeing(db[d], e, Known(done)),
           \A p \in Products : Lane(e, MadeIds(done[d]), plan.opening, catalog, feed, p)
    PROVE  Steady(e, Own(done[d]), MadeIds(done[d]), plan.opening, catalog, feed)
<1> DEFINE own == Own(done[d])
           known == Known(done)
           mine == MadeIds(done[d])
           O == plan.opening
<1>1. Grounds(own, known, mine, O, catalog, feed) /\ Local(db[d], own, known, feed)
  BY OnGround
<1> HIDE DEF own, known, mine, O
<1>2. Local(e, own, known, feed)
  BY <1>1, LocalKept DEF own, known
<1> QED BY <1>2 DEF Local, Steady, own, mine, O

(* A write between two steps of the cycles keeps the invariant. *)
LEMMA LocalKeepsConv ==
    ASSUME IInv, TombInv, ConvInv, NEW d \in Devices, NEW e, db' = [db EXCEPT ![d] = e],
           UNCHANGED <<plan, done, device, server, wire>>,
           Good(e, Own(done[d]), Known(done), Accepted(feed)),
           Agreeing(db[d], e, Known(done)),
           NEW none, none = {}, NEW new, Turns(db[d], e, none, new),
           \A p \in Products :
               /\ Lane(e, MadeIds(done[d]), plan.opening, catalog, feed, p)
               /\ AheadKept(db[d], MadeIds(done[d]), feed, e, MadeIds(done[d]), feed, p)
    PROVE  ConvInv'
<1> DEFINE mine == MadeIds(done[d])
           known == Known(done)
<1>1. Steady(e, Own(done[d]), mine, plan.opening, catalog, feed)
  BY SteadyKept
<1>2. InHand(db[d], mine, catalog, feed, phase[d], claimed[d], reply[d])
  BY OnGround
<1>3. \A n \in DOMAIN claimed[d] : claimed[d][n] \in known
  <2>1. Batch(claimed[d], Own(done[d])) /\ Own(done[d]) \subseteq known
    BY InWorld DEF CycleOk, World, Family
  <2> QED BY <2>1 DEF Batch
<1> HIDE DEF mine, known
<1>4. InHand(e, mine, catalog, feed, phase[d], claimed[d], reply[d])
  <2> DEFINE b == db[d]
             ops == claimed[d]
             ph == phase[d]
             r == reply[d]
             C == catalog
             F == feed
  <2>1. /\ Agreeing(b, e, known) /\ Turns(b, e, none, new) /\ \A n \in DOMAIN ops : ops[n] \in known
        /\ \A p \in Products : AheadKept(b, mine, F, e, mine, F, p)
        /\ InHand(b, mine, C, F, ph, ops, r)
    BY <1>2, <1>3 DEF mine, known
  <2> HIDE DEF b, ops, ph, r, C, F
  <2>2. InHand(e, mine, C, F, ph, ops, r)
    BY <2>1, HandKept
  <2> QED BY <2>2 DEF ops, ph, r, C, F
<1>5. done' = done /\ phase' = phase /\ claimed' = claimed /\ reply' = reply /\ wire' = wire
      /\ UNCHANGED <<plan, server>>
  BY DEF device
<1>6. Known(done) \subseteq Known(done)'
  BY <1>5
<1> QED BY <1>1, <1>4, <1>5, <1>6, DeviceKeepsConv DEF mine

(* A quiet one does. *)
LEMMA QuietSteady ==
    ASSUME IInv, TombInv, ConvInv, NEW d \in Devices, NEW e, Quiet(db[d], e, Known(done)),
           Good(e, Own(done[d]), Known(done), Accepted(feed))
    PROVE  /\ Agreeing(db[d], e, Known(done)) /\ Turns(db[d], e, {}, {})
           /\ \A p \in Products :
               /\ Lane(e, MadeIds(done[d]), plan.opening, catalog, feed, p)
               /\ AheadKept(db[d], MadeIds(done[d]), feed, e, MadeIds(done[d]), feed, p)
           /\ Steady(e, Own(done[d]), MadeIds(done[d]), plan.opening, catalog, feed)
<1> DEFINE own == Own(done[d])
           known == Known(done)
           mine == MadeIds(done[d])
           O == plan.opening
           C == catalog
           F == feed
           b == db[d]
<1>1. /\ Grounds(own, known, mine, O, C, F) /\ Local(b, own, known, F) /\ Quiet(b, e, known)
      /\ \A p \in Products : Lane(b, mine, O, C, F, p)
  BY OnGround
<1> HIDE DEF own, known, mine, O, C, F, b
<1>2. \A p \in Products : Lane(e, mine, O, C, F, p) /\ AheadKept(b, mine, F, e, mine, F, p)
  BY <1>1, QuietLane
<1>3. Agreeing(b, e, known) /\ Turns(b, e, {}, {})
  BY <1>1 DEF Quiet
<1>4. Steady(e, own, mine, O, C, F)
  BY <1>2, <1>3, SteadyKept DEF own, known, mine, O, C, F, b
<1> QED BY <1>2, <1>3, <1>4 DEF own, known, mine, O, C, F, b

(* The end of a retry delay. *)
LEMMA ElapsesConv ==
    ASSUME IInv, TombInv, ConvInv, NEW d \in Devices, Elapses(d)
    PROVE  ConvInv'
<1>1. PICK id \in QueuedIds(db[d]) : Elapse(d, id)
  BY DEF Elapses
<1> DEFINE e == Restatus(db[d], {id}, "retrying", "queued")
           none == {}
<1>2. db' = [db EXCEPT ![d] = e] /\ UNCHANGED <<plan, done, device, server, wire>>
  BY <1>1 DEF Elapse
<1>3. Good(e, Own(done[d]), Known(done), Accepted(feed))
  BY InWorld, Restatused
<1>4. Quiet(db[d], e, Known(done))
  BY InWorld, RestatusQuiet
<1> HIDE DEF e, none
<1>5. Turns(db[d], e, none, none)
  BY <1>3, <1>4, QuietSteady DEF none
<1>6. none = {}
  BY DEF none
<1>7. /\ Agreeing(db[d], e, Known(done))
      /\ \A p \in Products :
            /\ Lane(e, MadeIds(done[d]), plan.opening, catalog, feed, p)
            /\ AheadKept(db[d], MadeIds(done[d]), feed, e, MadeIds(done[d]), feed, p)
  BY <1>3, <1>4, QuietSteady
<1> QED BY <1>2, <1>3, <1>5, <1>6, <1>7, LocalKeepsConv

(* A choice on the conflict page. *)
LEMMA UserResolvesConv ==
    ASSUME IInv, TombInv, ConvInv, NEW d \in Devices, NEW c \in db[d].conflicts,
           NEW choice \in Offers(c), UserResolves(d, c, choice)
    PROVE  ConvInv'
<1> DEFINE own == Own(done[d])
           known == Known(done)
           mine == MadeIds(done[d])
           O == plan.opening
           C == catalog
           F == feed
           b == db[d]
           e == Resolve(b, c, choice)
           none == {}
           new == IF choice = "reviewed" THEN none ELSE {RetryOf(c, choice)}
<1>1. /\ e # None /\ db' = [db EXCEPT ![d] = e] /\ c.resolution = "unresolved"
      /\ UNCHANGED <<plan, done, device, server, wire>>
  BY DEF UserResolves
<1>2. /\ Grounds(own, known, mine, O, C, F) /\ Local(b, own, known, F)
      /\ \A p \in Products : Lane(b, mine, O, C, F, p)
  BY OnGround
<1>3. Family(own, known) /\ Good(b, own, known, Accepted(F)) /\ c \in b.conflicts
  BY InWorld DEF World
<1> HIDE DEF own, known, mine, O, C, F, b
<1>4. Good(e, own, known, Accepted(F))
  BY <1>1, <1>3, Resolved
<1>5. /\ Agreeing(b, e, known) /\ Turns(b, e, none, new)
      /\ \A p \in Products : Lane(e, mine, O, C, F, p) /\ AheadKept(b, mine, F, e, mine, F, p)
  <2>1. CASE choice # "reviewed"
    <3> DEFINE next == RetryOf(c, choice)
    <3>1. Retrying(b, e, c, next)
      BY <1>1, <1>3, <2>1, RetryWrites
    <3> HIDE DEF next, e, none
    <3>2. /\ Agreeing(b, e, known) /\ Turns(b, e, {}, {next})
          /\ \A p \in Products : Lane(e, mine, O, C, F, p) /\ AheadKept(b, mine, F, e, mine, F, p)
      BY <1>1, <1>2, <1>3, <3>1, RetryLanes
    <3> QED BY <2>1, <3>2 DEF next, none
  <2>2. CASE choice = "reviewed"
    <3>1. e = Settling(b, c, "reviewed")
      BY <2>2 DEF Resolve, Settling
    <3> DEFINE h == Settling(b, c, "reviewed")
    <3>2. /\ h.cursor = b.cursor /\ Agreeing(b, h, known) /\ Turns(b, h, {}, {})
          /\ \A p \in Products : Lane(h, mine, O, C, F, p) /\ AheadKept(b, mine, F, h, mine, F, p)
      BY <1>1, <1>2, <1>3, ReviewLanes
    <3> HIDE DEF h, e
    <3> QED BY <2>2, <3>1, <3>2 DEF h
  <2> QED BY <2>1, <2>2
<1> HIDE DEF e, new
<1>6. none = {}
  OBVIOUS
<1> HIDE DEF none
<1> QED BY <1>1, <1>4, <1>5, <1>6, LocalKeepsConv DEF own, known, mine, O, C, F, b

(* A quiet transaction ends the cycle of a device; the requests that are    *)
(* left have nothing new.                                                  *)
LEMMA EndsConv ==
    ASSUME IInv, TombInv, ConvInv, NEW d \in Devices, NEW e, db' = [db EXCEPT ![d] = e], Idle(d),
           Good(e, Own(done[d]), Known(done), Accepted(feed)),
           Agreeing(db[d], e, Known(done)),
           Steady(e, Own(done[d]), MadeIds(done[d]), plan.opening, catalog, feed),
           UNCHANGED <<plan, done, server>>,
           \A q \in wire' : \E r \in wire : q.device = r.device /\ q.ops = r.ops /\ q.results = r.results
    PROVE  ConvInv'
<1>1. phase'[d] = "idle" /\ claimed'[d] = << >>
  BY DEF Idle, IInv, TypeOK
<1>2. InHand(e, MadeIds(done[d]), catalog, feed, phase'[d], claimed'[d], reply'[d])
  BY <1>1 DEF InHand
<1>3. \A c \in Devices \ {d} : /\ done'[c] = done[c] /\ phase'[c] = phase[c]
                               /\ claimed'[c] = claimed[c] /\ reply'[c] = reply[c]
  BY DEF Idle, IInv, TypeOK
<1>4. done' = done /\ Known(done) \subseteq Known(done)'
  OBVIOUS
<1> QED BY <1>2, <1>3, <1>4, DeviceKeepsConv

(* What is left of the requests. *)
LEMMA AbandonedAsBefore ==
    ASSUME IInv, NEW d \in Devices, NEW q \in Abandoned(d)
    PROVE  \E r \in wire : q.device = r.device /\ q.ops = r.ops /\ q.results = r.results
<1>1. PICK r \in wire : q = IF r.device = d THEN [r EXCEPT !.live = FALSE] ELSE r
  BY DEF Abandoned
<1>2. r \in Request
  BY DEF IInv, TypeOK
<1> QED BY <1>1, <1>2 DEF Request

(* A failed exchange. *)
LEMMA ExchangeFailsConv ==
    ASSUME IInv, TombInv, ConvInv, NEW d \in Devices, NEW kind,
           NEW status \in {"retrying", "queued", "parked"}, ExchangeFails(d, kind, status)
    PROVE  ConvInv'
<1> DEFINE e == Restatus(db[d], Ids(claimed[d]), "inflight", status)
<1>1. db' = [db EXCEPT ![d] = e] /\ Idle(d) /\ wire' = Abandoned(d) /\ UNCHANGED <<plan, done, server>>
  BY DEF ExchangeFails
<1>2. Good(e, Own(done[d]), Known(done), Accepted(feed))
  BY InWorld, Restatused
<1>3. Quiet(db[d], e, Known(done))
  BY InWorld, RestatusQuiet
<1> HIDE DEF e
<1>4. Agreeing(db[d], e, Known(done))
      /\ Steady(e, Own(done[d]), MadeIds(done[d]), plan.opening, catalog, feed)
  BY <1>2, <1>3, QuietSteady
<1>5. \A q \in wire' : \E r \in wire : q.device = r.device /\ q.ops = r.ops /\ q.results = r.results
  BY <1>1, AbandonedAsBefore
<1> QED BY <1>1, <1>2, <1>4, <1>5, EndsConv

(* A stop of the app. *)
LEMMA CrashConv ==
    ASSUME IInv, TombInv, ConvInv, NEW d \in Devices, Crash(d)
    PROVE  ConvInv'
<1>1. Idle(d) /\ wire' = Abandoned(d) /\ UNCHANGED <<plan, db, done, server>>
  BY DEF Crash
<1>2. db' = [db EXCEPT ![d] = db[d]]
  BY <1>1 DEF IInv, TypeOK
<1>3. Good(db[d], Own(done[d]), Known(done), Accepted(feed))
  BY InWorld
<1>4. Agreeing(db[d], db[d], Known(done))
  BY DEF Agreeing
<1>5. Steady(db[d], Own(done[d]), MadeIds(done[d]), plan.opening, catalog, feed)
  BY DEF ConvInv, StoresSteady
<1>6. \A q \in wire' : \E r \in wire : q.device = r.device /\ q.ops = r.ops /\ q.results = r.results
  BY <1>1, AbandonedAsBefore
<1> QED BY <1>1, <1>2, <1>3, <1>4, <1>5, <1>6, EndsConv

(* A local transaction that throws. *)
LEMMA ReleaseConv ==
    ASSUME IInv, TombInv, ConvInv, NEW d \in Devices, ReleaseAndStop(d),
           UNCHANGED <<plan, done, server, wire>>
    PROVE  ConvInv'
<1> DEFINE e == Restatus(db[d], Ids(claimed[d]), "inflight", "queued")
<1>1. db' = [db EXCEPT ![d] = e] /\ Idle(d)
  BY DEF ReleaseAndStop
<1>2. Good(e, Own(done[d]), Known(done), Accepted(feed))
  BY InWorld, Restatused
<1>3. Quiet(db[d], e, Known(done))
  BY InWorld, RestatusQuiet
<1> HIDE DEF e
<1>4. Agreeing(db[d], e, Known(done))
      /\ Steady(e, Own(done[d]), MadeIds(done[d]), plan.opening, catalog, feed)
  BY <1>2, <1>3, QuietSteady
<1> QED BY <1>1, <1>2, <1>4, EndsConv

(* A request that is sent. *)
LEMMA SendConv ==
    ASSUME IInv, TombInv, ConvInv, NEW d \in Devices, NEW e, db' = [db EXCEPT ![d] = e],
           NEW ops, NEW cursor, Send(d, ops, cursor),
           Agreeing(db[d], e, Known(done)),
           Steady(e, Own(done[d]), MadeIds(done[d]), plan.opening, catalog, feed),
           ClaimsQueued(e, ops), \A n \in DOMAIN ops : Agrees(e, ops[n]),
           UNCHANGED <<plan, done, server>>
    PROVE  ConvInv'
<1> DEFINE new == Sent(d, ops, cursor)
<1>1. phase'[d] = "waiting" /\ claimed'[d] = ops
  BY DEF Send, IInv, TypeOK
<1>2. InHand(e, MadeIds(done[d]), catalog, feed, phase'[d], claimed'[d], reply'[d])
  BY <1>1 DEF InHand
<1>3. \A c \in Devices \ {d} : /\ done'[c] = done[c] /\ phase'[c] = phase[c]
                               /\ claimed'[c] = claimed[c] /\ reply'[c] = reply[c]
  BY DEF Send, IInv, TypeOK
<1>4. done' = done /\ Known(done) \subseteq Known(done)'
  OBVIOUS
<1>5. wire' = wire \cup {new} /\ new.device = d /\ new.results = << >> /\ new.ops = ops
  BY DEF Send, Sent
<1> HIDE DEF new
<1>6. \A q \in wire' :
         \/ \E r \in wire : q.device = r.device /\ q.ops = r.ops /\ q.results = r.results
         \/ q.device = d /\ q.results = << >> /\ \A n \in DOMAIN q.ops : Agrees(e, q.ops[n])
  BY <1>5
<1> QED BY <1>2, <1>3, <1>4, <1>6, DeviceKeepsConv

(* The recovery and claim that begin a cycle. *)
LEMMA BeginConv ==
    ASSUME IInv, TombInv, ConvInv, NEW d \in Devices, Begin(d)
    PROVE  ConvInv'
<1> DEFINE own == Own(done[d])
           known == Known(done)
           b == Recover(db[d])
           due == Due(b, MaxOperations)
           sendable == \A n \in DOMAIN due : Sendable(due[n])
           status == IF sendable THEN "inflight" ELSE "parked"
           e == Restatus(b, Ids(due), "queued", status)
<1>1. /\ db' = [db EXCEPT ![d] = e]
      /\ IF sendable THEN Send(d, due, db[d].cursor) ELSE UNCHANGED <<device, wire>>
      /\ UNCHANGED <<plan, done, server>>
  BY DEF Begin
<1>2. Good(b, own, known, Accepted(feed)) /\ Quiet(db[d], b, known)
  <2>1. Good(db[d], own, known, Accepted(feed))
    BY InWorld
  <2> HIDE DEF own, known
  <2> QED BY <2>1, Restatused, RestatusQuiet DEF Recover
<1>3. ClaimsQueued(b, due) /\ \A n \in DOMAIN due : Agrees(b, due[n]) /\ due[n] \in known
  <2>1. b \in Database /\ GoodQueue(b, own) /\ GoodLinks(b) /\ MaxOperations \in Nat
    BY <1>2, LimitsArePositive DEF Good
  <2>2. own \subseteq known
    BY InWorld DEF World, Family
  <2> HIDE DEF b, own, known
  <2>3. ClaimsQueued(b, due) /\ \A n \in DOMAIN due : Agrees(b, due[n])
    BY <2>1, DueAgrees
  <2>4. \A n \in DOMAIN due : due[n] \in own
    BY <2>1, DueOperations
  <2> QED BY <2>2, <2>3, <2>4
<1>4. status \in {"queued", "retrying", "inflight", "parked"}
  OBVIOUS
<1> HIDE DEF b, due, sendable, status
<1>5. Good(e, own, known, Accepted(feed)) /\ Quiet(b, e, known)
  <2> HIDE DEF own, known
  <2> QED BY <1>2, <1>4, Restatused, RestatusQuiet
<1> HIDE DEF e
<1>6. Quiet(db[d], e, known)
  <2> HIDE DEF known
  <2> QED BY <1>2, <1>5, QuietOn
<1> DEFINE none == {}
<1>7. /\ Agreeing(db[d], e, known) /\ Turns(db[d], e, none, none)
      /\ \A p \in Products :
            /\ Lane(e, MadeIds(done[d]), plan.opening, catalog, feed, p)
            /\ AheadKept(db[d], MadeIds(done[d]), feed, e, MadeIds(done[d]), feed, p)
      /\ Steady(e, own, MadeIds(done[d]), plan.opening, catalog, feed)
  BY <1>5, <1>6, QuietSteady
<1>8. CASE ~sendable
  <2> HIDE DEF none
  <2>1. none = {}
    BY DEF none
  <2> QED BY <1>1, <1>5, <1>7, <1>8, <2>1, LocalKeepsConv
<1>9. CASE sendable
  <2>1. Agreeing(b, e, known) /\ Turns(b, e, none, none)
    BY <1>5 DEF Quiet
  <2>2. \A n \in DOMAIN due : Agrees(e, due[n])
    BY <1>3, <2>1 DEF Agreeing
  <2>3. none = {}
    OBVIOUS
  <2> HIDE DEF none, known, own
  <2>4. ClaimsQueued(e, due)
    BY <1>3, <2>1, <2>3, ClaimsStay
  <2>5. Send(d, due, db[d].cursor)
    BY <1>1, <1>9
  <2> QED BY <1>1, <1>7, <2>2, <2>4, <2>5, SendConv DEF known, own
<1> QED BY <1>8, <1>9

(* The reconciliation of the results. *)
LEMMA ReconcileConv ==
    ASSUME IInv, TombInv, ConvInv, NEW d \in Devices, ReconcileResults(d)
    PROVE  ConvInv'
<1> DEFINE ops == claimed[d]
           r == reply[d]
           own == Own(done[d])
           known == Known(done)
           mine == MadeIds(done[d])
           page == Page(r)
           b == db[d]
           O == plan.opening
           e == Reconcile(b, ops, r.results, page)
<1>1. /\ phase[d] = "reconcile"
      /\ e = None => ReleaseAndStop(d)
      /\ e # None => /\ db' = [db EXCEPT ![d] = e]
                     /\ phase' = [phase EXCEPT ![d] = "apply"]
                     /\ UNCHANGED <<claimed, reply>>
      /\ UNCHANGED <<plan, done, server, wire>>
  BY DEF ReconcileResults
<1>2. Batch(ops, own) /\ ReplyOk(r, ops, b.cursor, feed)
  BY <1>1, InWorld DEF CycleOk
<1>3. /\ Grounds(own, known, mine, O, catalog, feed) /\ Local(b, own, known, feed)
      /\ \A p \in Products : Lane(b, mine, O, catalog, feed, p)
      /\ InHand(b, mine, catalog, feed, phase[d], ops, r)
  BY OnGround
<1>4. World(own, known, feed) /\ feed \in Seq(Change) /\ Family(own, known) /\ b.cursor \in Nat
  BY InWorld DEF World, Good, Database
<1>5. /\ Len(ops) \in Nat /\ DOMAIN ops = 1..Len(ops)
      /\ DOMAIN r.results = 1..Len(ops)
      /\ \A n \in 1..Len(ops) :
            ops[n] \in own /\ OpFits(ops[n]) /\ ResultFits(ops[n], r.results[n], feed)
      /\ r.from \in Nat /\ r.to \in Nat /\ DOMAIN page = r.from + 1 .. r.to
      /\ \A s \in r.from + 1 .. r.to : s \in DOMAIN feed
  <2> HIDE DEF ops, r, own, known, b
  <2> QED BY <1>2, <1>4, AnswerFits
<1>6. PageOf(page, feed)
  BY <1>5 DEF PageOf, Page
<1>7. CASE e = None
  BY <1>1, <1>7, ReleaseConv
<1>8. CASE e # None
  <2> DEFINE N == Len(ops)
             results == r.results
             from == r.from
             to == r.to
  <2>1. /\ Local(e, own, known, feed) /\ Agreeing(b, e, known) /\ e.cursor = b.cursor
        /\ \A p \in Products :
             /\ Lane(e, mine, O, catalog, feed, p)
             /\ AheadRepaired(e, mine, feed, WrittenBy(results, N), from, to, p)
    <3>1. \A n \in 1..N : Told(catalog, ops[n], results[n])
      BY <1>1, <1>3, <1>5 DEF InHand, AllTold
    <3>2. ClaimsQueued(b, ops) /\ \A n \in 1..N : Agrees(b, ops[n])
      BY <1>1, <1>3, <1>5 DEF InHand
    <3>3. N \in Nat /\ DOMAIN ops = 1..N /\ from \in Nat /\ to \in Nat /\ DOMAIN page = from + 1 .. to
          /\ b.cursor <= from
          /\ \A n \in 1..N : ops[n] \in own /\ OpFits(ops[n]) /\ ResultFits(ops[n], results[n], feed)
      BY <1>2, <1>4, <1>5 DEF ReplyOk
    <3>4. Reconcile(b, ops, results, page) # None
      BY <1>8
    <3> HIDE DEF ops, own, known, mine, page, b, O, N, results, from, to
    <3>5. \A n \in 1..N : ops[n] \in own /\ OpFits(ops[n]) /\ ResultFits(ops[n], results[n], feed)
                          /\ Told(catalog, ops[n], results[n])
      BY <3>1, <3>3
    <3>6. LET h == Reconcile(b, ops, results, page) IN
          /\ Local(h, own, known, feed) /\ Agreeing(b, h, known) /\ h.cursor = b.cursor
          /\ \A p \in Products :
               /\ Lane(h, mine, O, catalog, feed, p)
               /\ AheadRepaired(h, mine, feed, WrittenBy(results, N), from, to, p)
      BY <1>3, <1>4, <1>6, <3>2, <3>3, <3>4, <3>5, BatchLanes
    <3> QED BY <3>6 DEF results
  <2>2. WrittenBy(results, N) = Reconciled(r)
    BY <1>5 DEF WrittenBy, Reconciled
  <2>3. db' = [db EXCEPT ![d] = e] /\ phase'[d] = "apply" /\ claimed'[d] = ops /\ reply'[d] = r
        /\ \A c \in Devices \ {d} : /\ done'[c] = done[c] /\ phase'[c] = phase[c]
                                    /\ claimed'[c] = claimed[c] /\ reply'[c] = reply[c]
    BY <1>1, <1>8 DEF IInv, TypeOK
  <2> HIDE DEF e
  <2>4. Steady(e, own, mine, O, catalog, feed)
    BY <2>1 DEF Steady, Local
  <2>5. \A n \in DOMAIN ops : ops[n] \in known
    BY <1>4, <1>5 DEF Family
  <2>6. InHand(e, mine, catalog, feed, "apply", ops, r)
    BY <1>3, <2>1, <2>2, <2>5 DEF InHand, Agreeing
  <2>7. done' = done /\ UNCHANGED <<plan, server>> /\ wire' = wire /\ Known(done) \subseteq Known(done)'
    BY <1>1
  <2> QED BY <2>1, <2>3, <2>4, <2>6, <2>7, DeviceKeepsConv
<1> QED BY <1>7, <1>8

(* A page. *)
LEMMA ApplyConv ==
    ASSUME IInv, TombInv, ConvInv, NEW d \in Devices, ApplyChanges(d)
    PROVE  ConvInv'
<1> DEFINE r == reply[d]
           own == Own(done[d])
           known == Known(done)
           mine == MadeIds(done[d])
           b == db[d]
           O == plan.opening
           S == Reconciled(r)
           N == r.to - r.from
           changes == [n \in 1..N |-> feed[r.from + n]]
           fresh == {n \in DOMAIN changes : r.from + n \notin S}
           e == ApplyPage(b, r.from, changes, fresh, r.to)
<1>1. /\ phase[d] = "apply"
      /\ e = None => ReleaseAndStop(d) /\ UNCHANGED wire
      /\ e # None => /\ db' = [db EXCEPT ![d] = e]
                     /\ IF r.more THEN Send(d, << >>, r.to) ELSE Idle(d) /\ UNCHANGED wire
      /\ UNCHANGED <<plan, done, server>>
  BY DEF ApplyChanges
<1>2. Batch(claimed[d], own) /\ ReplyOk(r, claimed[d], b.cursor, feed)
  BY <1>1, InWorld DEF CycleOk
<1>3. /\ Grounds(own, known, mine, O, catalog, feed) /\ Local(b, own, known, feed)
      /\ \A p \in Products : Lane(b, mine, O, catalog, feed, p)
      /\ InHand(b, mine, catalog, feed, phase[d], claimed[d], r)
      /\ feed \in Seq(Change)
  BY OnGround, InWorld
<1>4. r.from \in Nat /\ r.to \in Nat /\ r.from = b.cursor /\ r.from <= r.to /\ r.to <= Len(feed)
  BY <1>2 DEF ReplyOk, Response
<1>5. N \in Nat /\ DOMAIN changes = 1..N /\ r.from + N = r.to /\ \A s \in 1..r.to : s \in DOMAIN feed
  BY <1>3, <1>4
<1>6. ChangesAfter(changes, r.from, N, feed)
  <2>1. ASSUME NEW n \in 1..N PROVE r.from + n \in DOMAIN feed /\ changes[n] = feed[r.from + n]
    <3>1. r.from + n \in 1..r.to
      BY <1>4
    <3> QED BY <1>5, <3>1
  <2> HIDE DEF changes
  <2> QED BY <1>5, <2>1 DEF ChangesAfter
<1>7. CASE e = None
  BY <1>1, <1>7, ReleaseConv
<1>8. CASE e # None
  <2>1. /\ Agreeing(b, e, known) /\ Local(e, own, known, feed)
        /\ \A p \in Products : Lane(e, mine, O, catalog, feed, p)
    <3> DEFINE from == r.from
    <3>1. Unwritten(fresh, S, from, N)
      BY <1>5 DEF Unwritten
    <3>2. \A p \in Products : Lane(b, mine, O, catalog, feed, p)
            /\ AheadRepaired(b, mine, feed, S, from, from + N, p)
      BY <1>1, <1>3, <1>5 DEF InHand
    <3>3. from \in Nat /\ ApplyPage(b, from, changes, fresh, from + N) # None
          /\ ChangesAfter(changes, from, N, feed) /\ b.cursor = from
      BY <1>4, <1>5, <1>6, <1>8
    <3>4. e = ApplyPage(b, from, changes, fresh, from + N)
      BY <1>5
    <3> HIDE DEF from, changes, fresh, N, own, known, mine, b, O, S, e, r
    <3>5. LET h == ApplyPage(b, from, changes, fresh, from + N) IN
          /\ Agreeing(b, h, known) /\ Local(h, own, known, feed)
          /\ \A p \in Products : Lane(h, mine, O, catalog, feed, p)
      BY <1>3, <1>5, <3>1, <3>2, <3>3, PageLanes
    <3> QED BY <3>4, <3>5
  <2> HIDE DEF e
  <2>2. Steady(e, own, mine, O, catalog, feed) /\ Good(e, own, known, Accepted(feed))
    BY <2>1 DEF Steady, Local
  <2>3. db' = [db EXCEPT ![d] = e]
    BY <1>1, <1>8
  <2>4. CASE r.more
    <3>1. PICK ops : ops = << >>
      OBVIOUS
    <3>2. Send(d, ops, r.to)
      BY <1>1, <1>8, <2>4, <3>1
    <3>3. ClaimsQueued(e, ops) /\ \A n \in DOMAIN ops : Agrees(e, ops[n])
      BY <3>1 DEF ClaimsQueued
    <3> QED BY <1>1, <2>1, <2>2, <2>3, <3>2, <3>3, SendConv
  <2>5. CASE ~r.more
    <3>1. Idle(d) /\ UNCHANGED wire
      BY <1>1, <1>8, <2>5
    <3>2. \A q \in wire' : \E s \in wire : q.device = s.device /\ q.ops = s.ops /\ q.results = s.results
      BY <3>1
    <3> QED BY <1>1, <2>1, <2>2, <2>3, <3>1, <3>2, EndsConv
  <2> QED BY <2>4, <2>5
<1> QED BY <1>7, <1>8

(* A snapshot that is installed between two cycles. *)
LEMMA BootstrapConv ==
    ASSUME IInv, IInv', TombInv, ConvInv, NEW d \in Devices, Bootstrap(d)
    PROVE  ConvInv'
<1> DEFINE own == Own(done[d])
           known == Known(done)
           mine == MadeIds(done[d])
           b == db[d]
           O == plan.opening
           C == catalog
           F == feed
           snapshot == Snapshot
           e == Install(b, snapshot)
<1>1. /\ phase[d] = "idle" /\ db' = [db EXCEPT ![d] = e]
      /\ UNCHANGED <<plan, done, device, server, wire>>
  BY DEF Bootstrap
<1>2. db'[d] = e
  BY <1>1 DEF IInv, TypeOK
<1>3. /\ Grounds(own, known, mine, O, C, F) /\ Local(b, own, known, F)
      /\ \A p \in Products : Lane(b, mine, O, C, F, p)
      /\ InHand(b, mine, C, F, phase[d], claimed[d], reply[d])
  BY OnGround
<1>4. snapshot.products = C
  BY DEF Snapshot
<1>5. /\ done' = done /\ phase' = phase /\ claimed' = claimed /\ reply' = reply /\ wire' = wire
      /\ UNCHANGED <<plan, server>> /\ feed' = feed
  BY <1>1 DEF device, server
<1>6. Good(e, own, known, Accepted(F))
  <2> HIDE DEF e
  <2> QED BY <1>2, <1>5, GoodNext
<1> HIDE DEF snapshot, own, known, mine, b, O, C, F
<1>7. Agreeing(b, e, known) /\ \A p \in Products : Lane(e, mine, O, C, F, p)
  <2>1. LET h == Install(b, snapshot) IN
        Agreeing(b, h, known) /\ \A p \in Products : Lane(h, mine, O, C, F, p)
    BY <1>3, <1>4, InstallLanes
  <2> QED BY <2>1
<1> HIDE DEF e
<1>8. Steady(e, own, mine, O, C, F)
  BY <1>6, <1>7, SteadyKept DEF own, known, mine, b, O, C, F
<1>9. \A n \in DOMAIN claimed[d] : claimed[d][n] \in known
  <2>1. Batch(claimed[d], Own(done[d])) /\ Own(done[d]) \subseteq known
    BY InWorld DEF CycleOk, World, Family, known
  <2> QED BY <2>1 DEF Batch
<1>10. InHand(e, mine, C, F, phase[d], claimed[d], reply[d])
  BY <1>1, <1>3, <1>7, <1>9 DEF InHand, Agreeing
<1>11. Known(done) \subseteq Known(done)'
  BY <1>5
<1> QED BY <1>1, <1>5, <1>7, <1>8, <1>10, <1>11, DeviceKeepsConv DEF own, known, mine, b, O, C, F

(* A mutation. *)
LEMMA UserMutatesConv ==
    ASSUME IInv, TombInv, ConvInv, NEW d \in Devices, NEW i \in plan.intents[d], UserMutates(d, i)
    PROVE  ConvInv'
<1> DEFINE own == Own(done[d])
           known == Known(done)
           mine == MadeIds(done[d])
           E == [done EXCEPT ![d] = @ \cup {i}]
           mine2 == MadeIds(E[d])
           b == db[d]
           O == plan.opening
           C == catalog
           F == feed
           e == Mutate(b, i)
           x == OperationFor(b, i)
           none == {}
           new == IF IsProductOp(x) THEN {x} ELSE none
<1>1. /\ i \notin done[d] /\ e # None /\ db' = [db EXCEPT ![d] = e] /\ done' = E
      /\ UNCHANGED <<plan, device, server, wire>>
  BY DEF UserMutates
<1>2. /\ PlanKept(plan, done) /\ b \in Database /\ F \in Seq(Change) /\ World(own, known, F)
      /\ Batch(claimed[d], own)
  BY InWorld DEF Good, CycleOk
<1>3. i \in Intent /\ (i.kind = "count" => i.qty \in Nat)
  <2>1. plan \in Plans /\ plan.intents[d] \subseteq Intent
    BY <1>2, PlansAreOfTheirKind DEF PlanKept
  <2> QED BY <2>1, CountsAreNatural
<1>4. E \in [Devices -> SUBSET Intent] /\ E[d] = done[d] \cup {i}
      /\ \A c \in Devices : c # d => E[c] = done[c]
  BY <1>2, <1>3 DEF PlanKept
<1>5. PlanKept(plan, E) /\ Grows(done, E)
  BY <1>2, <1>4 DEF PlanKept, Grows
<1>6. known \subseteq Known(E)
  BY <1>5, OwnGrows
<1>7. mine \subseteq mine2
  BY <1>4 DEF MadeIds
<1>8. ASSUME NEW op \in known, op \in Own(E[d]) PROVE op \in own
  <2>1. op \in Known(E)
    BY <1>6
  <2> HIDE DEF E
  <2>2. op.id[1] \in MadeIds(E[d])
    BY <1>5, <1>8, <2>1, OwnIsMade
  <2>3. PICK c \in Devices : \E k \in done[c] : From(op, k)
    BY <1>2, KnownIsFrom
  <2>4. PICK k \in done[c] : From(op, k)
    BY <2>3
  <2>5. PICK j \in E[d] : j.id = op.id[1]
    BY <2>2 DEF MadeIds
  <2>6. k \in E[c] /\ k.id = j.id /\ op \in Operation
    BY <1>2, <1>5, <2>4, <2>5, KnownIsFrom DEF Grows, From
  <2>7. c = d
    BY <1>5, <2>6, OneIntent
  <2> QED BY <2>4, <2>6, <2>7 DEF Own
<1>9. /\ Grounds(own, known, mine, O, C, F) /\ Local(b, own, known, F)
      /\ \A p \in Products : Lane(b, mine, O, C, F, p)
      /\ InHand(b, mine, C, F, phase[d], claimed[d], reply[d])
  BY OnGround
<1>10. /\ Intending(b, e, x)
       /\ x \in Operation /\ x.id = <<i.id, 0>>
       /\ OptimisticRow(b, x) \in LocalRow \/ ~IsProductOp(x)
       /\ x.base = 0 \/ (b.rows[x.product] # None /\ ~b.rows[x.product].deleted
                          /\ x.base = b.rows[x.product].version)
  <2> HIDE DEF b
  <2>1. LET y == OperationFor(b, i) IN
        /\ Intending(b, Mutate(b, i), y)
        /\ y \in Operation /\ y.id = <<i.id, 0>> /\ y.product \in Products /\ y.base \in Nat
        /\ OptimisticRow(b, y) \in LocalRow \/ ~IsProductOp(y)
        /\ y.base = 0 \/ (b.rows[y.product] # None /\ ~b.rows[y.product].deleted
                            /\ y.base = b.rows[y.product].version)
    BY <1>1, <1>2, <1>3, MutationWrites
  <2> QED BY <2>1
<1>11. \A y \in known : y.id # x.id
  <2> HIDE DEF x
  <2> QED BY <1>1, <1>2, <1>10, IntentIsNew
<1> HIDE DEF own, known, mine, mine2, E, b, O, C, F, e, x
<1>12. /\ Agreeing(b, e, known) /\ Turns(b, e, none, new)
       /\ \A p \in Products : Lane(e, mine2, O, C, F, p) /\ AheadKept(b, mine, F, e, mine2, F, p)
  <2>1. /\ Agreeing(b, e, known) /\ Turns(b, e, {}, IF IsProductOp(x) THEN {x} ELSE {})
        /\ \A p \in Products : Lane(e, mine2, O, C, F, p) /\ AheadKept(b, mine, F, e, mine2, F, p)
    BY <1>7, <1>9, <1>10, <1>11, MutationLanes
  <2> QED BY <2>1
<1>13. none = {}
  OBVIOUS
<1> HIDE DEF none, new
<1>14. \A n \in DOMAIN claimed[d] : claimed[d][n] \in known
  <2>1. own \subseteq known
    BY <1>2 DEF World, Family
  <2> QED BY <1>2, <2>1 DEF Batch
<1>15. InHand(e, mine2, C, F, phase[d], claimed[d], reply[d])
  <2> DEFINE ops == claimed[d]
             ph == phase[d]
             r == reply[d]
  <2>1. InHand(b, mine, C, F, ph, ops, r) /\ \A n \in DOMAIN ops : ops[n] \in known
    BY <1>9, <1>14
  <2> HIDE DEF ops, ph, r
  <2>2. InHand(e, mine2, C, F, ph, ops, r)
    BY <1>12, <1>13, <2>1, HandKept
  <2> QED BY <2>2 DEF ops, ph, r
<1>16. Steady(e, Own(E[d]), mine2, O, C, F)
  <2>1. ASSUME NEW s \in DOMAIN F, F[s].op \in Own(E[d]) PROVE Agrees(e, F[s].op)
    <3>1. F[s].op \in known
      BY <1>2 DEF World, FeedOk
    <3>2. Agrees(b, F[s].op)
      BY <1>8, <1>9, <2>1, <3>1 DEF Local
    <3> QED BY <1>12, <3>1, <3>2 DEF Agreeing
  <2> QED BY <1>12, <2>1 DEF Steady
<1>17. \A c \in Devices \ {d} : /\ done'[c] = done[c] /\ phase'[c] = phase[c]
                                /\ claimed'[c] = claimed[c] /\ reply'[c] = reply[c]
  BY <1>1, <1>4 DEF device
<1>18. /\ phase' = phase /\ claimed' = claimed /\ reply' = reply /\ wire' = wire
       /\ UNCHANGED <<plan, server>> /\ Known(done) \subseteq Known(done)' /\ done'[d] = E[d]
  BY <1>1, <1>6 DEF device, known
<1> QED BY <1>1, <1>12, <1>15, <1>16, <1>17, <1>18, DeviceKeepsConv DEF known, mine2, b, O, C, F
-----------------------------------------------------------------------------
(* THE SERVER                                                               *)

(* A rejection tells what the catalog is when its row is read.              *)
LEMMA RejectionTold ==
    ASSUME NEW op \in Operation, catalog \in [Products -> Image \cup {None}], NEW reason,
           (Given(op, reason) /\ reason # None) \/ reason = "internal_error"
    PROVE  Told(catalog, op, Rejected(op, reason))
<1> DEFINE row == catalog[op.product]
           r == Rejected(op, reason)
           owner == catalog[CHOOSE q \in Holders(op) : TRUE]
<1>1. op.product \in Products /\ row \in Image \cup {None}
  BY DEF Operation
<1>2. /\ r.applied = FALSE /\ r.reason = reason
      /\ r.state = IF IsProductOp(op) /\ reason \in {"version_conflict", "product_deleted"} THEN row
                   ELSE IF reason = "barcode_conflict" /\ Holders(op) # {} THEN owner
                   ELSE None
  BY DEF Rejected, CanonicalRow
<1>3. reason = "version_conflict" => IsProductOp(op) /\ row \in Image
  BY GivenSays
<1>4. reason = "product_deleted" => row # None /\ row.deleted
  <2>1. reason = "product_deleted" => reason = Rejection(op)
    BY DEF Given, Reached, ShownLater
  <2> QED BY <2>1 DEF Rejection
<1>5. Holders(op) # {} => ~owner.deleted
  BY HolderIsActive
<1> HIDE DEF r, owner
<1>6. reason = "version_conflict" => r.state.version <= Version(catalog, op.product)
  BY <1>1, <1>2, <1>3, NoneIsNoData DEF Version, Image
<1> QED BY <1>2, <1>3, <1>4, <1>5, <1>6 DEF Told, Deleted, r

(* An accepted operation brings the next version of its product.            *)
Wins(C, C2, F, G, op, p) ==
    IF On(op, p)
    THEN /\ ~Deleted(C, p)
         /\ C2[p] # None /\ C2[p] = G[Len(G)].image /\ C2[p].version = Version(C, p) + 1
         /\ Upsert(op) => op.base = Version(C, p) /\ C2[p].fields = op.fields /\ ~C2[p].deleted
         /\ op.kind = "delete" => C2[p].deleted
    ELSE C2[p] = C[p]

(* The server does just that when it rejects nothing. *)
LEMMA AcceptanceWins ==
    ASSUME IInv, NEW d \in Devices, NEW op \in Own(done[d]), OpFits(op),
           op.id \notin DOMAIN outcomes, Rejection(op) = None, Decide(op, None)
    PROVE  /\ OneMore(feed, feed', op)
           /\ \A p \in Products : Wins(catalog, catalog', feed, feed', op, p)
<1> DEFINE c == ChangeOf(op)
           row == catalog[op.product]
<1>1. /\ feed' = Append(feed, c)
      /\ catalog' = IF IsProductOp(op) THEN [catalog EXCEPT ![op.product] = c.image] ELSE catalog
  BY DEF Decide
<1>2. /\ feed \in Seq(Change) /\ feed' \in Seq(Change) /\ Extends(feed, feed')
      /\ catalog \in [Products -> Image \cup {None}]
  BY OperationDecided DEF IInv, TypeOK, Given
<1>3. /\ op \in Operation /\ op.product \in Products /\ op.kind \in Kinds
      /\ op.kind = "create" => op.base = 0
  BY DEF Own, From, Operation
<1>4. c \in Change /\ c.op = op /\ (IsProductOp(op) => c.image \in Image)
  BY ChangeFits
<1>5. row \in Image \cup {None}
  BY <1>2, <1>3
<1>6. IsProductOp(op) =>
        /\ c.image.version = (IF row = None THEN 1 ELSE row.version + 1)
        /\ c.image.deleted = (op.kind = "delete")
        /\ op.kind # "delete" => c.image.fields = op.fields
  BY DEF ChangeOf
<1>7. /\ ~(row # None /\ row.deleted)
      /\ op.kind = "create" => row = None
      /\ op.kind = "edit" => row # None /\ row.version = op.base
  BY NoneIsNoReason DEF Rejection, Reasons
<1>8. op.id \notin Accepted(feed)
  BY DEF IInv, ServerInv, ServerOk, FeedLinked, Accepted
<1> HIDE DEF c
<1>9. Len(feed') = Len(feed) + 1 /\ feed'[Len(feed')] = c
  BY <1>1, <1>2, <1>4
<1>10. OneMore(feed, feed', op)
  BY <1>2, <1>4, <1>8, <1>9 DEF OneMore
<1>11. ASSUME NEW p \in Products, ~On(op, p) PROVE catalog'[p] = catalog[p]
  BY <1>1, <1>2, <1>11 DEF On
<1>12. ASSUME NEW p \in Products, On(op, p) PROVE Wins(catalog, catalog', feed, feed', op, p)
  <2>1. p = op.product /\ IsProductOp(op)
    BY <1>12 DEF On
  <2>2. catalog'[p] = c.image /\ c.image # None
    BY <1>1, <1>2, <1>4, <2>1, NoneIsNoData
  <2>3. Version(catalog, p) = IF row = None THEN 0 ELSE row.version
    BY <2>1 DEF Version
  <2>4. Version(catalog, p) + 1 = c.image.version
    BY <1>6, <2>1, <2>3
  <2>5. Upsert(op) => op.base = Version(catalog, p)
    BY <1>3, <1>7, <2>3 DEF Upsert
  <2>6. ~Deleted(catalog, p)
    BY <1>7, <2>1 DEF Deleted
  <2> HIDE DEF row
  <2> QED BY <1>6, <1>9, <1>12, <2>1, <2>2, <2>4, <2>5, <2>6 DEF Wins, Upsert
<1> QED BY <1>10, <1>11, <1>12 DEF Wins

(* So the versions rise. *)
LEMMA RisesOn ==
    ASSUME NEW own, NEW known, NEW mine, NEW O, NEW C, NEW F, Grounds(own, known, mine, O, C, F),
           NEW p \in Products, NEW op \in known, NEW G, OneMore(F, G, op), NEW C2, Wins(C, C2, F, G, op, p)
    PROVE  /\ Risen(C2, O, G, p)
           /\ Version(C2, p) \in Nat /\ Version(C, p) \in Nat /\ Version(C, p) <= Version(C2, p)
           /\ Deleted(C, p) => Deleted(C2, p)
<1> DEFINE n == Len(G)
           N == OfProduct(F, p)
           M == OfProduct(G, p)
           v == Version(C, p)
<1>1. Risen(C, O, F, p)
  BY DEF Grounds
<1>2. /\ \A s \in N : s \in M /\ G[s] = F[s] /\ s < n /\ s # n
      /\ On(op, p) => M = N \cup {n}
      /\ ~On(op, p) => M = N
      /\ n \in Nat
  BY OneMoreChange DEF OneMore
<1>3. /\ v \in Nat
      /\ O[p] # None => O[p].version <= v /\ O[p].version \in Nat
      /\ \A s \in N : /\ s \in Nat /\ F[s].image.version \in Nat /\ F[s].image.version <= v
                      /\ F[s].op.kind = "delete" => Deleted(C, p)
  BY VersionsRise
<1>4. CASE ~On(op, p)
  <2>1. C2[p] = C[p]
    BY <1>4 DEF Wins
  <2>2. Version(C2, p) = v /\ (Deleted(C, p) => Deleted(C2, p))
    BY <2>1 DEF Version, Deleted
  <2>3. Risen(C2, O, G, p)
    <3> HIDE DEF v, n
    <3> QED BY <1>1, <1>2, <1>4, <2>1 DEF Risen
  <2> QED BY <1>3, <2>2, <2>3
<1>5. CASE On(op, p)
  <2>1. /\ ~Deleted(C, p) /\ C2[p] # None /\ C2[p] = G[n].image /\ C2[p].version = v + 1
        /\ Upsert(op) => op.base = v /\ C2[p].fields = op.fields /\ ~C2[p].deleted
        /\ op.kind = "delete" => C2[p].deleted
    BY <1>5 DEF Wins
  <2>2. G[n].op = op /\ M = N \cup {n}
    BY <1>2, <1>5 DEF OneMore
  <2>3. Version(C2, p) = v + 1
    BY <2>1 DEF Version
  <2> HIDE DEF v, n, N, M
  <2>4. \A s, k \in M : s < k => G[s].image.version < G[k].image.version
    <3> SUFFICES ASSUME NEW s \in M, NEW k \in M, s < k PROVE G[s].image.version < G[k].image.version
      OBVIOUS
    <3>1. s \in N
      BY <1>2, <1>3, <2>2
    <3>2. CASE k \in N
      BY <1>1, <1>2, <3>1, <3>2 DEF Risen, N
    <3>3. CASE k = n
      BY <1>2, <1>3, <2>1, <3>1, <3>3
    <3> QED BY <2>2, <3>2, <3>3
  <2>5. \A s \in M : \E k \in M : s <= k /\ C2[p] = G[k].image
    BY <1>2, <1>3, <2>1, <2>2
  <2>6. \A s \in M : O[p] # None => G[s].image.version > O[p].version
    <3> SUFFICES ASSUME NEW s \in M, O[p] # None PROVE G[s].image.version > O[p].version
      OBVIOUS
    <3>1. CASE s \in N
      BY <1>1, <1>2, <3>1 DEF Risen, N
    <3>2. CASE s = n
      BY <1>3, <2>1, <3>2
    <3> QED BY <2>2, <3>1, <3>2
  <2>7. \A s \in M : Upsert(G[s].op) =>
          /\ G[s].image.version = G[s].op.base + 1
          /\ G[s].image.fields = G[s].op.fields
          /\ ~G[s].image.deleted
    <3> SUFFICES ASSUME NEW s \in M, Upsert(G[s].op)
                 PROVE  /\ G[s].image.version = G[s].op.base + 1
                        /\ G[s].image.fields = G[s].op.fields
                        /\ ~G[s].image.deleted
      OBVIOUS
    <3>1. CASE s \in N
      BY <1>1, <1>2, <3>1 DEF Risen, N
    <3>2. CASE s = n
      BY <2>1, <2>2, <3>2
    <3> QED BY <2>2, <3>1, <3>2
  <2>8. \A s \in M : G[s].op.kind = "delete" => G[s].image.deleted /\ \A k \in M : k <= s
    <3> SUFFICES ASSUME NEW s \in M, G[s].op.kind = "delete"
                 PROVE  G[s].image.deleted /\ \A k \in M : k <= s
      OBVIOUS
    <3>1. s = n
      BY <1>2, <1>3, <2>1, <2>2
    <3>2. ASSUME NEW k \in M PROVE k <= s
      <4>1. k = n \/ (k \in Nat /\ k < n)
        BY <1>2, <1>3, <2>2
      <4> QED BY <1>2, <3>1, <4>1
    <3> QED BY <2>1, <2>2, <3>1, <3>2
  <2>9. M # {}
    BY <2>2
  <2>10. Risen(C2, O, G, p)
    BY <2>4, <2>5, <2>6, <2>7, <2>8, <2>9 DEF Risen, M
  <2> QED BY <1>3, <2>1, <2>3, <2>10 DEF v
<1> QED BY <1>4, <1>5

(* And what is said of a product on a device stays so. *)
LEMMA LaneOn ==
    ASSUME NEW own, NEW known, NEW mine, NEW O, NEW C, NEW F, Grounds(own, known, mine, O, C, F),
           NEW p \in Products, NEW b, Local(b, own, known, F), b.cursor \in Nat, b.cursor <= Len(F),
           NEW op \in known, op \in own => Agrees(b, op),
           NEW G, OneMore(F, G, op), NEW C2, Wins(C, C2, F, G, op, p),
           Lane(b, mine, O, C, F, p)
    PROVE  /\ Lane(b, mine, O, C2, G, p)
           /\ \A S, from : \A to \in Nat :
                to <= Len(F) /\ AheadRepaired(b, mine, F, S, from, to, p) =>
                    AheadRepaired(b, mine, G, S, from, to, p)
<1>1. QueueInv(b, mine, C, F, p) /\ RowInv(b, mine, O, C, F, p)
  BY DEF Lane
<1>2. CASE On(op, p)
  <2>1. /\ ~Deleted(C, p) /\ C2[p] # None /\ C2[p] = G[Len(G)].image
        /\ C2[p].version = Version(C, p) + 1
        /\ Upsert(op) => op.base = Version(C, p)
        /\ op.kind = "delete" => C2[p].deleted
    BY <1>2 DEF Wins
  <2>2. Version(C2, p) = Version(C, p) + 1 /\ G[Len(G)].image.version = Version(C, p) + 1
    BY <2>1 DEF Version
  <2>3. op.kind = "delete" => Deleted(C2, p)
    BY <2>1 DEF Deleted
  <2>4. QueueInv(b, mine, C2, G, p)
    BY <1>1, <1>2, <2>1, <2>2, <2>3, QueueDecides
  <2>5. /\ RowInv(b, mine, O, C2, G, p)
        /\ \A S, from : \A to \in Nat :
                to <= Len(F) /\ AheadRepaired(b, mine, F, S, from, to, p) =>
                    AheadRepaired(b, mine, G, S, from, to, p)
    BY <1>1, <1>2, <2>1, RowDecides
  <2> QED BY <2>4, <2>5 DEF Lane
<1>3. CASE ~On(op, p)
  <2>1. C2[p] = C[p]
    BY <1>3 DEF Wins
  <2>2. QueueInv(b, mine, C2, G, p) /\ RowInv(b, mine, O, C2, G, p)
        /\ AheadKept(b, mine, F, b, mine, G, p)
    BY <1>1, <1>3, <2>1, QueueApart, RowApart
  <2> QED BY <2>2 DEF Lane, AheadKept
<1> QED BY <1>2, <1>3

(* What was told stays true of a later catalog. *)
Later(C, C2) ==
    \A p \in Products :
        /\ Version(C, p) \in Nat /\ Version(C2, p) \in Nat /\ Version(C, p) <= Version(C2, p)
        /\ Deleted(C, p) => Deleted(C2, p)

(* A verdict on an operation does. *)
LEMMA ToldLater ==
    ASSUME NEW C, NEW C2, Later(C, C2), NEW op \in Operation, NEW r, NEW F, ResultFits(op, r, F),
           Told(C, op, r)
    PROVE  Told(C2, op, r)
<1>1. op.product \in Products
  BY DEF Operation
<1>2. /\ Version(C, op.product) \in Nat /\ Version(C2, op.product) \in Nat
      /\ Version(C, op.product) <= Version(C2, op.product)
      /\ Deleted(C, op.product) => Deleted(C2, op.product)
  BY <1>1 DEF Later
<1>3. ~r.applied /\ r.reason = "version_conflict" => r.state.version \in Nat
  BY DEF ResultFits, Image
<1> QED BY <1>2, <1>3 DEF Told

(* So do the stored outcomes, and the results on their way and in hand.    *)
LEMMA VerdictsLater ==
    ASSUME IInv, ConvInv, NEW C, Later(catalog, C)
    PROVE  /\ OutcomesTold(C, outcomes, Known(done))
           /\ \A x \in wire : RequestTold(db[x.device], C, x.ops, x.results)
           /\ \A d \in Devices : phase[d] = "reconcile" => AllTold(C, claimed[d], reply[d].results)
<1>1. OutcomesTold(C, outcomes, Known(done))
  <2> SUFFICES ASSUME NEW id \in DOMAIN outcomes
               PROVE  \E op \in Known(done) : op.id = id /\ Told(C, op, outcomes[id])
    BY DEF OutcomesTold
  <2>1. PICK op \in Known(done) : op.id = id /\ Told(catalog, op, outcomes[id])
    BY DEF ConvInv, OutcomesTold
  <2>2. PICK other \in Known(done) : other.id = id /\ ResultFits(other, outcomes[id], feed)
    BY DEF IInv, ServerInv, ServerOk, OutcomesFit
  <2>3. op \in Operation /\ \E d \in Devices : op \in Own(done[d])
    BY DEF Known
  <2>4. PlanKept(plan, done)
    BY <2>3, InWorld
  <2>5. ResultFits(op, outcomes[id], feed)
    BY <2>1, <2>2, <2>4, SameVerdict
  <2> QED BY <2>1, <2>3, <2>5, ToldLater
<1>2. ASSUME NEW x \in wire PROVE RequestTold(db[x.device], C, x.ops, x.results)
  <2>1. RequestTold(db[x.device], catalog, x.ops, x.results)
    BY DEF ConvInv, WireTold
  <2>2. x \in Request /\ RequestOk(x, Own(done[x.device]), feed)
    BY WireIsOk
  <2>3. ASSUME NEW n \in DOMAIN x.results PROVE Told(C, x.ops[n], x.results[n])
    <3>1. Told(catalog, x.ops[n], x.results[n]) /\ ResultFits(x.ops[n], x.results[n], feed)
      BY <2>1, <2>2 DEF RequestTold, AllTold, RequestOk, VerdictsFit
    <3>2. x.ops[n] \in Operation
      BY <2>2 DEF Request, RequestOk
    <3> QED BY <3>1, <3>2, ToldLater
  <2> QED BY <2>1, <2>3 DEF RequestTold, AllTold
<1>3. ASSUME NEW d \in Devices, phase[d] = "reconcile", NEW n \in DOMAIN reply[d].results
      PROVE  Told(C, claimed[d][n], reply[d].results[n])
  <2>1. Batch(claimed[d], Own(done[d])) /\ ReplyOk(reply[d], claimed[d], db[d].cursor, feed)
    BY <1>3, InWorld DEF CycleOk
  <2>2. InHand(db[d], MadeIds(done[d]), catalog, feed, phase[d], claimed[d], reply[d])
    BY DEF ConvInv, HandsHold
  <2>3. /\ Told(catalog, claimed[d][n], reply[d].results[n])
        /\ ResultFits(claimed[d][n], reply[d].results[n], feed)
    BY <1>3, <2>1, <2>2 DEF InHand, AllTold, ReplyOk, VerdictsFit
  <2>4. claimed[d][n] \in Operation
    BY <1>3, <2>1 DEF Batch, ReplyOk, Response
  <2> QED BY <2>3, <2>4, ToldLater
<1> QED BY <1>1, <1>2, <1>3 DEF AllTold

(* Every device keeps what is said of it when an operation is accepted.     *)
LEMMA DevicesOn ==
    ASSUME IInv, TombInv, ConvInv, NEW q \in wire, Undecided(q), NEW op, op = NextOp(q),
           NEW G, OneMore(feed, G, op),
           NEW C, \A p \in Products : Wins(catalog, C, feed, G, op, p), NEW d \in Devices
    PROVE  /\ CatalogRisen(C, plan.opening, G) /\ Later(catalog, C)
           /\ Steady(db[d], Own(done[d]), MadeIds(done[d]), plan.opening, C, G)
           /\ InHand(db[d], MadeIds(done[d]), C, G, phase[d], claimed[d], reply[d])
<1> DEFINE own == Own(done[d])
           known == Known(done)
           mine == MadeIds(done[d])
           b == db[d]
           O == plan.opening
<1>1. /\ Grounds(own, known, mine, O, catalog, feed) /\ Local(b, own, known, feed)
      /\ \A p \in Products : Lane(b, mine, O, catalog, feed, p)
      /\ InHand(b, mine, catalog, feed, phase[d], claimed[d], reply[d])
  BY OnGround
<1>2. /\ CycleOk(b, own, phase[d], claimed[d], reply[d], feed) /\ b.cursor \in Nat
      /\ b.cursor <= Len(feed) /\ PlanKept(plan, done)
  BY InWorld DEF StoreOk, Good, Database
<1>3. q.device \in Devices /\ op \in Own(done[q.device]) /\ op \in known
  BY NextOpFits
<1>4. op \in own => Agrees(b, op)
  <2> SUFFICES ASSUME op \in own PROVE Agrees(b, op)
    OBVIOUS
  <2>1. PICK i \in done[d] : From(op, i)
    BY DEF Own
  <2>2. PICK j \in done[q.device] : From(op, j)
    BY <1>3 DEF Own
  <2>3. q.device = d
    <3>1. i.id = j.id
      BY <2>1, <2>2 DEF From
    <3> DEFINE e == q.device
    <3>2. e \in Devices /\ j \in done[e]
      BY <1>3
    <3> HIDE DEF e
    <3>3. e = d
      BY <1>2, <3>1, <3>2, OneIntent
    <3> QED BY <3>3 DEF e
  <2>4. q \in Request /\ Len(q.results) <= Len(q.ops)
    BY WireIsOk DEF RequestOk
  <2>5. Len(q.results) + 1 \in DOMAIN q.ops
    BY <2>4 DEF Undecided, Request
  <2> QED BY <2>3, <2>5 DEF ConvInv, WireTold, RequestTold, NextOp
<1> HIDE DEF own, known, mine, b, O
<1>5. ASSUME NEW p \in Products
      PROVE  /\ Risen(C, O, G, p)
             /\ Version(C, p) \in Nat /\ Version(catalog, p) \in Nat
             /\ Version(catalog, p) <= Version(C, p)
             /\ Deleted(catalog, p) => Deleted(C, p)
  BY <1>1, <1>3, RisesOn
<1>6. ASSUME NEW p \in Products
      PROVE  /\ Lane(b, mine, O, C, G, p)
             /\ \A S, from : \A to \in Nat :
                  to <= Len(feed) /\ AheadRepaired(b, mine, feed, S, from, to, p) =>
                      AheadRepaired(b, mine, G, S, from, to, p)
  BY <1>1, <1>2, <1>3, <1>4, LaneOn
<1>7. CatalogRisen(C, O, G) /\ Later(catalog, C)
  BY <1>5 DEF CatalogRisen, Later
<1>8. Steady(b, own, mine, O, C, G)
  <2>1. ASSUME NEW s \in DOMAIN G, G[s].op \in own PROVE Agrees(b, G[s].op)
    <3>1. /\ s = Len(G) \/ s \in DOMAIN feed
          /\ s \in DOMAIN feed => G[s] = feed[s]
          /\ G[Len(G)].op = op
      BY DEF OneMore, Extends
    <3> QED BY <1>1, <1>4, <2>1, <3>1 DEF Local
  <2> QED BY <1>6, <2>1 DEF Steady
<1>9. InHand(b, mine, C, G, phase[d], claimed[d], reply[d])
  <2>1. phase[d] = "reconcile" => AllTold(C, claimed[d], reply[d].results)
    BY <1>7, VerdictsLater
  <2>2. ASSUME phase[d] = "apply", NEW p \in Products
        PROVE  AheadRepaired(b, mine, G, Reconciled(reply[d]), reply[d].from, reply[d].to, p)
    <3>1. ReplyOk(reply[d], claimed[d], b.cursor, feed)
      BY <1>2, <2>2 DEF CycleOk
    <3>2. reply[d].to \in Nat /\ reply[d].to <= Len(feed)
      BY <3>1 DEF ReplyOk, Response
    <3>3. AheadRepaired(b, mine, feed, Reconciled(reply[d]), reply[d].from, reply[d].to, p)
      BY <1>1, <2>2 DEF InHand
    <3> QED BY <1>6, <3>2, <3>3
  <2> QED BY <1>1, <2>1, <2>2 DEF InHand
<1> QED BY <1>7, <1>8, <1>9 DEF own, known, mine, b, O

(* The decision on an operation, and the verdict on it. *)
LEMMA DecideConv ==
    ASSUME IInv, TombInv, ConvInv, NEW q \in wire, Undecided(q), NEW op, op = NextOp(q),
           op.id \notin DOMAIN outcomes, NEW reason, Given(op, reason), Decide(op, reason),
           UNCHANGED <<plan, db, done, device>>
    PROVE  /\ CatalogRisen(catalog', plan.opening, feed')
           /\ OutcomesTold(catalog', outcomes', Known(done))
           /\ StoresSteady' /\ HandsHold'
           /\ \A x \in wire : RequestTold(db[x.device], catalog', x.ops, x.results)
           /\ Told(catalog', op, outcomes'[op.id])
<1> DEFINE r == IF reason = None THEN Applied(ChangeOf(op)) ELSE Rejected(op, reason)
           known == Known(done)
<1>1. /\ outcomes' = [id \in DOMAIN outcomes \cup {op.id} |-> IF id = op.id THEN r ELSE outcomes[id]]
      /\ reason # None => UNCHANGED <<catalog, feed>>
  BY DEF Decide
<1>2. /\ plan' = plan /\ db' = db /\ done' = done
      /\ phase' = phase /\ claimed' = claimed /\ reply' = reply
  BY DEF device
<1>3. q.device \in Devices /\ op \in Own(done[q.device]) /\ op \in known /\ op \in Operation
      /\ OpFits(op)
  BY NextOpFits
<1>4. /\ CatalogRisen(catalog', plan.opening, feed') /\ Later(catalog, catalog')
      /\ \A d \in Devices :
           /\ Steady(db[d], Own(done[d]), MadeIds(done[d]), plan.opening, catalog', feed')
           /\ InHand(db[d], MadeIds(done[d]), catalog', feed', phase[d], claimed[d], reply[d])
  <2>1. CASE reason # None
    <3>1. catalog' = catalog /\ feed' = feed
      BY <1>1, <2>1
    <3>2. \A p \in Products : Version(catalog, p) \in Nat
      BY <1>3, OnGround, VersionsRise
    <3> QED BY <3>1, <3>2 DEF ConvInv, StoresSteady, HandsHold, Later
  <2>2. CASE reason = None
    <3>1. /\ OneMore(feed, feed', op)
          /\ \A p \in Products : Wins(catalog, catalog', feed, feed', op, p)
      <4>1. Rejection(op) = None
        BY <1>3, <2>2, GivenSays DEF IInv, TypeOK
      <4> QED BY <1>3, <2>2, <4>1, AcceptanceWins
    <3> DEFINE G == feed'
               C == catalog'
    <3> HIDE DEF G, C
    <3>2. OneMore(feed, G, op) /\ \A p \in Products : Wins(catalog, C, feed, G, op, p)
      BY <3>1 DEF G, C
    <3>3. ASSUME NEW d \in Devices
          PROVE  /\ CatalogRisen(C, plan.opening, G) /\ Later(catalog, C)
                 /\ Steady(db[d], Own(done[d]), MadeIds(done[d]), plan.opening, C, G)
                 /\ InHand(db[d], MadeIds(done[d]), C, G, phase[d], claimed[d], reply[d])
      BY <3>2, DevicesOn
    <3> QED BY <1>3, <3>3 DEF G, C
  <2> QED BY <2>1, <2>2
<1>5. Told(catalog', op, r)
  <2>1. CASE reason # None
    <3>1. catalog \in [Products -> Image \cup {None}]
      BY DEF IInv, TypeOK
    <3>2. Told(catalog, op, Rejected(op, reason))
      BY <1>3, <2>1, <3>1, RejectionTold
    <3> QED BY <1>1, <2>1, <3>2
  <2>2. CASE reason = None
    <3>1. r.applied
      BY <2>2 DEF Applied
    <3> QED BY <3>1 DEF Told
  <2> QED BY <2>1, <2>2
<1> HIDE DEF r, known
<1>6. outcomes'[op.id] = r /\ \A id \in DOMAIN outcomes' :
        id = op.id \/ (id \in DOMAIN outcomes /\ outcomes'[id] = outcomes[id])
  BY <1>1
<1>7. /\ OutcomesTold(catalog', outcomes, known)
      /\ \A x \in wire : RequestTold(db[x.device], catalog', x.ops, x.results)
  <2> DEFINE C == catalog'
  <2> HIDE DEF C
  <2>1. Later(catalog, C)
    BY <1>4 DEF C
  <2>2. /\ OutcomesTold(C, outcomes, Known(done))
        /\ \A x \in wire : RequestTold(db[x.device], C, x.ops, x.results)
    BY <2>1, VerdictsLater
  <2> QED BY <2>2 DEF C, known
<1>8. OutcomesTold(catalog', outcomes', known)
  BY <1>3, <1>5, <1>6, <1>7 DEF OutcomesTold
<1>9. StoresSteady' /\ HandsHold'
  BY <1>2, <1>4 DEF StoresSteady, HandsHold
<1> QED BY <1>4, <1>5, <1>6, <1>7, <1>8, <1>9 DEF known

(* A request gets one more verdict. *)
LEMMA VerdictToldAdded ==
    ASSUME IInv, NEW q \in wire, Undecided(q), NEW r \in Outcome, WithResult(q, r),
           CatalogRisen(catalog', plan.opening, feed'),
           OutcomesTold(catalog', outcomes', Known(done)), StoresSteady', HandsHold',
           \A x \in wire : RequestTold(db[x.device], catalog', x.ops, x.results),
           Told(catalog', NextOp(q), r), UNCHANGED <<plan, db, done, device>>
    PROVE  ConvInv'
<1> DEFINE new == [q EXCEPT !.results = Append(q.results, r), !.verdict = ""]
<1>1. wire' = (wire \ {q}) \cup {new}
  BY DEF WithResult
<1>2. q \in Request /\ q.results \in Seq(Outcome)
  BY WireIsOk DEF Request
<1>3. new.ops = q.ops /\ new.device = q.device /\ new.results = Append(q.results, r)
  BY <1>2 DEF Request
<1> HIDE DEF new
<1>4. RequestTold(db[new.device], catalog', new.ops, new.results)
  <2>1. RequestTold(db[q.device], catalog', q.ops, q.results)
    OBVIOUS
  <2>2. ASSUME NEW n \in DOMAIN new.results PROVE Told(catalog', new.ops[n], new.results[n])
    <3>1. n \in 1..Len(q.results) + 1
      BY <1>2, <1>3
    <3>2. CASE n = Len(q.results) + 1
      <4>1. new.results[n] = r
        BY <1>2, <1>3, <3>1, <3>2
      <4> QED BY <1>3, <3>2, <4>1 DEF NextOp
    <3>3. CASE n # Len(q.results) + 1
      <4>1. n \in DOMAIN q.results /\ new.results[n] = q.results[n]
        BY <1>2, <1>3, <3>1, <3>3
      <4> QED BY <1>3, <2>1, <4>1 DEF RequestTold, AllTold
    <3> QED BY <3>2, <3>3
  <2> QED BY <1>3, <2>1, <2>2 DEF RequestTold, AllTold
<1>5. WireTold'
  BY <1>1, <1>4 DEF WireTold
<1> QED BY <1>5 DEF ConvInv

(* A verdict that waits for its canonical row. *)
LEMMA JudgeConv ==
    ASSUME IInv, ConvInv, NEW q \in wire, Judge(q)
    PROVE  ConvInv'
<1> DEFINE new == [q EXCEPT !.verdict = Rejection(NextOp(q))]
<1>1. wire' = (wire \ {q}) \cup {new} /\ UNCHANGED <<plan, db, done, device, server>>
  BY DEF Judge
<1>2. new.ops = q.ops /\ new.results = q.results /\ new.device = q.device
  BY WireIsOk DEF Request
<1> HIDE DEF new
<1>3. WireTold'
  BY <1>1, <1>2 DEF ConvInv, WireTold, server
<1> QED BY <1>1, <1>3 DEF ConvInv, StoresSteady, HandsHold, server, device

(* An operation that is decided, or its outcome replayed. *)
LEMMA ProcessConv ==
    ASSUME IInv, JudgedInv, TombInv, ConvInv, NEW q \in wire, Process(q)
    PROVE  ConvInv'
<1> DEFINE op == NextOp(q)
           r == outcomes'[op.id]
<1>1. /\ Undecided(q)
      /\ op.id \in DOMAIN outcomes => UNCHANGED server
      /\ op.id \notin DOMAIN outcomes => \E reason : Given(op, reason) /\ Decide(op, reason)
      /\ WithResult(q, r)
      /\ UNCHANGED <<plan, db, done, device>>
  BY ConcludeDecides DEF Process
<1>2. q.device \in Devices /\ op \in Own(done[q.device]) /\ op \in Known(done) /\ OpFits(op)
  BY <1>1, NextOpFits
<1>3. CASE op.id \in DOMAIN outcomes
  <2>1. feed' = feed /\ catalog' = catalog /\ outcomes' = outcomes
    BY <1>1, <1>3 DEF server
  <2>2. PICK other \in Known(done) : other.id = op.id /\ Told(catalog', other, r)
    BY <1>3, <2>1 DEF ConvInv, OutcomesTold
  <2>3. other.product = op.product /\ (IsProductOp(other) <=> IsProductOp(op))
    <3>1. PlanKept(plan, done)
      BY <1>2, InWorld
    <3> HIDE DEF op
    <3> QED BY <1>2, <2>2, <3>1, SameIntent DEF From
  <2>4. Told(catalog', op, r)
    BY <2>2, <2>3 DEF Told
  <2>5. r \in Outcome
    BY <1>3, <2>1, ServerStays DEF server
  <2>6. /\ CatalogRisen(catalog', plan.opening, feed')
        /\ OutcomesTold(catalog', outcomes', Known(done)) /\ StoresSteady' /\ HandsHold'
        /\ \A x \in wire : RequestTold(db[x.device], catalog', x.ops, x.results)
    BY <1>1, <2>1 DEF ConvInv, StoresSteady, HandsHold, WireTold, device
  <2> HIDE DEF r
  <2> QED BY <1>1, <2>4, <2>5, <2>6, VerdictToldAdded
<1>4. CASE op.id \notin DOMAIN outcomes
  <2>1. PICK reason : Given(op, reason) /\ Decide(op, reason)
    BY <1>1, <1>4
  <2>2. op = NextOp(q)
    OBVIOUS
  <2> HIDE DEF op
  <2>3. r \in Outcome
    BY <1>2, <1>4, <2>1, OperationDecided DEF ResultFits
  <2>4. /\ CatalogRisen(catalog', plan.opening, feed')
        /\ OutcomesTold(catalog', outcomes', Known(done))
        /\ StoresSteady' /\ HandsHold'
        /\ \A x \in wire : RequestTold(db[x.device], catalog', x.ops, x.results)
        /\ Told(catalog', op, r)
    BY <1>1, <1>4, <2>1, <2>2, DecideConv
  <2> HIDE DEF r
  <2> QED BY <1>1, <2>2, <2>3, <2>4, VerdictToldAdded
<1> QED BY <1>3, <1>4

(* A transaction that fails, whether it was committed or not. *)
LEMMA ProcessFailsConv ==
    ASSUME IInv, JudgedInv, TombInv, ConvInv, NEW q \in wire, NEW committed \in BOOLEAN,
           ProcessFails(q, committed)
    PROVE  ConvInv'
<1> DEFINE op == NextOp(q)
           r == Rejected(op, "internal_error")
<1>1. /\ Undecided(q) /\ op.id \notin DOMAIN outcomes
      /\ committed => \E reason : Given(op, reason) /\ Decide(op, reason)
      /\ ~committed => UNCHANGED server
      /\ WithResult(q, r)
      /\ UNCHANGED <<plan, db, done, device>>
  BY ConcludeDecides DEF ProcessFails
<1>2. q.device \in Devices /\ op \in Own(done[q.device]) /\ op \in Operation /\ OpFits(op)
  BY <1>1, NextOpFits
<1>3. r.state = None /\ r.reason = "internal_error"
  BY DEF Rejected, CanonicalRow
<1>4. r \in Outcome
  <2>1. catalog \in [Products -> Image \cup {None}] /\ "internal_error" \in Reasons
    BY DEF IInv, TypeOK, Reasons
  <2> HIDE DEF op
  <2> QED BY <1>2, <2>1, RejectedFits DEF ResultFits
<1>5. op = NextOp(q)
  OBVIOUS
<1> HIDE DEF r, op
<1>6. Told(catalog', op, r)
  BY <1>3 DEF Told
<1>7. /\ CatalogRisen(catalog', plan.opening, feed')
      /\ OutcomesTold(catalog', outcomes', Known(done)) /\ StoresSteady' /\ HandsHold'
      /\ \A x \in wire : RequestTold(db[x.device], catalog', x.ops, x.results)
  <2>1. CASE committed
    <3>1. PICK reason : Given(op, reason) /\ Decide(op, reason)
      BY <1>1, <2>1
    <3> QED BY <1>1, <1>5, <3>1, DecideConv
  <2>2. CASE ~committed
    BY <1>1, <2>2 DEF ConvInv, StoresSteady, HandsHold, WireTold, device, server
  <2> QED BY <2>1, <2>2
<1> QED BY <1>1, <1>4, <1>5, <1>6, <1>7, VerdictToldAdded

(* An answer, awaited or not. *)
LEMMA AnswerConv ==
    ASSUME IInv, ConvInv, NEW q \in wire, Answer(q)
    PROVE  ConvInv'
<1> DEFINE d == q.device
<1>1. /\ wire' \subseteq wire /\ UNCHANGED <<plan, db, done, claimed, catalog, feed, outcomes>>
      /\ ~q.live => UNCHANGED <<reply, phase>>
  BY DEF Answer, server
<1>2. /\ CatalogRisen(catalog', plan'.opening, feed') /\ OutcomesTold(catalog', outcomes', Known(done)')
      /\ StoresSteady' /\ WireTold'
  BY <1>1 DEF ConvInv, StoresSteady, WireTold
<1>3. HandsHold'
  <2>1. CASE ~q.live
    BY <1>1, <2>1 DEF ConvInv, HandsHold
  <2>2. CASE q.live
    <3>1. d \in Devices /\ q.ops = claimed[d] /\ phase[d] = "waiting"
      BY <2>2, WireIsOk DEF IInv, WireInv, Awaited, Request
    <3>2. /\ reply'[d].results = q.results /\ phase'[d] = "reconcile"
          /\ \A c \in Devices \ {d} : reply'[c] = reply[c] /\ phase'[c] = phase[c]
      BY <2>2, <3>1 DEF Answer, IInv, TypeOK
    <3>3. AllTold(catalog, claimed[d], reply'[d].results)
      BY <3>1, <3>2 DEF ConvInv, WireTold, RequestTold
    <3>4. ASSUME NEW c \in Devices
          PROVE  InHand(db[c], MadeIds(done[c]), catalog, feed, phase'[c], claimed[c], reply'[c])
      <4>1. InHand(db[c], MadeIds(done[c]), catalog, feed, phase[c], claimed[c], reply[c])
        BY DEF ConvInv, HandsHold
      <4>2. CASE c = d
        BY <3>1, <3>2, <3>3, <4>1, <4>2 DEF InHand
      <4>3. CASE c # d
        BY <3>2, <4>1, <4>3
      <4> QED BY <4>2, <4>3
    <3> QED BY <1>1, <3>4 DEF HandsHold
  <2> QED BY <2>1, <2>2
<1> QED BY <1>2, <1>3 DEF ConvInv
-----------------------------------------------------------------------------
(* EVERY BEHAVIOUR                                                          *)

(* At first every device shows the catalog, and nothing is on its way.      *)
LEMMA OpensConv == Init => ConvInv
<1> SUFFICES ASSUME Init PROVE ConvInv
  OBVIOUS
<1> DEFINE O == plan.opening
           F == << >>
<1>1. /\ feed = F /\ catalog = O /\ DOMAIN outcomes = {} /\ wire = {} /\ DOMAIN F = {}
      /\ done = [d \in Devices |-> {}] /\ phase = [d \in Devices |-> "idle"]
      /\ claimed = [d \in Devices |-> << >>]
  BY DEF Init
<1>2. O \in [Products -> Image \cup {None}]
  BY PlansAreOfTheirKind DEF Init
<1>3. IInv
  BY Opens
<1>4. \A p : OfProduct(F, p) = {}
  BY <1>1 DEF OfProduct
<1> HIDE DEF F, O
<1>5. \A p \in Products : Risen(O, O, F, p)
  BY <1>4 DEF Risen
<1>6. ASSUME NEW d \in Devices
      PROVE  /\ Steady(db[d], Own(done[d]), MadeIds(done[d]), O, O, F)
             /\ InHand(db[d], MadeIds(done[d]), O, F, phase[d], claimed[d], reply[d])
  <2> DEFINE own == Own(done[d])
             known == Known(done)
             mine == MadeIds(done[d])
             h == db[d]
  <2>1. World(own, known, F) /\ PlanKept(plan, done)
    BY <1>1, <1>3, InWorld
  <2>2. \A op \in known : op \in own <=> op.id[1] \in mine
    BY <2>1, OwnIsMade
  <2> HIDE DEF own, known, mine
  <2>3. Grounds(own, known, mine, O, O, F)
    BY <1>2, <1>4, <1>5, <2>1, <2>2 DEF Grounds
  <2>4. h = Install(Empty, [products |-> O, moves |-> {},
                            balances |-> [p \in Products |-> 0], cursor |-> 0])
    BY DEF Init, O
  <2>5. /\ h.queue = << >>
        /\ h.rows = [p \in Products |-> IF O[p] = None THEN None ELSE ToLocal(O[p], "synced")]
    BY <2>4 DEF Install, Empty
  <2> HIDE DEF h
  <2>6. ASSUME NEW p \in Products PROVE Lane(h, mine, O, O, F, p)
    <3>1. Pend(h, p) = {}
      BY <2>5 DEF Pend, Outbox
    <3>2. QueueInv(h, mine, O, F, p)
      BY <1>4, <3>1 DEF QueueInv, Chained, EditsOvertaken, DeletionOvertaken, Inverted, Open
    <3>3. O[p] # None => ToLocal(O[p], "synced") # None
      <4>1. O[p] # None => ToLocal(O[p], "synced") \in LocalRow
        BY <1>2 DEF ToLocal, LocalRow, Image, SyncStatus
      <4> QED BY <4>1, NoneIsNoData
    <3>4. (O[p] = None <=> h.rows[p] = None) /\ (O[p] # None => Shows(h, p, O[p]))
      BY <2>5, <3>3 DEF Shows, ToLocal
    <3>5. RowInv(h, mine, O, O, F, p)
      BY <2>3, <3>4, RowInstalled
    <3> QED BY <3>2, <3>5 DEF Lane
  <2>7. Steady(h, own, mine, O, O, F)
    BY <1>1, <2>6 DEF Steady
  <2>8. InHand(h, mine, O, F, phase[d], claimed[d], reply[d])
    BY <1>1 DEF InHand
  <2> QED BY <2>7, <2>8 DEF own, mine, h
<1> QED
  BY <1>1, <1>5, <1>6 DEF ConvInv, CatalogRisen, OutcomesTold, WireTold, StoresSteady, HandsHold, O

(* No step leaves a product behind for good. *)
LEMMA NextConv ==
    ASSUME IInv, IInv', JudgedInv, TombInv, ConvInv, [Next]_vars
    PROVE  ConvInv'
<1>1. ASSUME NEW d \in Devices, NEW i \in plan.intents[d], UserMutates(d, i) PROVE ConvInv'
  BY <1>1, UserMutatesConv
<1>2. ASSUME NEW d \in Devices, NEW c \in db[d].conflicts, NEW choice \in Offers(c),
             UserResolves(d, c, choice)
      PROVE  ConvInv'
  BY <1>2, UserResolvesConv
<1>3. ASSUME NEW d \in Devices, Cycle(d) PROVE ConvInv'
  BY <1>3, BeginConv, ReconcileConv, ApplyConv DEF Cycle
<1>4. ASSUME NEW d \in Devices, Elapses(d) PROVE ConvInv'
  BY <1>4, ElapsesConv
<1>5. ASSUME NEW d \in Devices, Fault(d) PROVE ConvInv'
  BY <1>5, ExchangeFailsConv, CrashConv DEF Fault, Timeout, Unauthorized, Refused
<1>6. ASSUME NEW d \in Devices, Bootstrap(d) PROVE ConvInv'
  BY <1>6, BootstrapConv
<1>7. ASSUME NEW q \in wire, Serve(q) PROVE ConvInv'
  BY <1>7, JudgeConv, ProcessConv, AnswerConv DEF Serve
<1>8. ASSUME NEW q \in wire, NEW committed \in BOOLEAN, ProcessFails(q, committed) PROVE ConvInv'
  BY <1>8, ProcessFailsConv
<1>9. CASE UNCHANGED vars
  <2>1. UNCHANGED <<db, plan, done, catalog, feed, outcomes, wire, phase, claimed, reply>>
    BY <1>9 DEF vars, device, server
  <2> QED BY <2>1 DEF ConvInv, WireTold, StoresSteady, HandsHold
<1> QED BY <1>1, <1>2, <1>3, <1>4, <1>5, <1>6, <1>7, <1>8, <1>9 DEF Next

(* A row that nothing repairs any more, and nothing excuses, is canonical.  *)
LEMMA SettledRow ==
    ASSUME NEW own, NEW known, NEW mine, NEW O, NEW C, NEW F, Grounds(own, known, mine, O, C, F),
           NEW p \in Products, NEW b \in Database, RowInv(b, mine, O, C, F, p),
           Pend(b, p) = {}, ~Excused(b, mine, F, p), \A s \in OfProduct(F, p) : s <= b.cursor
    PROVE  IF b.rows[p] = None \/ C[p] = None THEN b.rows[p] = C[p]
           ELSE /\ b.rows[p].deleted = C[p].deleted
                /\ ~b.rows[p].deleted =>
                    b.rows[p].version = C[p].version /\ b.rows[p].fields = C[p].fields
<1> DEFINE row == b.rows[p]
           N == OfProduct(F, p)
<1>1. /\ row \in LocalRow \cup {None} /\ C[p] \in Image \cup {None} /\ O[p] \in Image \cup {None}
      /\ b.cursor \in Nat
  BY DEF Database, Grounds
<1>2. row # None =>
        \/ row.deleted /\ Deleted(C, p)
        \/ ~row.deleted /\ ServersRow(O, F, p, row)
  BY DEF RowInv, Founded, Predicted
<1>3. O[p] # None \/ (\E s \in N : s <= b.cursor) => row # None
  BY DEF RowInv, Present
<1>4. Risen(C, O, F, p)
  BY DEF Grounds
<1>5. /\ \A s \in N : s \in Nat /\ F[s].image \in Image /\ F[s].image.version \in Nat /\ C[p] # None
      /\ \A s, k \in N : s = k <=> F[s].image.version = F[k].image.version
      /\ \A s, k \in N : s < k <=> F[s].image.version < F[k].image.version
      /\ N # {} => \E l \in N : C[p] = F[l].image /\ \A s \in N : s <= l
  BY VersionsRise
<1>6. ASSUME NEW m \in N PROVE ~Behind(b, F, p, m)
  <2>1. Open(b, F, p) = {}
    BY DEF Open
  <2>2. m <= b.cursor /\ ~\E s \in N : s > b.cursor
    BY <1>1, <1>5
  <2> QED BY <2>1, <2>2 DEF RowInv, Repaired
<1>7. CASE N = {}
  <2>1. C[p] = O[p]
    BY <1>4, <1>7 DEF Risen
  <2>2. O[p] = None => row = None
    BY <1>2, <1>7, <2>1 DEF ServersRow, Deleted
  <2>3. O[p] # None => row # None
    BY <1>3
  <2>4. row # None /\ O[p] # None /\ ~row.deleted =>
            ~O[p].deleted /\ O[p].version = row.version /\ O[p].fields = row.fields
    BY <1>2, <1>7 DEF ServersRow
  <2>5. row # None /\ row.deleted => C[p].deleted
    BY <1>2 DEF Deleted
  <2>6. (row # None => row.deleted \in BOOLEAN) /\ (C[p] # None => C[p].deleted \in BOOLEAN)
    BY <1>1 DEF LocalRow, Image
  <2> HIDE DEF row
  <2> QED BY <2>1, <2>2, <2>3, <2>4, <2>5, <2>6 DEF row
<1>8. CASE N # {}
  <2>1. PICK l \in N : C[p] = F[l].image /\ \A s \in N : s <= l
    BY <1>5, <1>8
  <2>2. row # None /\ C[p] # None /\ l \in Nat
    BY <1>3, <1>5, <2>1
  <2>3. (row.deleted \in BOOLEAN) /\ (C[p].deleted \in BOOLEAN) /\ row.version \in Nat
    BY <1>1, <2>2 DEF LocalRow, Image
  <2>4. row.deleted => C[p].deleted
    BY <1>2, <2>2 DEF Deleted
  <2>5. ASSUME ~row.deleted
        PROVE  ~C[p].deleted /\ row.version = C[p].version /\ row.fields = C[p].fields
    <3>1. row.version >= F[l].image.version
      BY <1>5, <1>6, <2>1, <2>2, <2>3, <2>5 DEF Behind
    <3>2. O[p] # None => F[l].image.version > O[p].version /\ O[p].version \in Nat
      BY <1>1, <1>4, <2>1 DEF Risen, Image
    <3>3. ~(O[p] # None /\ O[p].version = row.version)
      BY <1>5, <2>1, <2>3, <3>1, <3>2
    <3>4. PICK s \in N : /\ ~F[s].image.deleted
                         /\ F[s].image.version = row.version
                         /\ F[s].image.fields = row.fields
      BY <1>2, <2>2, <2>5, <3>3 DEF ServersRow
    <3>5. s = l
      <4>1. s <= l /\ ~(l < s)
        BY <1>5, <2>1, <2>2
      <4>2. F[s].image.version >= F[l].image.version
        BY <3>1, <3>4
      <4>3. ~(s < l)
        BY <1>5, <4>2
      <4> QED BY <1>5, <2>1, <4>1, <4>3
    <3> QED BY <2>1, <3>4, <3>5
  <2> HIDE DEF row
  <2> QED BY <2>2, <2>3, <2>4, <2>5 DEF row
<1> QED BY <1>7, <1>8

(* What the invariant says of a device with nothing to settle. *)
LEMMA SettledShows ==
    ASSUME IInv, TombInv, ConvInv
    PROVE  Converged
<1> SUFFICES ASSUME NEW d \in Devices, NEW p \in Products, ~Unsettled(d, p), ~UserDecided(d, p),
                    ~Overtaken(d, p), \A s \in ChangesOf(p) : s <= db[d].cursor
             PROVE  ShowsCatalog(d, p)
  BY DEF Converged
<1> DEFINE mine == MadeIds(done[d])
           b == db[d]
           O == plan.opening
<1>1. /\ Grounds(Own(done[d]), Known(done), mine, O, catalog, feed)
      /\ Lane(b, mine, O, catalog, feed, p)
  BY OnGround
<1>2. b \in Database
  BY InWorld DEF Good
<1>3. OfProduct(feed, p) = ChangesOf(p)
  BY DEF OfProduct, ChangesOf, On
<1>4. Pend(b, p) = {}
  BY DEF Pend, Outbox, Unsettled, Unsent
<1>5. Confl(b, p) = ConflictsOn(d, p)
  BY DEF Confl, ConflictsOn, On
<1>6. ~Disputed(b, p)
  <2> SUFFICES ASSUME NEW c \in Confl(b, p), c.resolution # "auto_merged", c.reason # "product_deleted"
               PROVE  FALSE
    BY DEF Disputed
  <2>1. c \in b.conflicts /\ c.op.product = p /\ c \in Conflict
    BY <1>2 DEF Confl, On, Database
  <2>2. c.resolution \in {"unresolved", "auto_merged", "resolved", "reviewed"}
    BY <2>1, Zenon DEF Conflict
  <2>3. c.resolution # "unresolved"
    BY <2>1 DEF Unsettled
  <2>4. c.resolution \notin {"reviewed", "resolved"}
    BY <1>5 DEF UserDecided
  <2> QED BY <2>2, <2>3, <2>4
<1>7. ~Outrun(b, mine, feed, p)
  <2> SUFFICES ASSUME Outrun(b, mine, feed, p) PROVE FALSE
    OBVIOUS
  <2>1. \A op : Made(d, op) <=> op.id[1] \in mine
    BY DEF Made, MadeIds
  <2> HIDE DEF mine, b
  <2> QED BY <1>3, <1>5, <2>1 DEF Outrun, Overtaken
<1>8. ~Excused(b, mine, feed, p)
  BY <1>6, <1>7 DEF Excused
<1>9. RowInv(b, mine, O, catalog, feed, p)
  BY <1>1 DEF Lane
<1> HIDE DEF mine, O
<1>10. IF b.rows[p] = None \/ catalog[p] = None THEN b.rows[p] = catalog[p]
       ELSE /\ b.rows[p].deleted = catalog[p].deleted
            /\ ~b.rows[p].deleted =>
                b.rows[p].version = catalog[p].version /\ b.rows[p].fields = catalog[p].fields
  BY <1>1, <1>2, <1>3, <1>4, <1>8, <1>9, SettledRow
<1> QED BY <1>10 DEF ShowsCatalog

(* Whatever is lost, retried, merged, written in between or installed       *)
(* again: a device with nothing to settle for a product, whose cursor has   *)
(* passed every change of it, shows it as the server has it, unless the     *)
(* user decided a conflict about it, or an edit overtook the device's own   *)
(* deletion.                                                               *)
THEOREM DevicesConverge == Spec => []Converged
<1>1. Init => IInv /\ JudgedInv /\ TombInv /\ ConvInv
  BY Opens, InitJudged, OpensTombs, OpensConv
<1>2. IInv /\ JudgedInv /\ TombInv /\ ConvInv /\ [Next]_vars =>
        IInv' /\ JudgedInv' /\ TombInv' /\ ConvInv'
  BY NextKeeps, NextJudged, NextTombs, NextConv
<1>3. IInv /\ TombInv /\ ConvInv => Converged
  BY SettledShows
<1> QED BY <1>1, <1>2, <1>3, PTL DEF Spec
=============================================================================
