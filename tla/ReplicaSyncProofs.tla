-------------------------- MODULE ReplicaSyncProofs --------------------------
(***************************************************************************)
(* Proofs about ReplicaSync, for any devices, plans, limits and bounds.    *)
(* The lemmas of ReplicaStoreProofs say what each local transaction keeps;  *)
(* here the invariant joins them with the cycle, the wire and the server.  *)
(***************************************************************************)
EXTENDS ReplicaSync, ReplicaStoreProofs
-----------------------------------------------------------------------------
(* THE INVARIANT *)

(* Operation op is the one of intent i, or a follow-up of it.               *)
From(op, i) ==
    /\ op.id[1] = i.id
    /\ op.product = i.product
    /\ IsProductOp(op) <=> IsProductOp(i)
    /\ op.kind = "delete" <=> i.kind = "delete" /\ op.id[2] = 0
    /\ op.kind = "create" => op.base = 0
    /\ op.kind = "edit" => op.basis \in Payload
    /\ op.kind = "delete" => op.base > 0
    /\ ~IsProductOp(op) =>
        /\ op.kind = i.kind /\ op.id[2] = 0 /\ op.base = 0 /\ op.at = i.at
        /\ op.counted = IF i.kind = "count" THEN i.qty ELSE 0

(* The operations of the mutations in D; those of all devices.              *)
Own(D) == {op \in Operation : \E i \in D : From(op, i)}
Known(D) == {op \in Operation : \E d \in Devices : op \in Own(D[d])}

(* The feed, and the outcomes that go with it. *)
FeedLinked(F, O) ==
    \A s \in DOMAIN F :
        LET id == F[s].op.id IN id \in DOMAIN O /\ O[id].applied /\ O[id].seq = s
OutcomesFit(O, F, known) ==
    \A id \in DOMAIN O : \E op \in known : op.id = id /\ ResultFits(op, O[id], F)
ServerOk(F, O, known) == FeedOk(F, known) /\ FeedLinked(F, O) /\ OutcomesFit(O, F, known)

(* The operations of a request, and the results it has so far.              *)
Batch(ops, own) ==
    /\ ops \in Seq(Operation)
    /\ AcceptableRequest(ops)
    /\ \A n \in DOMAIN ops : ops[n] \in own
    /\ \A n, k \in DOMAIN ops : ops[n].id = ops[k].id => n = k
VerdictsFit(ops, results, F) == \A n \in DOMAIN results : ResultFits(ops[n], results[n], F)

RequestOk(q, own, F) ==
    /\ Batch(q.ops, own)
    /\ q.cursor <= Len(F)
    /\ Len(q.results) <= Len(q.ops)
    /\ VerdictsFit(q.ops, q.results, F)

(* A live request is the one its device waits for. *)
Awaited(q, ph, ops, cursor) == q.live => ph = "waiting" /\ q.ops = ops /\ q.cursor = cursor

ReplyOk(r, ops, cursor, F) ==
    /\ r \in Response
    /\ r.from = cursor /\ r.from <= r.to /\ r.to <= Len(F)
    /\ Len(r.results) = Len(ops)
    /\ VerdictsFit(ops, r.results, F)

(* What reconciliation wrote ahead of the page. *)
Ahead(b, r, F) ==
    \A s \in Reconciled(r) \cap (r.from + 1 .. r.to) :
        /\ ~IsProductOp(F[s].op) => Holds(b, F[s])
        /\ Shown(b, F[s])

CycleOk(b, own, ph, ops, r, F) ==
    /\ Batch(ops, own)
    /\ ph \in {"reconcile", "apply"} => ReplyOk(r, ops, b.cursor, F)
    /\ ph = "apply" => Ahead(b, r, F)

(* Of the first n changes, the movements are held and the displaced         *)
(* stocktakes shown; an installed snapshot brings none of these.           *)
Covered(b, F, n, boots) ==
    \A s \in 1..n :
        /\ ~IsProductOp(F[s].op) => Holds(b, F[s])
        /\ boots = 0 => Shown(b, F[s])

StoreOk(b, D, known, F, boots) ==
    /\ Good(b, Own(D), known, Accepted(F))
    /\ b.cursor <= Len(F)
    /\ \A i \in D : Lives(b, <<i.id, 0>>, Accepted(F))
    /\ Covered(b, F, b.cursor, boots)

ServerInv == ServerOk(feed, outcomes, Known(done))
WireInv ==
    \A q \in wire :
        /\ RequestOk(q, Own(done[q.device]), feed)
        /\ Awaited(q, phase[q.device], claimed[q.device], db[q.device].cursor)
        /\ \A r \in wire : q.live /\ r.live /\ q.device = r.device => q = r
CycleInv ==
    \A d \in Devices : CycleOk(db[d], Own(done[d]), phase[d], claimed[d], reply[d], feed)
StoreInv == \A d \in Devices : StoreOk(db[d], done[d], Known(done), feed, bootstraps)

IInv == TypeOK /\ ServerInv /\ WireInv /\ CycleInv /\ StoreInv

(* What a verdict that waits for its canonical row says of the operation:   *)
(* it stays true while other transactions commit.                          *)
Reached(op, reason) ==
    /\ reason \in ShownLater
    /\ reason = "version_conflict" => IsProductOp(op) /\ catalog[op.product] \in Image
    /\ reason = "barcode_conflict" => op.kind \in {"create", "edit"}
JudgedInv == \A q \in wire : Judged(q) => Undecided(q) /\ Reached(NextOp(q), q.verdict)

(* The reason a transaction ends with is that of the state it finds, or one *)
(* that it reached before.                                                 *)
Given(op, reason) == reason = Rejection(op) \/ Reached(op, reason)
-----------------------------------------------------------------------------
(* The operations of a plan's mutations. *)

PlanKept(pl, D) ==
    /\ pl \in Plans
    /\ D \in [Devices -> SUBSET Intent]
    /\ \A d \in Devices : D[d] \subseteq pl.intents[d]

(* Operations with the same first id are of the same intent, and device.    *)
LEMMA OneIntent ==
    ASSUME NEW pl, NEW D, PlanKept(pl, D), NEW d \in Devices, NEW e \in Devices,
           NEW i \in D[d], NEW j \in D[e], i.id = j.id
    PROVE  d = e /\ i = j
BY IdsAreUnique DEF PlanKept

(* A known operation is of a mutation that was made. *)
LEMMA KnownIsFrom ==
    ASSUME NEW pl, NEW D, PlanKept(pl, D), NEW op \in Known(D)
    PROVE  op \in Operation /\ \E d \in Devices : \E i \in D[d] : From(op, i) /\ i \in Intent
BY DEF Known, Own, PlanKept

(* Operations with the same first id are of one mutation. *)
LEMMA SameIntent ==
    ASSUME NEW pl, NEW D, PlanKept(pl, D), NEW op \in Known(D), NEW other \in Known(D),
           op.id[1] = other.id[1]
    PROVE  \E d \in Devices : \E i \in D[d] : From(op, i) /\ From(other, i) /\ i \in Intent
<1>1. PICK d \in Devices : \E i \in D[d] : From(op, i) /\ i \in Intent
  BY KnownIsFrom
<1>2. PICK i \in D[d] : From(op, i) /\ i \in Intent
  BY <1>1
<1>3. PICK e \in Devices : \E j \in D[e] : From(other, j)
  BY KnownIsFrom
<1>4. PICK j \in D[e] : From(other, j)
  BY <1>3
<1>5. i.id = j.id
  BY <1>2, <1>4 DEF From
<1>6. i = j
  BY <1>5, OneIntent
<1> QED BY <1>2, <1>4, <1>6

(* The operations of a device are closed under continuation, and alike. *)
LEMMA Families ==
    ASSUME NEW pl, NEW D, PlanKept(pl, D), NEW d \in Devices
    PROVE  Family(Own(D[d]), Known(D))
<1> DEFINE own == Own(D[d])
           known == Known(D)
<1>1. own \subseteq known /\ known \subseteq Operation
  BY DEF Own, Known
<1>2. ASSUME NEW op \in known, NEW other \in known, op.id[1] = other.id[1]
      PROVE  Alike(op, other)
  <2>0. PICK e \in Devices : \E i \in D[e] : From(op, i) /\ From(other, i)
    BY <1>2, SameIntent
  <2>1. PICK i \in D[e] : From(op, i) /\ From(other, i)
    BY <2>0
  <2>2. op.id \in OpId /\ other.id \in OpId
    BY <1>1 DEF Operation
  <2>3. op.id[2] = 0 /\ other.id[2] = 0 => op.id = other.id
    BY <1>2, <2>2 DEF OpId
  <2> QED BY <2>1, <2>3 DEF From, Alike
<1>3. ASSUME NEW op \in known
      PROVE  /\ op.kind = "create" => op.base = 0
             /\ op.kind = "edit" => op.basis \in Payload
             /\ op.kind = "delete" => op.base > 0
  BY KnownIsFrom DEF From
<1>4. ASSUME NEW op \in own, NEW next \in Operation, IsProductOp(op), Continues(next, op)
      PROVE  next \in own
  <2>1. PICK i \in D[d] : From(op, i)
    BY DEF Own
  <2>2. op.id \in OpId
    BY DEF Own, Operation
  <2>3. next.id[1] = op.id[1] /\ next.id[2] > 0 /\ next.product = op.product
        /\ next.kind \in {"create", "edit"} /\ (next.kind = "create" => next.base = 0)
        /\ (next.kind = "edit" => next.basis \in Payload)
    BY <1>4, <2>2, NextIdType DEF Continues
  <2>4. From(next, i)
    BY <1>4, <2>1, <2>3 DEF From, IsProductOp
  <2> QED BY <2>4 DEF Own
<1> HIDE DEF own, known
<1> QED BY <1>1, <1>2, <1>3, <1>4 DEF Family, own, known

(* Together with the feed they are what the lemmas on databases ask for. *)
LEMMA Worlds ==
    ASSUME NEW pl, NEW D, PlanKept(pl, D), NEW F, FeedOk(F, Known(D)), NEW d \in Devices
    PROVE  World(Own(D[d]), Known(D), F)
BY Families DEF World

(* A verdict on an operation fits any other one with its id. *)
LEMMA SameVerdict ==
    ASSUME NEW pl, NEW D, PlanKept(pl, D), NEW op \in Known(D), NEW other \in Known(D),
           op.id = other.id, NEW r, NEW F, ResultFits(op, r, F)
    PROVE  ResultFits(other, r, F)
<1>0. op.id[1] = other.id[1]
  OBVIOUS
<1>3. PICK d \in Devices : \E i \in D[d] : From(op, i) /\ From(other, i)
  BY <1>0, SameIntent
<1>1. PICK i \in D[d] : From(op, i) /\ From(other, i)
  BY <1>3
<1>2. op.kind \in Kinds /\ other.kind \in Kinds
  BY DEF Known, Operation
<1>4. /\ IsProductOp(op) <=> IsProductOp(other)
      /\ op.kind = "delete" <=> other.kind = "delete"
  BY <1>1 DEF From
<1>5. op.kind \in {"create", "edit"} => other.kind \in {"create", "edit"}
  BY <1>2, <1>4 DEF IsProductOp, Kinds
<1> QED BY <1>4, <1>5 DEF ResultFits
-----------------------------------------------------------------------------
(* What the predicates keep when there are more mutations and changes.      *)

Grows(D, E) == \A d \in Devices : D[d] \subseteq E[d]
Extends(F, G) ==
    /\ Len(F) \in Nat /\ Len(G) \in Nat /\ Len(F) <= Len(G)
    /\ DOMAIN F = 1..Len(F) /\ DOMAIN G = 1..Len(G)
    /\ \A s \in DOMAIN F : G[s] = F[s]

(* More mutations, more operations. *)
LEMMA OwnGrows ==
    ASSUME NEW D, NEW E, Grows(D, E)
    PROVE  Known(D) \subseteq Known(E) /\ \A d \in Devices : Own(D[d]) \subseteq Own(E[d])
BY DEF Grows, Own, Known

(* More changes, more accepted operations. *)
LEMMA AcceptedGrows ==
    ASSUME NEW F, NEW G, Extends(F, G)
    PROVE  Accepted(F) \subseteq Accepted(G)
BY DEF Extends, Accepted

(* A verdict stays right when the feed grows. *)
LEMMA VerdictsGrow ==
    ASSUME NEW F, NEW G, Extends(F, G), NEW op, NEW r, ResultFits(op, r, F)
    PROVE  ResultFits(op, r, G)
BY DEF Extends, ResultFits

(* A batch stays one of the operations of its device. *)
LEMMA BatchGrows ==
    ASSUME NEW own, NEW own2, own \subseteq own2, NEW ops, Batch(ops, own)
    PROVE  Batch(ops, own2)
BY DEF Batch

(* So does a request. *)
LEMMA RequestGrows ==
    ASSUME NEW F, NEW G, Extends(F, G), NEW own, NEW own2, own \subseteq own2,
           NEW q, q.cursor \in Nat, RequestOk(q, own, F)
    PROVE  RequestOk(q, own2, G)
<1>1. q.cursor <= Len(G)
  BY DEF Extends, RequestOk
<1>2. VerdictsFit(q.ops, q.results, G)
  BY VerdictsGrow DEF RequestOk, VerdictsFit
<1> QED BY <1>1, <1>2, BatchGrows DEF RequestOk

(* So does a cycle. *)
LEMMA CycleGrows ==
    ASSUME NEW F, NEW G, Extends(F, G), NEW own, NEW own2, own \subseteq own2,
           NEW b, NEW ph, NEW ops, NEW r, CycleOk(b, own, ph, ops, r, F)
    PROVE  CycleOk(b, own2, ph, ops, r, G)
<1>1. Batch(ops, own2)
  BY BatchGrows DEF CycleOk
<1>2. ASSUME ReplyOk(r, ops, b.cursor, F) PROVE ReplyOk(r, ops, b.cursor, G)
  <2>1. VerdictsFit(ops, r.results, G)
    BY <1>2, VerdictsGrow DEF ReplyOk, VerdictsFit
  <2>2. r.to \in Nat
    BY <1>2 DEF ReplyOk, Response
  <2>3. r.to <= Len(G)
    BY <1>2, <2>2 DEF ReplyOk, Extends
  <2> QED BY <1>2, <2>1, <2>3 DEF ReplyOk
<1>3. ASSUME ReplyOk(r, ops, b.cursor, F), Ahead(b, r, F) PROVE Ahead(b, r, G)
  <2>1. ASSUME NEW s \in (r.from + 1 .. r.to) PROVE G[s] = F[s]
    <3>1. r.from \in Nat /\ r.to \in Nat /\ r.to <= Len(F)
      BY <1>3 DEF ReplyOk, Response
    <3>2. s \in 1..Len(F)
      BY <3>1 DEF Extends
    <3> QED BY <3>2 DEF Extends
  <2> QED BY <1>3, <2>1 DEF Ahead
<1> QED BY <1>1, <1>2, <1>3 DEF CycleOk

(* So does a database. *)
LEMMA StoreGrows ==
    ASSUME NEW F, NEW G, Extends(F, G), NEW D, NEW known, NEW known2, known \subseteq known2,
           NEW b, NEW boots, StoreOk(b, D, known, F, boots)
    PROVE  StoreOk(b, D, known2, G, boots)
<1>1. Good(b, Own(D), known2, Accepted(G))
  BY AcceptedGrows, GoodGrows DEF StoreOk
<1>2. b.cursor \in Nat /\ b.cursor <= Len(F)
  BY DEF StoreOk, Good, Database
<1>3. b.cursor <= Len(G)
  BY <1>2 DEF Extends
<1>4. \A i \in D : Lives(b, <<i.id, 0>>, Accepted(G))
  BY AcceptedGrows DEF StoreOk, Lives
<1>5. \A s \in 1..b.cursor : G[s] = F[s]
  BY <1>2 DEF Extends
<1>6. Covered(b, G, b.cursor, boots)
  BY <1>5 DEF StoreOk, Covered
<1> QED BY <1>1, <1>3, <1>4, <1>6 DEF StoreOk

(* The feed is one of known operations when more are known. *)
LEMMA FeedGrowsKnown ==
    ASSUME NEW known, NEW known2, known \subseteq known2, NEW F, NEW O, ServerOk(F, O, known)
    PROVE  ServerOk(F, O, known2)
BY DEF ServerOk, FeedOk, OutcomesFit
-----------------------------------------------------------------------------
(* THE INITIAL STATE *)

(* A database that holds nothing is good. *)
LEMMA EmptyIsGood ==
    ASSUME NEW own, NEW known
    PROVE  Good(Empty, own, known, Accepted(<< >>))
<1>1. Empty.moves = {} /\ Empty.queue = << >> /\ Empty.conflicts = {}
      /\ Empty.balance = [p \in Products |-> 0]
  BY DEF Empty
<1>2. Empty \in Database
  <2>1. << >> \in Seq(QueueRow)
    OBVIOUS
  <2>2. [p \in Products |-> None] \in [Products -> LocalRow \cup {None}]
        /\ [p \in Products |-> 0] \in [Products -> Int]
    OBVIOUS
  <2> QED BY <2>1, <2>2 DEF Empty, Database
<1>3. GoodMoves(Empty, known, Accepted(<< >>))
  BY <1>1, FS_EmptySet DEF GoodMoves
<1>4. GoodBalance(Empty)
  <2>1. \A p \in Products : MovesOf(Empty, p) = {}
    BY <1>1 DEF MovesOf
  <2> QED BY <1>1, <2>1, TotalEmpty DEF GoodBalance
<1>5. DOMAIN Empty.queue = {}
  BY <1>1
<1> QED
  BY <1>1, <1>2, <1>3, <1>4, <1>5 DEF Good, GoodQueue, GoodConflicts, GoodMerges, GoodLinks

(* The bootstrap leaves a good database. *)
LEMMA Opened ==
    ASSUME Init, NEW d \in Devices
    PROVE  db[d].cursor = 0 /\ StoreOk(db[d], done[d], Known(done), feed, bootstraps)
<1> DEFINE snapshot == [products |-> plan.opening, moves |-> {},
                        balances |-> [p \in Products |-> 0], cursor |-> 0]
           own == Own(done[d])
           known == Known(done)
<1>1. PlanKept(plan, done) /\ done[d] = {}
  BY DEF Init, PlanKept
<1>2. FeedOk(<< >>, known)
  BY DEF FeedOk
<1>3. World(own, known, << >>)
  BY <1>1, <1>2, Worlds
<1>4. LedgerOf(<< >>) = {}
  BY DEF LedgerOf
<1>5. \A p \in Products : snapshot.balances[p] = Total(Of(LedgerOf(<< >>), p))
  <2>1. \A p \in Products : Of(LedgerOf(<< >>), p) = {}
    BY <1>4 DEF Of
  <2> QED BY <2>1, TotalEmpty
<1>6. plan.opening \in [Products -> Image \cup {None}]
  BY PlansAreOfTheirKind DEF Init
<1>7. /\ snapshot.products \in [Products -> Image \cup {None}]
      /\ snapshot.moves = LedgerOf(<< >>)
      /\ snapshot.balances \in [Products -> Int]
      /\ snapshot.cursor \in Nat /\ snapshot.cursor = 0
  BY <1>4, <1>6
<1>8. db[d] = Install(Empty, snapshot) /\ feed = << >>
  BY DEF Init
<1>9. Good(Empty, own, known, Accepted(<< >>))
  BY EmptyIsGood
<1> HIDE DEF snapshot, own, known
<1>10. /\ Good(Install(Empty, snapshot), own, known, Accepted(<< >>))
       /\ Install(Empty, snapshot).cursor = snapshot.cursor
  BY <1>3, <1>5, <1>7, <1>9, Installed
<1>11. Good(db[d], own, known, Accepted(feed)) /\ db[d].cursor = 0
  BY <1>7, <1>8, <1>10
<1>12. Covered(db[d], feed, 0, bootstraps)
  BY DEF Covered
<1>13. Len(feed) = 0
  BY <1>8
<1> QED BY <1>1, <1>11, <1>12, <1>13 DEF StoreOk, own, known

(* The invariant holds at first. *)
LEMMA Opens == Init => IInv
<1> SUFFICES ASSUME Init PROVE IInv
  OBVIOUS
<1>1. StoreInv
  BY Opened DEF StoreInv
<1>2. \A d \in Devices : db[d] \in Database
  BY Opened DEF StoreOk, Good
<1>3. plan.opening \in [Products -> Image \cup {None}]
  BY PlansAreOfTheirKind DEF Init
<1>4. db = [d \in Devices |-> db[d]]
  BY DEF Init
<1>5. TypeOK
  <2>1. db \in [Devices -> Database]
    BY <1>2, <1>4
  <2>2. plan \in Plans /\ done \in [Devices -> SUBSET Intent]
        /\ \A d \in Devices : done[d] \subseteq plan.intents[d]
    BY DEF Init
  <2>3. << >> \in Seq(Operation) /\ << >> \in Seq(Change)
    OBVIOUS
  <2>4. /\ phase \in [Devices -> {"idle", "waiting", "reconcile", "apply"}]
        /\ claimed \in [Devices -> Seq(Operation)]
        /\ reply \in [Devices -> Response \cup {None}]
        /\ catalog \in [Products -> Image \cup {None}]
        /\ feed \in Seq(Change)
    BY <1>3, <2>3 DEF Init
  <2>5. DOMAIN outcomes = {}
    BY DEF Init
  <2>6. wire = {} /\ faults \in 0..MaxFaults /\ bootstraps \in 0..MaxBootstraps
    BY BoundsAreNatural DEF Init
  <2> QED BY <2>1, <2>2, <2>4, <2>5, <2>6 DEF TypeOK
<1>6. ServerInv
  BY DEF Init, ServerInv, ServerOk, FeedOk, FeedLinked, OutcomesFit
<1>7. WireInv
  BY DEF Init, WireInv
<1>8. CycleInv
  <2> SUFFICES ASSUME NEW d \in Devices
               PROVE  CycleOk(db[d], Own(done[d]), phase[d], claimed[d], reply[d], feed)
    BY DEF CycleInv
  <2>1. phase[d] = "idle" /\ claimed[d] = << >>
    BY DEF Init
  <2>2. Batch(<< >>, Own(done[d]))
    BY LimitsArePositive DEF Batch, AcceptableRequest
  <2> QED BY <2>1, <2>2 DEF CycleOk
<1> QED BY <1>1, <1>5, <1>6, <1>7, <1>8 DEF IInv
-----------------------------------------------------------------------------
(* STEPS OF A DEVICE *)

(* A database stays good over a step that loses nothing. *)
LEMMA StoreFollows ==
    ASSUME NEW b, NEW D, NEW known, NEW F \in Seq(Change), NEW boots, StoreOk(b, D, known, F, boots),
           NEW e, Good(e, Own(D), known, Accepted(F)), Follows(b, e, F)
    PROVE  StoreOk(e, D, known, F, boots)
<1>1. e.cursor = b.cursor /\ e.cursor <= Len(F)
  BY DEF Follows, StoreOk
<1>2. \A i \in D : Lives(e, <<i.id, 0>>, Accepted(F))
  BY DEF StoreOk, Lives, Follows, KeepsQueued
<1>3. Covered(e, F, e.cursor, boots)
  <2>1. b.cursor \in Nat /\ b.cursor <= Len(F)
    BY DEF StoreOk, Good, Database
  <2>2. \A s \in 1..b.cursor : s \in DOMAIN F
    BY <1>1, <2>1
  <2> QED BY <1>1, <2>1, <2>2 DEF StoreOk, Covered, Follows, KeepsHeld, KeepsShown
<1> QED BY <1>1, <1>2, <1>3 DEF StoreOk

(* What the cycle has in hand stays right over a step that loses nothing. *)
LEMMA CycleFollows ==
    ASSUME NEW F \in Seq(Change), NEW b, NEW e, Follows(b, e, F),
           NEW own, NEW ph, NEW ops, NEW r, CycleOk(b, own, ph, ops, r, F)
    PROVE  CycleOk(e, own, ph, ops, r, F)
<1>1. e.cursor = b.cursor
  BY DEF Follows
<1>2. ASSUME ReplyOk(r, ops, b.cursor, F), Ahead(b, r, F) PROVE Ahead(e, r, F)
  <2>1. r.from \in Nat /\ r.to \in Nat /\ r.to <= Len(F)
    BY <1>2 DEF ReplyOk, Response
  <2>2. \A s \in r.from + 1 .. r.to : s \in DOMAIN F
    BY <2>1
  <2> QED BY <1>2, <2>2 DEF Ahead, Follows, KeepsHeld, KeepsShown
<1> QED BY <1>1, <1>2 DEF CycleOk

(* Requests that are left on the wire, and none of them is awaited by d.    *)
LEMMA WireQuiet ==
    ASSUME IInv, NEW d \in Devices, UNCHANGED <<done, feed>>,
           \A q \in wire' : RequestOk(q, Own(done[q.device]), feed),
           \A q \in wire' : q.live => q \in wire /\ q.device # d,
           \A c \in Devices \ {d} :
              phase'[c] = phase[c] /\ claimed'[c] = claimed[c] /\ db'[c].cursor = db[c].cursor
    PROVE  WireInv'
<1> SUFFICES ASSUME NEW q \in wire'
             PROVE  /\ RequestOk(q, Own(done[q.device]), feed)
                    /\ Awaited(q, phase'[q.device], claimed'[q.device], db'[q.device].cursor)
                    /\ \A r \in wire' : q.live /\ r.live /\ q.device = r.device => q = r
  BY DEF WireInv
<1>1. Awaited(q, phase'[q.device], claimed'[q.device], db'[q.device].cursor)
  <2> SUFFICES ASSUME q.live
               PROVE  Awaited(q, phase'[q.device], claimed'[q.device], db'[q.device].cursor)
    BY DEF Awaited
  <2>1. q \in wire /\ q.device \in Devices \ {d}
    BY DEF IInv, TypeOK, Request
  <2>2. Awaited(q, phase[q.device], claimed[q.device], db[q.device].cursor)
    BY <2>1 DEF IInv, WireInv
  <2> QED BY <2>1, <2>2 DEF Awaited
<1>2. \A r \in wire' : q.live /\ r.live /\ q.device = r.device => q = r
  BY DEF IInv, WireInv
<1> QED BY <1>1, <1>2

(* Nothing on the wire changes. *)
LEMMA WireStays ==
    ASSUME IInv, UNCHANGED <<done, feed, wire, phase, claimed>>,
           \A c \in Devices : db'[c].cursor = db[c].cursor
    PROVE  WireInv'
<1>1. \A q \in wire : q.device \in Devices
  BY DEF IInv, TypeOK, Request
<1> QED BY <1>1 DEF IInv, WireInv, Awaited

(* A device that does not wait has no live request. *)
LEMMA NoneLive ==
    ASSUME IInv, NEW d \in Devices, phase[d] # "waiting", NEW q \in wire, q.device = d
    PROVE  ~q.live
BY DEF IInv, WireInv, Awaited

(* A step of device d leaves the server and the other databases alone, and  *)
(* does not move its cursor back.                                          *)
Forward(d) ==
    /\ UNCHANGED server
    /\ db'[d].cursor >= db[d].cursor
    /\ \A c \in Devices \ {d} : db'[c] = db[c]

(* A step of device d that changes its database and its cycle.              *)
LEMMA DeviceSteps ==
    ASSUME IInv, NEW d \in Devices, NEW e, e.cursor >= db[d].cursor, NEW ops \in Seq(Operation),
           NEW ph \in {"idle", "waiting", "reconcile", "apply"}, NEW r \in Response \cup {None},
           db' = [db EXCEPT ![d] = e], phase' = [phase EXCEPT ![d] = ph],
           claimed' = [claimed EXCEPT ![d] = ops], reply' = [reply EXCEPT ![d] = r],
           UNCHANGED <<plan, done, server, bootstraps>>, faults' \in 0..MaxFaults,
           wire' \subseteq Request, WireInv',
           StoreOk(e, done[d], Known(done), feed, bootstraps),
           CycleOk(e, Own(done[d]), ph, ops, r, feed)
    PROVE  IInv' /\ Forward(d)
<1>1. TypeOK'
  <2>1. e \in Database
    BY DEF StoreOk, Good
  <2>2. db' \in [Devices -> Database]
    BY <2>1 DEF IInv, TypeOK
  <2>3. phase' \in [Devices -> {"idle", "waiting", "reconcile", "apply"}]
        /\ claimed' \in [Devices -> Seq(Operation)]
        /\ reply' \in [Devices -> Response \cup {None}]
    BY DEF IInv, TypeOK
  <2> QED BY <2>2, <2>3 DEF IInv, TypeOK, server
<1>2. ServerInv'
  BY DEF IInv, ServerInv, server
<1>3. StoreInv'
  <2> SUFFICES ASSUME NEW c \in Devices
               PROVE  StoreOk(db'[c], done[c], Known(done), feed, bootstraps)
    BY DEF StoreInv, server
  <2>1. db'[c] = IF c = d THEN e ELSE db[c]
    BY DEF IInv, TypeOK
  <2> QED BY <2>1 DEF IInv, StoreInv
<1>4. CycleInv'
  <2> SUFFICES ASSUME NEW c \in Devices
               PROVE  CycleOk(db'[c], Own(done[c]), phase'[c], claimed'[c], reply'[c], feed)
    BY DEF CycleInv, server
  <2>1. /\ db'[c] = IF c = d THEN e ELSE db[c]
        /\ phase'[c] = IF c = d THEN ph ELSE phase[c]
        /\ claimed'[c] = IF c = d THEN ops ELSE claimed[c]
        /\ reply'[c] = IF c = d THEN r ELSE reply[c]
    BY DEF IInv, TypeOK
  <2> QED BY <2>1 DEF IInv, CycleInv
<1>5. Forward(d)
  BY DEF Forward, IInv, TypeOK
<1> QED BY <1>1, <1>2, <1>3, <1>4, <1>5 DEF IInv

(* What the invariant says of one device. *)
LEMMA InWorld ==
    ASSUME IInv, NEW d \in Devices
    PROVE  /\ PlanKept(plan, done) /\ feed \in Seq(Change)
           /\ World(Own(done[d]), Known(done), feed)
           /\ StoreOk(db[d], done[d], Known(done), feed, bootstraps)
           /\ Good(db[d], Own(done[d]), Known(done), Accepted(feed))
           /\ CycleOk(db[d], Own(done[d]), phase[d], claimed[d], reply[d], feed)
<1>1. PlanKept(plan, done) /\ feed \in Seq(Change)
  BY DEF IInv, TypeOK, PlanKept
<1>2. FeedOk(feed, Known(done))
  BY DEF IInv, ServerInv, ServerOk
<1>3. World(Own(done[d]), Known(done), feed)
  BY <1>1, <1>2, Worlds
<1>4. StoreOk(db[d], done[d], Known(done), feed, bootstraps)
      /\ CycleOk(db[d], Own(done[d]), phase[d], claimed[d], reply[d], feed)
  BY DEF IInv, StoreInv, CycleInv
<1> QED BY <1>1, <1>3, <1>4 DEF StoreOk

(* A cursor that is kept is not moved back. *)
LEMMA CursorKept ==
    ASSUME IInv, NEW d \in Devices, NEW e, Follows(db[d], e, feed)
    PROVE  e.cursor >= db[d].cursor
<1>1. db[d].cursor \in Nat
  BY InWorld DEF Good, Database
<1> QED BY <1>1 DEF Follows

(* A request without operations is acceptable: it only pulls. *)
LEMMA EmptyBatch == ASSUME NEW own PROVE Batch(<< >>, own) /\ << >> \in Seq(Operation)
BY LimitsArePositive DEF Batch, AcceptableRequest

(* A write between two steps of the cycles. *)
LEMMA LocalWrite ==
    ASSUME IInv, NEW d \in Devices, NEW e,
           Good(e, Own(done[d]), Known(done), Accepted(feed)), Follows(db[d], e, feed),
           db' = [db EXCEPT ![d] = e],
           UNCHANGED <<plan, done, device, server, wire, faults, bootstraps>>
    PROVE  IInv' /\ Forward(d)
<1>1. StoreOk(e, done[d], Known(done), feed, bootstraps)
  BY InWorld, StoreFollows
<1>2. CycleOk(e, Own(done[d]), phase[d], claimed[d], reply[d], feed)
  BY InWorld, CycleFollows
<1>3. /\ phase[d] \in {"idle", "waiting", "reconcile", "apply"}
      /\ claimed[d] \in Seq(Operation) /\ reply[d] \in Response \cup {None}
      /\ faults' \in 0..MaxFaults /\ wire' \subseteq Request
      /\ phase' = [phase EXCEPT ![d] = phase[d]]
      /\ claimed' = [claimed EXCEPT ![d] = claimed[d]]
      /\ reply' = [reply EXCEPT ![d] = reply[d]]
  BY DEF IInv, TypeOK, device
<1>4. WireInv'
  <2>1. \A c \in Devices : db'[c].cursor = db[c].cursor
    BY DEF IInv, TypeOK, Follows
  <2> QED BY <2>1, WireStays DEF device, server
<1>5. e.cursor >= db[d].cursor
  BY CursorKept
<1> QED BY <1>1, <1>2, <1>3, <1>4, <1>5, DeviceSteps

(* The invariant survives a choice on the conflict page. *)
LEMMA UserResolvesKeeps ==
    ASSUME IInv, NEW d \in Devices, NEW c \in db[d].conflicts, NEW choice \in Offers(c),
           UserResolves(d, c, choice)
    PROVE  IInv' /\ Forward(d)
<1> DEFINE e == Resolve(db[d], c, choice)
<1>1. db' = [db EXCEPT ![d] = e]
  BY DEF UserResolves
<1>2. Family(Own(done[d]), Known(done))
  BY InWorld DEF World
<1>3. c.resolution = "unresolved" /\ Resolve(db[d], c, choice) # None
  BY DEF UserResolves
<1>4. Good(e, Own(done[d]), Known(done), Accepted(feed)) /\ Follows(db[d], e, feed)
  BY <1>2, <1>3, InWorld, Resolved
<1> HIDE DEF e
<1> QED BY <1>1, <1>4, LocalWrite DEF UserResolves

(* It survives the end of a retry delay. *)
LEMMA ElapsesKeeps ==
    ASSUME IInv, NEW d \in Devices, Elapses(d)
    PROVE  IInv' /\ Forward(d)
<1>1. PICK id \in QueuedIds(db[d]) : Elapse(d, id)
  BY DEF Elapses
<1> DEFINE e == Restatus(db[d], {id}, "retrying", "queued")
<1>2. db' = [db EXCEPT ![d] = e]
  BY <1>1 DEF Elapse
<1>3. Good(e, Own(done[d]), Known(done), Accepted(feed)) /\ Follows(db[d], e, feed)
  BY InWorld, Restatused
<1> HIDE DEF e
<1> QED BY <1>1, <1>2, <1>3, LocalWrite DEF Elapse

(* The cycle of a device ends. *)
LEMMA CycleEnds ==
    ASSUME IInv, NEW d \in Devices, NEW e, db' = [db EXCEPT ![d] = e], Idle(d),
           e.cursor >= db[d].cursor,
           StoreOk(e, done[d], Known(done), feed, bootstraps),
           UNCHANGED <<plan, done, server, bootstraps>>, faults' \in 0..MaxFaults,
           wire' \subseteq Request,
           \A q \in wire' : RequestOk(q, Own(done[q.device]), feed),
           \A q \in wire' : q.live => q \in wire /\ q.device # d
    PROVE  IInv' /\ Forward(d)
<1>1. CycleOk(e, Own(done[d]), "idle", << >>, None, feed) /\ << >> \in Seq(Operation)
  BY EmptyBatch DEF CycleOk
<1>2. \A c \in Devices \ {d} :
        phase'[c] = phase[c] /\ claimed'[c] = claimed[c] /\ db'[c].cursor = db[c].cursor
  BY DEF IInv, TypeOK, Idle
<1>3. WireInv'
  BY <1>2, WireQuiet DEF server
<1> QED BY <1>1, <1>3, DeviceSteps DEF Idle

(* What the invariant says of requests. *)
LEMMA WireIsOk ==
    ASSUME IInv
    PROVE  wire \subseteq Request /\ \A q \in wire : RequestOk(q, Own(done[q.device]), feed)
BY DEF IInv, TypeOK, WireInv

(* The requests that an ended exchange leaves behind.                       *)
LEMMA RequestsAbandoned ==
    ASSUME IInv, NEW d \in Devices, NEW q \in Abandoned(d)
    PROVE  /\ q \in Request /\ RequestOk(q, Own(done[q.device]), feed)
           /\ q.live => q \in wire /\ q.device # d
<1>1. PICK r \in wire : q = IF r.device = d THEN [r EXCEPT !.live = FALSE] ELSE r
  BY DEF Abandoned
<1>2. r \in Request /\ RequestOk(r, Own(done[r.device]), feed)
  BY WireIsOk
<1>3. CASE r.device # d
  BY <1>1, <1>2, <1>3
<1>4. CASE r.device = d
  <2>1. q = [r EXCEPT !.live = FALSE]
    BY <1>1, <1>4
  <2>2. q \in Request /\ ~q.live /\ q.device = r.device /\ q.ops = r.ops
        /\ q.cursor = r.cursor /\ q.results = r.results
    BY <1>2, <2>1 DEF Request
  <2> QED BY <1>2, <2>2 DEF RequestOk
<1> QED BY <1>3, <1>4

(* The invariant survives a failed exchange. *)
LEMMA ExchangeFailsKeeps ==
    ASSUME IInv, NEW d \in Devices, NEW kind, NEW status \in {"retrying", "queued", "parked"},
           ExchangeFails(d, kind, status)
    PROVE  IInv' /\ Forward(d)
<1> DEFINE e == Restatus(db[d], Ids(claimed[d]), "inflight", status)
<1>1. db' = [db EXCEPT ![d] = e]
  BY DEF ExchangeFails
<1>2. Good(e, Own(done[d]), Known(done), Accepted(feed)) /\ Follows(db[d], e, feed)
  BY InWorld, Restatused
<1> HIDE DEF e
<1>3. StoreOk(e, done[d], Known(done), feed, bootstraps)
  BY <1>2, InWorld, StoreFollows
<1>4. faults' \in 0..MaxFaults
  BY BoundsAreNatural DEF ExchangeFails, Faulty, IInv, TypeOK
<1>5. wire' = Abandoned(d) /\ Idle(d) /\ UNCHANGED <<plan, done, server, bootstraps>>
  BY DEF ExchangeFails
<1>6. /\ wire' \subseteq Request
      /\ \A q \in wire' : RequestOk(q, Own(done[q.device]), feed)
      /\ \A q \in wire' : q.live => q \in wire /\ q.device # d
  BY <1>5, RequestsAbandoned
<1> QED BY <1>1, <1>2, CursorKept, <1>3, <1>4, <1>5, <1>6, CycleEnds

(* It survives a stop of the app at any point of the cycle. *)
LEMMA CrashKeeps ==
    ASSUME IInv, NEW d \in Devices, Crash(d)
    PROVE  IInv' /\ Forward(d)
<1>1. db' = [db EXCEPT ![d] = db[d]]
  BY DEF Crash, IInv, TypeOK
<1>3. db[d].cursor >= db[d].cursor
  BY InWorld DEF Good, Database
<1>2. StoreOk(db[d], done[d], Known(done), feed, bootstraps)
  BY InWorld
<1>4. faults' \in 0..MaxFaults
  BY BoundsAreNatural DEF Crash, Faulty, IInv, TypeOK
<1>5. wire' = Abandoned(d) /\ Idle(d) /\ UNCHANGED <<plan, done, server, bootstraps>>
  BY DEF Crash
<1>6. /\ wire' \subseteq Request
      /\ \A q \in wire' : RequestOk(q, Own(done[q.device]), feed)
      /\ \A q \in wire' : q.live => q \in wire /\ q.device # d
  BY <1>5, RequestsAbandoned
<1> QED BY <1>1, <1>2, <1>3, <1>4, <1>5, <1>6, CycleEnds

(* The request that a device sends. *)
Sent(d, ops, cursor) ==
    [device |-> d, ops |-> ops, cursor |-> cursor, results |-> << >>, verdict |-> "", live |-> TRUE]

(* It survives a request that is sent. *)
LEMMA SendKeeps ==
    ASSUME IInv, NEW d \in Devices, phase[d] # "waiting", NEW e, NEW ops,
           db' = [db EXCEPT ![d] = e], Send(d, ops, e.cursor), e.cursor >= db[d].cursor,
           StoreOk(e, done[d], Known(done), feed, bootstraps), Batch(ops, Own(done[d])),
           UNCHANGED <<plan, done, server, faults, bootstraps>>
    PROVE  IInv' /\ Forward(d)
<1> DEFINE new == Sent(d, ops, e.cursor)
<1>1. CycleOk(e, Own(done[d]), "waiting", ops, None, feed) /\ ops \in Seq(Operation)
  BY DEF CycleOk, Batch
<1>2. e.cursor \in Nat /\ e.cursor <= Len(feed)
  BY DEF StoreOk, Good, Database
<1>3. wire' = wire \cup {new}
  BY DEF Send, Sent
<1>4. << >> \in Seq(Outcome) /\ "" \in Verdicts
  BY DEF Verdicts
<1>5. new \in Request
  BY <1>1, <1>2, <1>4 DEF Request, Sent
<1>6. /\ new.device = d /\ new.ops = ops /\ new.cursor = e.cursor /\ new.results = << >>
      /\ new.live = TRUE
  BY DEF Sent
<1>7. RequestOk(new, Own(done[d]), feed)
  <2>1. Len(ops) \in Nat /\ Len(<< >>) = 0 /\ DOMAIN << >> = {}
    BY <1>1
  <2>2. VerdictsFit(ops, << >>, feed)
    BY <2>1 DEF VerdictsFit
  <2> QED BY <1>2, <1>6, <2>1, <2>2 DEF RequestOk
<1>8. \A q \in wire : q.device = d => ~q.live
  BY NoneLive
<1>9. \A c \in Devices : /\ db'[c] = IF c = d THEN e ELSE db[c]
                         /\ phase'[c] = IF c = d THEN "waiting" ELSE phase[c]
                         /\ claimed'[c] = IF c = d THEN ops ELSE claimed[c]
  BY DEF Send, IInv, TypeOK
<1> HIDE DEF new
<1>10. WireInv'
  <2> SUFFICES ASSUME NEW q \in wire'
               PROVE  /\ RequestOk(q, Own(done[q.device]), feed)
                      /\ Awaited(q, phase'[q.device], claimed'[q.device], db'[q.device].cursor)
                      /\ \A r \in wire' : q.live /\ r.live /\ q.device = r.device => q = r
    BY DEF WireInv, server
  <2>1. CASE q = new
    <3>1. Awaited(q, phase'[d], claimed'[d], db'[d].cursor)
      BY <1>6, <1>9, <2>1 DEF Awaited
    <3> QED BY <1>3, <1>6, <1>7, <1>8, <2>1, <3>1
  <2>2. CASE q \in wire
    <3>1. q.device \in Devices /\ RequestOk(q, Own(done[q.device]), feed)
      BY <2>2, WireIsOk DEF Request
    <3>2. Awaited(q, phase'[q.device], claimed'[q.device], db'[q.device].cursor)
      <4>1. Awaited(q, phase[q.device], claimed[q.device], db[q.device].cursor)
        BY <2>2 DEF IInv, WireInv
      <4> QED BY <1>8, <1>9, <2>2, <3>1, <4>1 DEF Awaited
    <3>3. \A r \in wire' : q.live /\ r.live /\ q.device = r.device => q = r
      BY <1>3, <1>6, <1>8, <2>2 DEF IInv, WireInv
    <3> QED BY <3>1, <3>2, <3>3
  <2> QED BY <1>3, <2>1, <2>2
<1>11. wire' \subseteq Request /\ faults' \in 0..MaxFaults
  BY <1>3, <1>5 DEF IInv, TypeOK
<1> QED BY <1>1, <1>10, <1>11, DeviceSteps DEF Send

(* What can be put into a request is acceptable to the server.              *)
LEMMA SendableIsAcceptable ==
    ASSUME NEW own, NEW known, Family(own, known), NEW op \in own, Sendable(op)
    PROVE  Acceptable(op)
<1>1. op \in known /\ op \in Operation /\ op.kind \in Kinds
  BY DEF Family, Operation
<1>2. ~IsProductOp(op) => op.base = 0
  BY <1>1 DEF Family, Alike
<1>3. op.kind = "delete" => op.base > 0
  BY <1>1 DEF Family
<1> QED BY <1>1, <1>2, <1>3 DEF Acceptable, Sendable, IsProductOp, Kinds

(* It survives the recovery and claim that begin a cycle. *)
LEMMA BeginKeeps ==
    ASSUME IInv, NEW d \in Devices, Begin(d)
    PROVE  IInv' /\ Forward(d)
<1> DEFINE own == Own(done[d])
           b == Recover(db[d])
           due == Due(b, MaxOperations)
           sendable == \A n \in DOMAIN due : Sendable(due[n])
           status == IF sendable THEN "inflight" ELSE "parked"
           e == Restatus(b, Ids(due), "queued", status)
<1>1. /\ phase[d] = "idle" /\ db' = [db EXCEPT ![d] = e]
      /\ IF sendable THEN Send(d, due, db[d].cursor) ELSE UNCHANGED <<device, wire>>
      /\ UNCHANGED <<plan, done, server, faults, bootstraps>>
  BY DEF Begin
<1>2. Good(b, own, Known(done), Accepted(feed)) /\ Follows(db[d], b, feed)
  BY InWorld, Restatused DEF Recover
<1>3. status \in {"queued", "retrying", "inflight", "parked"}
  OBVIOUS
<1>4. /\ due \in Seq(Operation) /\ Len(due) <= MaxOperations
      /\ \A n \in DOMAIN due : due[n] \in own
      /\ \A n, k \in DOMAIN due : due[n].id = due[k].id => n = k
  <2>1. b \in Database /\ GoodQueue(b, own) /\ MaxOperations \in Nat
    BY <1>2, LimitsArePositive DEF Good
  <2> HIDE DEF b, own
  <2> QED BY <2>1, DueOperations
<1> HIDE DEF b, due, sendable, status, own
<1>5. Good(e, own, Known(done), Accepted(feed)) /\ Follows(b, e, feed)
  BY <1>2, <1>3, Restatused DEF own
<1> HIDE DEF e
<1>6. Follows(db[d], e, feed)
  BY <1>2, <1>5, FollowsOn
<1>7. CASE ~sendable
  BY <1>1, <1>5, <1>6, <1>7, LocalWrite DEF own
<1>8. CASE sendable
  <2>1. Family(own, Known(done))
    BY InWorld DEF World, own
  <2>2. Batch(due, own)
    <3>1. \A n \in DOMAIN due : Acceptable(due[n])
      BY <1>4, <1>8, <2>1, SendableIsAcceptable DEF sendable
    <3> QED BY <1>4, <3>1 DEF Batch, AcceptableRequest
  <2>3. StoreOk(e, done[d], Known(done), feed, bootstraps)
    BY <1>5, <1>6, InWorld, StoreFollows DEF own
  <2>4. Send(d, due, e.cursor)
    BY <1>1, <1>6, <1>8 DEF Follows
  <2> QED BY <1>1, <1>6, CursorKept, <2>2, <2>3, <2>4, SendKeeps DEF own
<1> QED BY <1>7, <1>8

(* It survives a local transaction that throws. *)
LEMMA ReleaseKeeps ==
    ASSUME IInv, NEW d \in Devices, phase[d] # "waiting", ReleaseAndStop(d),
           UNCHANGED <<plan, done, server, wire, faults, bootstraps>>
    PROVE  IInv' /\ Forward(d)
<1> DEFINE e == Restatus(db[d], Ids(claimed[d]), "inflight", "queued")
<1>1. db' = [db EXCEPT ![d] = e] /\ Idle(d)
  BY DEF ReleaseAndStop
<1>2. Good(e, Own(done[d]), Known(done), Accepted(feed)) /\ Follows(db[d], e, feed)
  BY InWorld, Restatused
<1> HIDE DEF e
<1>3. StoreOk(e, done[d], Known(done), feed, bootstraps)
  BY <1>2, InWorld, StoreFollows
<1>4. faults' \in 0..MaxFaults
  BY DEF IInv, TypeOK
<1>5. /\ wire' \subseteq Request
      /\ \A q \in wire' : RequestOk(q, Own(done[q.device]), feed)
      /\ \A q \in wire' : q.live => q \in wire /\ q.device # d
  BY WireIsOk, NoneLive
<1> QED BY <1>1, <1>2, CursorKept, <1>3, <1>4, <1>5, CycleEnds

(* The operations and results of an answer are as reconciliation needs them. *)
LEMMA AnswerFits ==
    ASSUME NEW own, NEW known, Family(own, known), NEW F \in Seq(Change),
           NEW ops, Batch(ops, own), NEW r, NEW cursor, ReplyOk(r, ops, cursor, F)
    PROVE  /\ Len(ops) \in Nat /\ DOMAIN ops = 1..Len(ops)
           /\ DOMAIN r.results = 1..Len(ops)
           /\ \A n \in 1..Len(ops) :
                ops[n] \in own /\ OpFits(ops[n]) /\ ResultFits(ops[n], r.results[n], F)
           /\ r.from \in Nat /\ r.to \in Nat /\ DOMAIN Page(r) = r.from + 1 .. r.to
           /\ \A s \in r.from + 1 .. r.to : s \in DOMAIN F
<1>1. ops \in Seq(Operation) /\ r.results \in Seq(Outcome) /\ r.from \in Nat /\ r.to \in Nat
      /\ r.to <= Len(F)
  BY DEF Batch, ReplyOk, Response
<1>2. Len(ops) \in Nat /\ DOMAIN ops = 1..Len(ops) /\ DOMAIN r.results = 1..Len(ops)
  BY <1>1 DEF ReplyOk
<1>3. ASSUME NEW n \in 1..Len(ops)
      PROVE  ops[n] \in own /\ OpFits(ops[n]) /\ ResultFits(ops[n], r.results[n], F)
  <2>1. ops[n] \in own /\ Acceptable(ops[n]) /\ ops[n] \in Operation
    BY <1>1, <1>2 DEF Batch, AcceptableRequest
  <2>2. OpFits(ops[n])
    BY <2>1 DEF OpFits, Acceptable, Operation
  <2>3. ResultFits(ops[n], r.results[n], F)
    BY <1>2 DEF ReplyOk, VerdictsFit
  <2> QED BY <2>1, <2>2, <2>3
<1>4. DOMAIN Page(r) = r.from + 1 .. r.to
  BY DEF Page
<1>5. \A s \in r.from + 1 .. r.to : s \in DOMAIN F
  BY <1>1
<1> QED BY <1>1, <1>2, <1>3, <1>4, <1>5

(* It survives the reconciliation of the results. *)
LEMMA ReconcileKeeps ==
    ASSUME IInv, NEW d \in Devices, ReconcileResults(d)
    PROVE  IInv' /\ Forward(d)
<1> DEFINE ops == claimed[d]
           r == reply[d]
           own == Own(done[d])
           page == Page(r)
           e == Reconcile(db[d], ops, r.results, page)
<1>1. /\ phase[d] = "reconcile"
      /\ e = None => ReleaseAndStop(d)
      /\ e # None => /\ db' = [db EXCEPT ![d] = e]
                     /\ phase' = [phase EXCEPT ![d] = "apply"]
                     /\ UNCHANGED <<claimed, reply>>
      /\ UNCHANGED <<plan, done, server, wire, faults, bootstraps>>
  BY DEF ReconcileResults
<1>2. Batch(ops, own) /\ ReplyOk(r, ops, db[d].cursor, feed)
  BY <1>1, InWorld DEF CycleOk
<1>3. World(own, Known(done), feed) /\ feed \in Seq(Change) /\ Family(own, Known(done))
      /\ Good(db[d], own, Known(done), Accepted(feed))
  BY InWorld DEF World
<1>4. /\ Len(ops) \in Nat /\ DOMAIN ops = 1..Len(ops)
      /\ DOMAIN r.results = 1..Len(ops)
      /\ \A n \in 1..Len(ops) :
            ops[n] \in own /\ OpFits(ops[n]) /\ ResultFits(ops[n], r.results[n], feed)
      /\ r.from \in Nat /\ r.to \in Nat /\ DOMAIN page = r.from + 1 .. r.to
      /\ \A s \in r.from + 1 .. r.to : s \in DOMAIN feed
  <2> HIDE DEF ops, r, own
  <2> QED BY <1>2, <1>3, AnswerFits
<1>5. PageOf(page, feed)
  BY <1>4 DEF PageOf, Page
<1>6. CASE e = None
  BY <1>1, <1>6, ReleaseKeeps
<1>7. CASE e # None
  <2> DEFINE N == Len(ops)
             results == r.results
  <2>1. /\ Good(e, own, Known(done), Accepted(feed)) /\ Follows(db[d], e, feed)
        /\ \A n \in 1..N : Recorded(e, results[n], page, feed)
    <3> HIDE DEF ops, own, page
    <3>1. N \in Nat /\ DOMAIN ops = 1..N
          /\ \A n \in 1..N : ops[n] \in own /\ OpFits(ops[n]) /\ ResultFits(ops[n], results[n], feed)
      BY <1>4
    <3>2. Reconcile(db[d], ops, results, page) # None
      BY <1>7
    <3> HIDE DEF N, results
    <3>3. LET x == Reconcile(db[d], ops, results, page) IN
          /\ Good(x, own, Known(done), Accepted(feed)) /\ Follows(db[d], x, feed)
          /\ \A n \in 1..N : Recorded(x, results[n], page, feed)
      BY <1>3, <1>5, <3>1, <3>2, BatchReconciled
    <3> QED BY <3>3 DEF results
  <2> HIDE DEF e
  <2>2. StoreOk(e, done[d], Known(done), feed, bootstraps)
    BY <2>1, InWorld, StoreFollows
  <2>3. Ahead(e, r, feed)
    <3> SUFFICES ASSUME NEW s \in Reconciled(r) \cap (r.from + 1 .. r.to)
                 PROVE  (~IsProductOp(feed[s].op) => Holds(e, feed[s])) /\ Shown(e, feed[s])
      BY DEF Ahead
    <3>1. PICK n \in DOMAIN r.results : r.results[n].applied /\ s = r.results[n].seq
      BY DEF Reconciled
    <3>2. n \in 1..N /\ s \in DOMAIN page
      BY <1>4, <3>1
    <3>3. Recorded(e, results[n], page, feed)
      BY <2>1, <3>2
    <3> QED BY <3>1, <3>2, <3>3 DEF Recorded
  <2>4. e.cursor = db[d].cursor
    BY <2>1 DEF Follows
  <2>5. CycleOk(e, own, "apply", ops, r, feed)
    BY <1>2, <2>3, <2>4 DEF CycleOk
  <2>6. /\ claimed' = [claimed EXCEPT ![d] = ops] /\ reply' = [reply EXCEPT ![d] = r]
        /\ db' = [db EXCEPT ![d] = e] /\ phase' = [phase EXCEPT ![d] = "apply"]
        /\ ops \in Seq(Operation) /\ r \in Response \cup {None}
    BY <1>1, <1>7 DEF IInv, TypeOK
  <2>7. /\ wire' \subseteq Request /\ faults' \in 0..MaxFaults
        /\ \A q \in wire' : RequestOk(q, Own(done[q.device]), feed)
        /\ \A q \in wire' : q.live => q \in wire /\ q.device # d
    BY <1>1, WireIsOk, NoneLive DEF IInv, TypeOK
  <2>8. \A c \in Devices \ {d} :
          phase'[c] = phase[c] /\ claimed'[c] = claimed[c] /\ db'[c].cursor = db[c].cursor
    BY <2>6 DEF IInv, TypeOK
  <2> HIDE DEF ops, r, own
  <2>9. WireInv'
    BY <1>1, <2>7, <2>8, WireQuiet DEF server
  <2>10. e.cursor >= db[d].cursor
    BY <2>1, CursorKept
  <2> QED BY <1>1, <2>10, <2>2, <2>5, <2>6, <2>7, <2>9, DeviceSteps DEF own
<1> QED BY <1>6, <1>7

(* It survives a page, with or without another one to come. *)
LEMMA ApplyKeeps ==
    ASSUME IInv, NEW d \in Devices, ApplyChanges(d)
    PROVE  IInv' /\ Forward(d)
<1> DEFINE r == reply[d]
           own == Own(done[d])
           N == r.to - r.from
           changes == [n \in 1..N |-> feed[r.from + n]]
           fresh == {n \in DOMAIN changes : r.from + n \notin Reconciled(r)}
           e == ApplyPage(db[d], r.from, changes, fresh, r.to)
<1>1. /\ phase[d] = "apply"
      /\ e = None => ReleaseAndStop(d) /\ UNCHANGED wire
      /\ e # None => /\ db' = [db EXCEPT ![d] = e]
                     /\ IF r.more THEN Send(d, << >>, r.to) ELSE Idle(d) /\ UNCHANGED wire
      /\ UNCHANGED <<plan, done, server, faults, bootstraps>>
  BY DEF ApplyChanges
<1>2. Batch(claimed[d], own) /\ ReplyOk(r, claimed[d], db[d].cursor, feed) /\ Ahead(db[d], r, feed)
  BY <1>1, InWorld DEF CycleOk
<1>3. World(own, Known(done), feed) /\ feed \in Seq(Change) /\ Family(own, Known(done))
      /\ Good(db[d], own, Known(done), Accepted(feed))
      /\ StoreOk(db[d], done[d], Known(done), feed, bootstraps)
  BY InWorld DEF World
<1>4. r.from \in Nat /\ r.to \in Nat /\ r.from = db[d].cursor /\ r.from <= r.to /\ r.to <= Len(feed)
  BY <1>2 DEF ReplyOk, Response
<1>5. N \in Nat /\ DOMAIN changes = 1..N /\ \A s \in 1..r.to : s \in DOMAIN feed
  BY <1>3, <1>4
<1>6. ChangesAfter(changes, r.from, N, feed)
  <2>1. ASSUME NEW n \in 1..N PROVE r.from + n \in DOMAIN feed /\ changes[n] = feed[r.from + n]
    <3>1. r.from + n \in 1..r.to
      BY <1>4
    <3> QED BY <1>5, <3>1
  <2> HIDE DEF changes
  <2> QED BY <1>5, <2>1 DEF ChangesAfter
<1>7. CASE e = None
  BY <1>1, <1>7, ReleaseKeeps
<1>8. CASE e # None
  <2>1. /\ Good(e, own, Known(done), Accepted(feed))
        /\ KeepsQueued(db[d], e, Accepted(feed)) /\ KeepsHeld(db[d], e, feed)
        /\ KeepsShown(db[d], e, feed)
        /\ e.cursor = r.to
        /\ \A n \in fresh \cap 1..N : Written(e, feed[r.from + n])
    <3> DEFINE from == r.from
               last == r.to
    <3>1. from \in Nat /\ last \in Nat /\ ApplyPage(db[d], from, changes, fresh, last) # None
          /\ ChangesAfter(changes, from, N, feed)
      BY <1>4, <1>6, <1>8
    <3> HIDE DEF from, last, changes, fresh, N, own
    <3>2. LET x == ApplyPage(db[d], from, changes, fresh, last) IN
          /\ Good(x, own, Known(done), Accepted(feed))
          /\ KeepsQueued(db[d], x, Accepted(feed)) /\ KeepsHeld(db[d], x, feed)
          /\ KeepsShown(db[d], x, feed)
          /\ x.cursor = last
          /\ \A n \in fresh \cap 1..N : Written(x, feed[from + n])
      BY <1>3, <1>5, <3>1, PageApplied
    <3> QED BY <3>2 DEF from, last
  <2> HIDE DEF e
  <2>2. Covered(e, feed, r.to, bootstraps)
    <3> SUFFICES ASSUME NEW s \in 1..r.to
                 PROVE  /\ ~IsProductOp(feed[s].op) => Holds(e, feed[s])
                        /\ bootstraps = 0 => Shown(e, feed[s])
      BY DEF Covered
    <3>0. s \in DOMAIN feed
      BY <1>5
    <3>1. CASE s <= r.from
      <4>1. s \in 1..db[d].cursor
        BY <1>4, <3>1
      <4>2. /\ ~IsProductOp(feed[s].op) => Holds(db[d], feed[s])
            /\ bootstraps = 0 => Shown(db[d], feed[s])
        BY <1>3, <4>1 DEF StoreOk, Covered
      <4> QED BY <2>1, <3>0, <4>2 DEF KeepsHeld, KeepsShown
    <3>2. CASE s > r.from /\ s \in Reconciled(r)
      <4>1. s \in r.from + 1 .. r.to
        BY <1>4, <3>2
      <4>2. (~IsProductOp(feed[s].op) => Holds(db[d], feed[s])) /\ Shown(db[d], feed[s])
        BY <1>2, <3>2, <4>1 DEF Ahead
      <4> QED BY <2>1, <3>0, <4>2 DEF KeepsHeld, KeepsShown
    <3>3. CASE s > r.from /\ s \notin Reconciled(r)
      <4>1. s - r.from \in 1..N /\ r.from + (s - r.from) = s
        BY <1>4, <3>3
      <4>2. s - r.from \in fresh
        BY <1>5, <3>3, <4>1
      <4>3. Written(e, feed[s])
        BY <2>1, <4>1, <4>2
      <4>4. IsProductOp(feed[s].op) => feed[s].displaced = {}
        BY <1>3, <3>0 DEF World, FeedOk
      <4> QED BY <4>3, <4>4 DEF Written, Shown
    <3> QED BY <1>4, <3>1, <3>2, <3>3
  <2>3. StoreOk(e, done[d], Known(done), feed, bootstraps)
    <3>1. \A i \in done[d] : Lives(e, <<i.id, 0>>, Accepted(feed))
      BY <1>3, <2>1 DEF StoreOk, Lives, KeepsQueued
    <3> QED BY <1>4, <2>1, <2>2, <3>1 DEF StoreOk
  <2>4. db' = [db EXCEPT ![d] = e]
    BY <1>1, <1>8
  <2>7. e.cursor >= db[d].cursor
    BY <1>4, <2>1
  <2>5. CASE r.more
    <3>1. Send(d, << >>, e.cursor)
      BY <1>1, <1>8, <2>1, <2>5
    <3>2. Batch(<< >>, Own(done[d])) /\ phase[d] # "waiting"
      BY <1>1, EmptyBatch
    <3> QED BY <1>1, <2>3, <2>4, <2>7, <3>1, <3>2, SendKeeps
  <2>6. CASE ~r.more
    <3>1. Idle(d) /\ UNCHANGED wire
      BY <1>1, <1>8, <2>6
    <3>2. /\ wire' \subseteq Request /\ faults' \in 0..MaxFaults
          /\ \A q \in wire' : RequestOk(q, Own(done[q.device]), feed)
          /\ \A q \in wire' : q.live => q \in wire /\ q.device # d
      BY <1>1, <3>1, WireIsOk, NoneLive DEF IInv, TypeOK
    <3> QED BY <1>1, <2>3, <2>4, <2>7, <3>1, <3>2, CycleEnds
  <2> QED BY <2>5, <2>6
<1> QED BY <1>7, <1>8

(* A database stays good over a mutation, which is then queued. *)
LEMMA StoreGains ==
    ASSUME NEW b, NEW D, NEW known, NEW F \in Seq(Change), NEW boots, StoreOk(b, D, known, F, boots),
           NEW i, NEW E, E = D \cup {i}, NEW known2,
           NEW e, Good(e, Own(E), known2, Accepted(F)), Follows(b, e, F),
           <<i.id, 0>> \in QueuedIds(e)
    PROVE  StoreOk(e, E, known2, F, boots)
<1>1. e.cursor = b.cursor /\ e.cursor <= Len(F)
  BY DEF Follows, StoreOk
<1>2. ASSUME NEW j \in E PROVE Lives(e, <<j.id, 0>>, Accepted(F))
  <2>1. CASE j = i
    BY <2>1 DEF Lives
  <2>2. CASE j \in D
    BY <2>2 DEF StoreOk, Lives, Follows, KeepsQueued
  <2> QED BY <2>1, <2>2
<1>3. Covered(e, F, e.cursor, boots)
  <2>1. b.cursor \in Nat /\ b.cursor <= Len(F)
    BY DEF StoreOk, Good, Database
  <2>2. \A s \in 1..b.cursor : s \in DOMAIN F
    BY <2>1
  <2> QED BY <1>1, <2>1, <2>2 DEF StoreOk, Covered, Follows, KeepsHeld, KeepsShown
<1> QED BY <1>1, <1>2, <1>3 DEF StoreOk

(* A feed extends itself. *)
LEMMA ExtendsItself == ASSUME NEW F \in Seq(Change) PROVE Extends(F, F)
BY DEF Extends

(* The operations that are known are none of an intent that is new.         *)
LEMMA IntentIsNew ==
    ASSUME NEW pl, NEW D, PlanKept(pl, D), NEW d \in Devices, NEW i \in pl.intents[d], i \notin D[d],
           NEW op \in Known(D)
    PROVE  op.id # <<i.id, 0>>
<1> SUFFICES ASSUME op.id = <<i.id, 0>> PROVE FALSE
  OBVIOUS
<1>1. PICK e \in Devices : \E j \in D[e] : From(op, j)
  BY KnownIsFrom
<1>2. PICK j \in D[e] : From(op, j)
  BY <1>1
<1>3. i.id = j.id /\ j \in pl.intents[e]
  BY <1>2 DEF From, PlanKept
<1>4. d = e /\ i = j
  BY <1>3, IdsAreUnique DEF PlanKept
<1> QED BY <1>2, <1>4

(* The operation of a mutation is one of its device. *)
LEMMA IntentIsOwn ==
    ASSUME NEW b \in Database, NEW i \in Intent, i.kind = "count" => i.qty \in Nat, Mutable(b, i),
           NEW E, i \in E
    PROVE  OperationFor(b, i) \in Own(E)
<1> DEFINE op == OperationFor(b, i)
<1>1. /\ op \in Operation /\ op.id = <<i.id, 0>> /\ op.kind = i.kind /\ op.product = i.product
      /\ op.at = i.at /\ op.counted = IF i.kind = "count" THEN i.qty ELSE 0
      /\ op.kind \in {"edit", "delete"} => op.base > 0 /\ op.basis \in Payload
      /\ op.kind \notin {"edit", "delete"} => op.base = 0
  BY OperationOf
<1> HIDE DEF op
<1>2. op.id[1] = i.id /\ op.id[2] = 0
  BY <1>1
<1>3. From(op, i)
  BY <1>1, <1>2 DEF From, IsProductOp
<1> QED BY <1>1, <1>3 DEF Own, op

(* The invariant survives a mutation. *)
LEMMA UserMutatesKeeps ==
    ASSUME IInv, NEW d \in Devices, NEW i \in plan.intents[d], UserMutates(d, i)
    PROVE  IInv' /\ Forward(d)
<1> DEFINE b == db[d]
           E == [done EXCEPT ![d] = @ \cup {i}]
           own == Own(E[d])
           known == Known(E)
           e == Mutate(b, i)
<1>1. /\ i \notin done[d] /\ e # None /\ db' = [db EXCEPT ![d] = e] /\ done' = E
      /\ UNCHANGED <<plan, device, server, wire, faults, bootstraps>>
  BY DEF UserMutates
<1>2. PlanKept(plan, done) /\ feed \in Seq(Change) /\ b \in Database
      /\ Good(b, Own(done[d]), Known(done), Accepted(feed))
  BY InWorld DEF Good
<1>3. i \in Intent /\ (i.kind = "count" => i.qty \in Nat)
  <2>1. plan \in Plans /\ plan.intents[d] \subseteq Intent
    BY <1>2, PlansAreOfTheirKind DEF PlanKept
  <2> QED BY <2>1, CountsAreNatural
<1>4. E \in [Devices -> SUBSET Intent] /\ E[d] = done[d] \cup {i}
      /\ \A c \in Devices : c # d => E[c] = done[c]
  BY <1>2, <1>3 DEF PlanKept
<1>5. PlanKept(plan, E) /\ Grows(done, E)
  BY <1>2, <1>4 DEF PlanKept, Grows
<1>6. /\ Known(done) \subseteq known /\ \A c \in Devices : Own(done[c]) \subseteq Own(E[c])
  BY <1>5, OwnGrows
<1>7. Family(own, known)
  BY <1>5, Families
<1>8. Good(b, own, known, Accepted(feed))
  <2>1. Own(done[d]) \subseteq own
    BY <1>6
  <2> HIDE DEF own, known
  <2> QED BY <1>2, <1>6, <2>1, GoodGrows
<1>9. Good(e, own, known, Accepted(feed)) /\ Follows(b, e, feed) /\ <<i.id, 0>> \in QueuedIds(e)
  <2>1. Mutable(b, i)
    BY <1>1 DEF Mutate
  <2>2. OperationFor(b, i) \in own
    BY <1>2, <1>3, <1>4, <2>1, IntentIsOwn
  <2>3. \A op \in Known(done) : op.id # <<i.id, 0>>
    BY <1>1, <1>2, IntentIsNew
  <2>4. <<i.id, 0>> \notin QueuedIds(b)
    <3>1. \A n \in DOMAIN b.queue : b.queue[n].op \in Known(done)
      BY <1>2, Families DEF Good, GoodQueue, Family
    <3> QED BY <2>3, <3>1 DEF QueuedIds
  <2>5. ~HasConflict(b, <<i.id, 0>>)
    BY <1>2, <2>3 DEF Good, GoodConflicts, HasConflict
  <2>6. \A m \in b.moves : m.id # <<i.id, 0>>
    <3> SUFFICES ASSUME NEW m \in b.moves PROVE m.id # <<i.id, 0>>
      OBVIOUS
    <3>1. PICK op \in Known(done) : m = NewMove(op, m.delta, m.status)
      BY <1>2 DEF Good, GoodMoves, Genuine
    <3>2. m.id = op.id
      BY <3>1 DEF NewMove
    <3> QED BY <2>3, <3>2
  <2> HIDE DEF own, known, b
  <2> QED BY <1>1, <1>3, <1>7, <1>8, <2>2, <2>4, <2>5, <2>6, Mutated
<1> HIDE DEF e
<1>10. StoreOk(b, done[d], Known(done), feed, bootstraps)
       /\ CycleOk(b, Own(done[d]), phase[d], claimed[d], reply[d], feed)
  BY InWorld
<1>11. StoreOk(e, E[d], known, feed, bootstraps)
  <2> HIDE DEF b, known, E
  <2> QED BY <1>2, <1>4, <1>9, <1>10, StoreGains DEF own
<1>12. Extends(feed, feed)
  BY <1>2, ExtendsItself
<1>13. CycleOk(e, own, phase[d], claimed[d], reply[d], feed)
  <2>1. CycleOk(e, Own(done[d]), phase[d], claimed[d], reply[d], feed)
    <3> HIDE DEF b
    <3> QED BY <1>2, <1>9, <1>10, CycleFollows
  <2> QED BY <1>6, <1>12, <2>1, CycleGrows
<1>14. \A c \in Devices : db'[c] = IF c = d THEN e ELSE db[c]
  BY <1>1 DEF IInv, TypeOK
<1>15. StoreInv'
  <2> SUFFICES ASSUME NEW c \in Devices
               PROVE  StoreOk(db'[c], E[c], known, feed, bootstraps)
    BY <1>1 DEF StoreInv, server
  <2>1. CASE c = d
    BY <1>11, <1>14, <2>1
  <2>2. CASE c # d
    <3>1. StoreOk(db[c], done[c], Known(done), feed, bootstraps)
      BY InWorld
    <3>2. StoreOk(db[c], done[c], known, feed, bootstraps)
      <4> HIDE DEF known
      <4> QED BY <1>6, <1>12, <3>1, StoreGrows
    <3> QED BY <1>4, <1>14, <2>2, <3>2
  <2> QED BY <2>1, <2>2
<1>16. CycleInv'
  <2> SUFFICES ASSUME NEW c \in Devices
               PROVE  CycleOk(db'[c], Own(E[c]), phase[c], claimed[c], reply[c], feed)
    BY <1>1 DEF CycleInv, server, device
  <2>1. CASE c = d
    BY <1>13, <1>14, <2>1
  <2>2. CASE c # d
    BY <1>4, <1>14, <2>2, InWorld
  <2> QED BY <2>1, <2>2
<1>17. WireInv'
  <2> SUFFICES ASSUME NEW q \in wire
               PROVE  /\ RequestOk(q, Own(E[q.device]), feed)
                      /\ Awaited(q, phase[q.device], claimed[q.device], db'[q.device].cursor)
                      /\ \A r \in wire : q.live /\ r.live /\ q.device = r.device => q = r
    BY <1>1 DEF WireInv, server, device
  <2>1. q.device \in Devices /\ q.cursor \in Nat
    BY DEF IInv, TypeOK, Request
  <2>2. RequestOk(q, Own(E[q.device]), feed)
    <3>1. Own(done[q.device]) \subseteq Own(E[q.device]) /\ RequestOk(q, Own(done[q.device]), feed)
      BY <1>6, <2>1, WireIsOk
    <3> HIDE DEF E
    <3> QED BY <1>12, <2>1, <3>1, RequestGrows
  <2>3. db'[q.device].cursor = db[q.device].cursor
    BY <1>9, <1>14, <2>1 DEF Follows
  <2> QED BY <2>2, <2>3 DEF IInv, WireInv
<1>18. ServerInv'
  <2>1. ServerOk(feed, outcomes, known)
    <3> HIDE DEF known
    <3> QED BY <1>6, FeedGrowsKnown DEF IInv, ServerInv
  <2> QED BY <1>1, <2>1 DEF ServerInv, server
<1>19. TypeOK'
  <2>1. e \in Database
    BY <1>9 DEF Good
  <2>2. db' \in [Devices -> Database]
    BY <1>1, <2>1 DEF IInv, TypeOK
  <2>3. done' \in [Devices -> SUBSET Intent] /\ \A c \in Devices : done'[c] \subseteq plan.intents[c]
    BY <1>1, <1>5 DEF PlanKept
  <2> HIDE DEF E
  <2> QED BY <1>1, <2>2, <2>3 DEF IInv, TypeOK, server, device
<1>20. Forward(d)
  BY <1>1, <1>9, <1>14, CursorKept DEF Forward
<1> QED BY <1>15, <1>16, <1>17, <1>18, <1>19, <1>20 DEF IInv

-----------------------------------------------------------------------------
(* STEPS OF THE SERVER *)

(* It survives an answer, awaited or not. *)
LEMMA AnswerKeeps ==
    ASSUME IInv, NEW q \in wire, Answer(q)
    PROVE  IInv'
<1> DEFINE d == q.device
           to == IF q.cursor + MaxChanges < Len(feed) THEN q.cursor + MaxChanges ELSE Len(feed)
           r == [results |-> q.results, from |-> q.cursor, to |-> to, more |-> to < Len(feed)]
<1>1. /\ ~Undecided(q) /\ wire' = wire \ {q}
      /\ UNCHANGED <<plan, db, done, claimed, server, faults, bootstraps>>
      /\ q.live => /\ reply' = [reply EXCEPT ![d] = r]
                   /\ phase' = [phase EXCEPT ![d] = "reconcile"]
      /\ ~q.live => UNCHANGED <<reply, phase>>
  BY DEF Answer
<1>2. q \in Request /\ RequestOk(q, Own(done[d]), feed) /\ d \in Devices
  BY WireIsOk DEF Request
<1>3. CASE ~q.live
  <2>1. /\ wire' \subseteq wire
        /\ UNCHANGED <<plan, db, done, claimed, server, faults, bootstraps, reply, phase>>
    BY <1>1, <1>3
  <2>2. WireInv'
    <3> SUFFICES ASSUME NEW x \in wire'
                 PROVE  /\ RequestOk(x, Own(done[x.device]), feed)
                        /\ Awaited(x, phase[x.device], claimed[x.device], db[x.device].cursor)
                        /\ \A y \in wire' : x.live /\ y.live /\ x.device = y.device => x = y
      BY <2>1 DEF WireInv, server
    <3> QED BY <2>1 DEF IInv, WireInv
  <2> QED
    BY <2>1, <2>2 DEF IInv, TypeOK, ServerInv, CycleInv, StoreInv, server
<1>4. CASE q.live
  <2>1. feed \in Seq(Change) /\ CycleOk(db[d], Own(done[d]), phase[d], claimed[d], reply[d], feed)
        /\ StoreOk(db[d], done[d], Known(done), feed, bootstraps)
    BY <1>2, InWorld
  <2>2. Awaited(q, phase[d], claimed[d], db[d].cursor)
    BY DEF IInv, WireInv
  <2>3. q.ops = claimed[d] /\ q.cursor = db[d].cursor
    BY <1>4, <2>2 DEF Awaited
  <2>4. q.cursor \in Nat /\ q.cursor <= Len(feed) /\ Len(feed) \in Nat
    BY <1>2, <2>1 DEF RequestOk, Request
  <2>5. to \in Nat /\ q.cursor <= to /\ to <= Len(feed)
    BY <2>4, LimitsArePositive
  <2>6. Len(q.results) = Len(q.ops)
    BY <1>1, <1>2 DEF Undecided, RequestOk, Request
  <2>7. r \in Response
    <3>1. q.results \in Seq(Outcome) /\ (to < Len(feed)) \in BOOLEAN
      BY <1>2 DEF Request
    <3> HIDE DEF to
    <3> QED BY <2>4, <2>5, <3>1 DEF Response
  <2>8. ReplyOk(r, claimed[d], db[d].cursor, feed)
    <3>1. r.results = q.results /\ r.from = q.cursor /\ r.to = to
      OBVIOUS
    <3> HIDE DEF to, r
    <3> QED BY <1>2, <2>3, <2>5, <2>6, <2>7, <3>1 DEF ReplyOk, RequestOk
  <2> HIDE DEF r
  <2>9. CycleOk(db[d], Own(done[d]), "reconcile", claimed[d], r, feed)
    BY <2>1, <2>8 DEF CycleOk
  <2>10. /\ claimed' = [claimed EXCEPT ![d] = claimed[d]] /\ db' = [db EXCEPT ![d] = db[d]]
         /\ claimed[d] \in Seq(Operation) /\ wire' \subseteq Request /\ faults' \in 0..MaxFaults
    BY <1>1, <1>2 DEF IInv, TypeOK
  <2>11. WireInv'
    <3>1. \A x \in wire' : RequestOk(x, Own(done[x.device]), feed)
      BY <1>1, WireIsOk
    <3>2. \A x \in wire' : x.live => x \in wire /\ x.device # d
      BY <1>1, <1>4 DEF IInv, WireInv
    <3>3. \A c \in Devices \ {d} :
            phase'[c] = phase[c] /\ claimed'[c] = claimed[c] /\ db'[c].cursor = db[c].cursor
      BY <1>1, <1>4 DEF IInv, TypeOK
    <3> HIDE DEF d
    <3> QED BY <1>1, <1>2, <3>1, <3>2, <3>3, WireQuiet DEF server
  <2>12. reply' = [reply EXCEPT ![d] = r] /\ phase' = [phase EXCEPT ![d] = "reconcile"]
    BY <1>1, <1>4
  <2>13. db[d].cursor >= db[d].cursor
    BY <1>2, InWorld DEF Good, Database
  <2> HIDE DEF d
  <2> QED BY <1>1, <1>2, <2>1, <2>7, <2>9, <2>10, <2>11, <2>12, <2>13, DeviceSteps
<1> QED BY <1>3, <1>4

(* A request gets one more verdict, as the server is then.                  *)
LEMMA VerdictAdded ==
    ASSUME IInv, NEW q \in wire, Undecided(q), NEW r, ResultFits(NextOp(q), r, feed'),
           WithResult(q, r), feed' \in Seq(Change), Extends(feed, feed'),
           ServerOk(feed', outcomes', Known(done)),
           catalog' \in [Products -> Image \cup {None}],
           DOMAIN outcomes' \subseteq OpId, \A id \in DOMAIN outcomes' : outcomes'[id] \in Outcome,
           faults' \in 0..MaxFaults, UNCHANGED <<plan, db, done, device, bootstraps>>
    PROVE  IInv'
<1> DEFINE own == Own(done[q.device])
           new == [q EXCEPT !.results = Append(q.results, r), !.verdict = ""]
<1>1. q \in Request /\ RequestOk(q, own, feed)
  BY WireIsOk
<1>2. wire' = (wire \ {q}) \cup {new}
  BY DEF WithResult
<1>3. r \in Outcome
  BY DEF ResultFits
<1>4. /\ new \in Request /\ new.device = q.device /\ new.ops = q.ops /\ new.cursor = q.cursor
      /\ new.live = q.live /\ new.results = Append(q.results, r)
  <2>1. q.results \in Seq(Outcome) /\ Append(q.results, r) \in Seq(Outcome)
    BY <1>1, <1>3 DEF Request
  <2>2. "" \in Verdicts
    BY DEF Verdicts
  <2> QED BY <1>1, <2>1, <2>2 DEF Request
<1> HIDE DEF new
<1>5. RequestOk(new, own, feed')
  <2>1. RequestOk(q, own, feed')
    BY <1>1, RequestGrows DEF Request
  <2>2. Len(new.results) <= Len(new.ops)
    BY <1>1, <1>4 DEF Undecided, Request
  <2>3. ASSUME NEW n \in DOMAIN new.results
        PROVE  ResultFits(new.ops[n], new.results[n], feed')
    <3>1. q.results \in Seq(Outcome) /\ n \in 1..Len(q.results) + 1
      BY <1>1, <1>4 DEF Request
    <3>2. CASE n = Len(q.results) + 1
      <4>1. new.results[n] = r
        BY <1>3, <1>4, <3>1, <3>2
      <4> QED BY <1>4, <3>2, <4>1 DEF NextOp
    <3>3. CASE n # Len(q.results) + 1
      <4>1. n \in DOMAIN q.results /\ new.results[n] = q.results[n]
        BY <1>3, <1>4, <3>1, <3>3
      <4> QED BY <1>4, <2>1, <4>1 DEF RequestOk, VerdictsFit
    <3> QED BY <3>2, <3>3
  <2> QED BY <1>4, <2>1, <2>2, <2>3 DEF RequestOk, VerdictsFit
<1>6. WireInv'
  <2> SUFFICES ASSUME NEW x \in wire'
               PROVE  /\ RequestOk(x, Own(done[x.device]), feed')
                      /\ Awaited(x, phase[x.device], claimed[x.device], db[x.device].cursor)
                      /\ \A y \in wire' : x.live /\ y.live /\ x.device = y.device => x = y
    BY DEF WireInv, device
  <2>1. \A y \in wire : q.live /\ y.live /\ q.device = y.device => q = y
    BY DEF IInv, WireInv
  <2>2. CASE x = new
    <3>1. Awaited(q, phase[q.device], claimed[q.device], db[q.device].cursor)
      BY DEF IInv, WireInv
    <3>2. Awaited(x, phase[x.device], claimed[x.device], db[x.device].cursor)
      BY <1>4, <2>2, <3>1 DEF Awaited
    <3>3. \A y \in wire' : x.live /\ y.live /\ x.device = y.device => x = y
      BY <1>2, <1>4, <2>1, <2>2
    <3> QED BY <1>4, <1>5, <2>2, <3>2, <3>3
  <2>3. CASE x \in wire \ {q}
    <3>1. RequestOk(x, Own(done[x.device]), feed')
      BY <2>3, WireIsOk, RequestGrows DEF Request
    <3>2. /\ Awaited(x, phase[x.device], claimed[x.device], db[x.device].cursor)
          /\ \A y \in wire : x.live /\ y.live /\ x.device = y.device => x = y
      BY <2>3 DEF IInv, WireInv
    <3>3. \A y \in wire' : x.live /\ y.live /\ x.device = y.device => x = y
      BY <1>2, <1>4, <2>3, <3>2
    <3> QED BY <3>1, <3>2, <3>3
  <2> QED BY <1>2, <2>2, <2>3
<1>7. CycleInv'
  <2> SUFFICES ASSUME NEW d \in Devices
               PROVE  CycleOk(db[d], Own(done[d]), phase[d], claimed[d], reply[d], feed')
    BY DEF CycleInv, device
  <2> QED BY InWorld, CycleGrows
<1>8. StoreInv'
  <2> SUFFICES ASSUME NEW d \in Devices
               PROVE  StoreOk(db[d], done[d], Known(done), feed', bootstraps)
    BY DEF StoreInv, device
  <2> QED BY InWorld, StoreGrows
<1>9. ServerInv'
  BY DEF ServerInv
<1>10. TypeOK'
  BY <1>2, <1>4 DEF IInv, TypeOK, device
<1> QED BY <1>6, <1>7, <1>8, <1>9, <1>10 DEF IInv

(* What a rejection says. *)
LEMMA RejectionSays ==
    ASSUME NEW op \in Operation, catalog \in [Products -> Image \cup {None}]
    PROVE  /\ Rejection(op) \in Reasons \cup {None}
           /\ Rejection(op) = "version_conflict" =>
                op.kind \in {"edit", "delete"} /\ catalog[op.product] \in Image
           /\ Rejection(op) = "barcode_conflict" => op.kind \in {"create", "edit"}
           /\ Rejection(op) = None /\ op.kind # "create" => catalog[op.product] \in Image
<1>1. op.product \in Products /\ op.kind \in Kinds
  BY DEF Operation
<1>2. catalog[op.product] \in Image \cup {None}
  BY <1>1
<1> QED BY <1>2, NoneIsNoReason DEF Rejection, Reasons, BarcodeOwner, Holders

(* So does any reason that a transaction ends with. *)
LEMMA GivenSays ==
    ASSUME NEW op \in Operation, catalog \in [Products -> Image \cup {None}],
           NEW reason, Given(op, reason)
    PROVE  /\ reason \in Reasons \cup {None}
           /\ reason = "version_conflict" => IsProductOp(op) /\ catalog[op.product] \in Image
           /\ reason = "barcode_conflict" => op.kind \in {"create", "edit"}
           /\ reason = None => Rejection(op) = None
<1>1. CASE reason = Rejection(op)
  BY <1>1, RejectionSays DEF IsProductOp
<1>2. CASE Reached(op, reason)
  <2>1. reason \in ShownLater /\ ShownLater \subseteq Reasons
    BY <1>2 DEF Reached, ShownLater, Reasons
  <2> QED BY <1>2, <2>1, NoneIsNoReason DEF Reached
<1> QED BY <1>1, <1>2 DEF Given

(* Whoever has the barcode is active, and an upsert's. *)
LEMMA HolderIsActive ==
    ASSUME NEW op, Holders(op) # {}
    PROVE  LET row == catalog[CHOOSE q \in Holders(op) : TRUE] IN
           (CHOOSE q \in Holders(op) : TRUE) \in Products /\ row # None /\ ~row.deleted
BY DEF Holders

(* A rejection fits its operation. *)
LEMMA RejectedFits ==
    ASSUME NEW op \in Operation, catalog \in [Products -> Image \cup {None}],
           NEW reason \in Reasons,
           reason = "version_conflict" => IsProductOp(op) /\ catalog[op.product] \in Image,
           reason = "barcode_conflict" => op.kind \in {"create", "edit"},
           NEW F
    PROVE  ResultFits(op, Rejected(op, reason), F)
<1> DEFINE r == Rejected(op, reason)
<1>1. op.product \in Products
  BY DEF Operation
<1>2. Holders(op) # {} => catalog[CHOOSE q \in Holders(op) : TRUE] \in Image \cup {None}
  BY HolderIsActive
<1>3. r.state \in Image \cup {None}
  BY <1>1, <1>2 DEF Rejected, CanonicalRow
<1>4. /\ r.applied = FALSE /\ r.reason = reason /\ r.seq = 0 /\ r.displaced = {}
      /\ r = [applied |-> r.applied, reason |-> r.reason, seq |-> r.seq, state |-> r.state,
              displaced |-> r.displaced]
  BY DEF Rejected
<1>5. reason = "version_conflict" => r.state = catalog[op.product]
  BY DEF Rejected, CanonicalRow
<1> HIDE DEF r
<1>6. r \in Outcome
  <2>1. PICK st \in Image \cup {None} : st = r.state
    BY <1>3
  <2>2. r = [applied |-> FALSE, reason |-> reason, seq |-> 0, state |-> st, displaced |-> {}]
    BY <1>4, <2>1
  <2>3. reason \in Reasons \cup {""} /\ {} \in SUBSET Operation /\ FALSE \in BOOLEAN /\ 0 \in Nat
    OBVIOUS
  <2>4. [applied |-> FALSE, reason |-> reason, seq |-> 0, state |-> st, displaced |-> {}] \in Outcome
    BY <2>3 DEF Outcome
  <2> QED BY <2>2, <2>4
<1> QED BY <1>4, <1>5, <1>6 DEF ResultFits, r

(* The model's ledger of the feed is the one devices are compared with.     *)
LEMMA MovesAreLedger ==
    /\ CanonicalMoves = LedgerOf(feed)
    /\ \A p : CanonicalBalance(p) = Total(Of(LedgerOf(feed), p))
<1>1. CanonicalMoves = LedgerOf(feed)
  BY DEF CanonicalMoves, LedgerOf
<1> QED BY <1>1 DEF CanonicalBalance, Of

(* The canonical balance is an integer. *)
LEMMA CanonicalBalanceType ==
    ASSUME NEW own, NEW known, World(own, known, feed), NEW p
    PROVE  CanonicalBalance(p) \in Int
<1> DEFINE L == LedgerOf(feed)
<1>1. L \in SUBSET LocalMove /\ IsFiniteSet(L)
  BY LedgerOfFeed
<1>2. Of(L, p) \in SUBSET L
  BY DEF Of
<1> HIDE DEF L
<1>3. Total(Of(L, p)) \in Int
  BY <1>1, <1>2, MovesAreSummable, TotalType
<1> QED BY <1>3, MovesAreLedger DEF L

(* The change of an accepted operation.                                     *)
LEMMA ChangeFits ==
    ASSUME IInv, NEW d \in Devices, NEW op \in Own(done[d]), OpFits(op), Rejection(op) = None
    PROVE  LET c == ChangeOf(op) IN
           /\ c \in Change /\ c.op = op
           /\ IsProductOp(op) => c.image \in Image /\ c.displaced = {}
           /\ \A x \in c.displaced : ~IsProductOp(x) /\ \E k \in DOMAIN feed : feed[k].op = x
<1> DEFINE c == ChangeOf(op)
           row == catalog[op.product]
<1>1. op \in Operation /\ op.kind \in Kinds /\ op.product \in Products
  BY DEF Own, Operation
<1>2. catalog \in [Products -> Image \cup {None}] /\ feed \in Seq(Change) /\ Len(feed) \in Nat
  BY DEF IInv, TypeOK
<1>3. row \in Image \cup {None} /\ (op.kind # "create" => row \in Image)
  BY <1>1, <1>2, RejectionSays
<1>4. CanonicalBalance(op.product) \in Int
  BY InWorld, CanonicalBalanceType
<1>5. \A x \in LatestCount(op.product) :
        /\ x \in Operation /\ ~IsProductOp(x)
        /\ \E k \in DOMAIN feed : feed[k].op = x
  <2> SUFFICES ASSUME NEW x \in LatestCount(op.product)
               PROVE  /\ x \in Operation /\ ~IsProductOp(x)
                      /\ \E k \in DOMAIN feed : feed[k].op = x
    OBVIOUS
  <2>1. PICK k \in DOMAIN feed : x = feed[k].op /\ feed[k].op.kind = "count"
    BY DEF LatestCount
  <2>2. feed[k] \in Change
    BY <1>2
  <2> QED BY <2>1, <2>2 DEF Change, IsProductOp
<1>6. c.op = op /\ c.delta \in Int
  <2>1. op.delta \in Int /\ op.counted \in Nat
    BY <1>1 DEF Operation
  <2> QED BY <1>4, <2>1 DEF ChangeOf
<1>7. c.displaced = IF op.kind = "count" THEN LatestCount(op.product) ELSE {}
  BY DEF ChangeOf
<1>8. ASSUME IsProductOp(op) PROVE c.image \in Image
  <2> DEFINE version == IF row = None THEN 1 ELSE row.version + 1
             fields == IF op.kind = "delete" THEN row.fields ELSE op.fields
  <2>1. version \in Nat \ {0}
    BY <1>3 DEF Image
  <2>2. fields \in Payload
    <3>1. CASE op.kind = "delete"
      BY <1>3, <3>1 DEF Image
    <3>2. CASE op.kind # "delete"
      BY <1>8, <3>2 DEF IsProductOp, OpFits
    <3> QED BY <3>1, <3>2
  <2>3. c.image = [version |-> version, deleted |-> op.kind = "delete", fields |-> fields,
                   stamp |-> Len(feed) + 1]
    BY <1>8 DEF ChangeOf
  <2>4. (op.kind = "delete") \in BOOLEAN /\ Len(feed) + 1 \in Nat \cup {None}
    BY <1>2
  <2> HIDE DEF version, fields, c
  <2> QED BY <2>1, <2>2, <2>3, <2>4 DEF Image
<1>9. ~IsProductOp(op) => c.image = None
  BY DEF ChangeOf
<1>10. c = [op |-> c.op, image |-> c.image, delta |-> c.delta, displaced |-> c.displaced]
  BY DEF ChangeOf
<1> HIDE DEF c
<1>11. c.displaced \in SUBSET Operation
  BY <1>5, <1>7
<1>12. c \in Change
  <2>1. PICK image \in Image \cup {None} : image = c.image
    BY <1>8, <1>9
  <2>2. PICK delta \in Int : delta = c.delta
    BY <1>6
  <2>3. PICK displaced \in SUBSET Operation : displaced = c.displaced
    BY <1>11
  <2>4. c = [op |-> op, image |-> image, delta |-> delta, displaced |-> displaced]
    BY <1>6, <1>10, <2>1, <2>2, <2>3
  <2>5. [op |-> op, image |-> image, delta |-> delta, displaced |-> displaced] \in Change
    BY <1>1 DEF Change
  <2> QED BY <2>4, <2>5
<1>13. IsProductOp(op) => c.displaced = {}
  BY <1>7 DEF IsProductOp
<1> QED BY <1>5, <1>6, <1>7, <1>8, <1>12, <1>13 DEF c

(* A feed with one change more, of an operation it does not have yet.       *)
LEMMA FeedAppended ==
    ASSUME NEW F, NEW known, FeedOk(F, known), NEW c \in Change, c.op \in known,
           IsProductOp(c.op) => c.image \in Image /\ c.displaced = {},
           \A x \in c.displaced : ~IsProductOp(x) /\ \E k \in DOMAIN F : F[k].op = x,
           \A s \in DOMAIN F : F[s].op.id # c.op.id
    PROVE  LET G == Append(F, c) IN
           /\ FeedOk(G, known) /\ Extends(F, G) /\ Len(G) = Len(F) + 1 /\ G[Len(F) + 1] = c
<1> DEFINE G == Append(F, c)
           N == Len(F)
<1>1. F \in Seq(Change) /\ N \in Nat /\ DOMAIN F = 1..N
  BY DEF FeedOk
<1>2. G \in Seq(Change) /\ Len(G) = N + 1 /\ DOMAIN G = 1..N + 1 /\ G[N + 1] = c
      /\ \A s \in 1..N : G[s] = F[s]
  BY <1>1
<1> HIDE DEF G, N
<1>3. Extends(F, G)
  BY <1>1, <1>2 DEF Extends, N
<1>4. \A s \in DOMAIN G : s \in DOMAIN F \/ s = N + 1
  BY <1>1, <1>2
<1>5. ASSUME NEW s \in DOMAIN G
      PROVE  /\ G[s].op \in known
             /\ IsProductOp(G[s].op) => G[s].image \in Image /\ G[s].displaced = {}
             /\ \A op \in G[s].displaced : ~IsProductOp(op) /\ \E k \in DOMAIN G : G[k].op = op
  <2>1. \A op : (\E k \in DOMAIN F : F[k].op = op) => \E k \in DOMAIN G : G[k].op = op
    BY <1>1, <1>2
  <2>2. CASE s = N + 1
    BY <1>2, <2>1, <2>2
  <2>3. CASE s \in DOMAIN F
    <3>1. G[s] = F[s]
      BY <1>1, <1>2, <2>3
    <3>2. /\ F[s].op \in known
          /\ IsProductOp(F[s].op) => F[s].image \in Image /\ F[s].displaced = {}
          /\ \A op \in F[s].displaced : ~IsProductOp(op) /\ \E k \in DOMAIN F : F[k].op = op
      BY <2>3 DEF FeedOk
    <3> QED BY <2>1, <3>1, <3>2
  <2> QED BY <1>4, <2>2, <2>3
<1>6. ASSUME NEW s \in DOMAIN G, NEW k \in DOMAIN G, G[s].op.id = G[k].op.id PROVE s = k
  <2>1. CASE s \in DOMAIN F /\ k \in DOMAIN F
    <3>1. G[s] = F[s] /\ G[k] = F[k]
      BY <1>1, <1>2, <2>1
    <3> QED BY <1>6, <2>1, <3>1 DEF FeedOk
  <2>2. CASE s = N + 1 /\ k \in DOMAIN F
    BY <1>1, <1>2, <1>6, <2>2
  <2>3. CASE s \in DOMAIN F /\ k = N + 1
    BY <1>1, <1>2, <1>6, <2>3
  <2> QED BY <1>4, <2>1, <2>2, <2>3
<1>7. FeedOk(G, known)
  BY <1>2, <1>5, <1>6 DEF FeedOk
<1> QED BY <1>2, <1>3, <1>7 DEF G, N

(* The server's decision on an operation that it has not decided yet.       *)
LEMMA OperationDecided ==
    ASSUME IInv, NEW d \in Devices, NEW op \in Own(done[d]), OpFits(op),
           op.id \notin DOMAIN outcomes, NEW reason, Given(op, reason), Decide(op, reason)
    PROVE  /\ feed' \in Seq(Change) /\ Extends(feed, feed')
           /\ ServerOk(feed', outcomes', Known(done))
           /\ catalog' \in [Products -> Image \cup {None}]
           /\ \A p \in Products : catalog[p] \in Image => catalog'[p] \in Image
           /\ DOMAIN outcomes' \subseteq OpId
           /\ \A id \in DOMAIN outcomes' : outcomes'[id] \in Outcome
           /\ op.id \in DOMAIN outcomes' /\ ResultFits(op, outcomes'[op.id], feed')
<1> DEFINE c == ChangeOf(op)
           r == IF reason = None THEN Applied(c) ELSE Rejected(op, reason)
           known == Known(done)
<1>1. /\ outcomes' = [id \in DOMAIN outcomes \cup {op.id} |-> IF id = op.id THEN r ELSE outcomes[id]]
      /\ reason # None => UNCHANGED <<catalog, feed>>
      /\ reason = None =>
            /\ feed' = Append(feed, c)
            /\ catalog' = IF IsProductOp(op) THEN [catalog EXCEPT ![op.product] = c.image]
                          ELSE catalog
  BY DEF Decide
<1>2. /\ ServerOk(feed, outcomes, known) /\ feed \in Seq(Change)
      /\ catalog \in [Products -> Image \cup {None}]
      /\ DOMAIN outcomes \subseteq OpId /\ \A id \in DOMAIN outcomes : outcomes[id] \in Outcome
  BY DEF IInv, TypeOK, ServerInv
<1>3. op \in known /\ op \in Operation /\ op.id \in OpId
  BY DEF Known, Own, Operation
<1>0. /\ reason \in Reasons \cup {None}
      /\ reason = "version_conflict" => IsProductOp(op) /\ catalog[op.product] \in Image
      /\ reason = "barcode_conflict" => op.kind \in {"create", "edit"}
      /\ reason = None => Rejection(op) = None
  BY <1>2, <1>3, GivenSays
<1> HIDE DEF c, known
<1>4. /\ feed' \in Seq(Change) /\ Extends(feed, feed') /\ FeedOk(feed', known)
      /\ catalog' \in [Products -> Image \cup {None}]
      /\ \A p \in Products : catalog[p] \in Image => catalog'[p] \in Image
      /\ reason = None => Len(feed') = Len(feed) + 1 /\ feed'[Len(feed) + 1] = c
  <2>1. CASE reason # None
    BY <1>1, <1>2, <2>1, ExtendsItself DEF ServerOk
  <2>2. CASE reason = None
    <3>1. /\ c \in Change /\ c.op = op
          /\ IsProductOp(op) => c.image \in Image /\ c.displaced = {}
          /\ \A x \in c.displaced : ~IsProductOp(x) /\ \E k \in DOMAIN feed : feed[k].op = x
      BY <1>0, <2>2, ChangeFits DEF c
    <3>2. \A s \in DOMAIN feed : feed[s].op.id # op.id
      BY <1>2 DEF ServerOk, FeedLinked
    <3>3. LET G == Append(feed, c) IN
          /\ FeedOk(G, known) /\ Extends(feed, G) /\ Len(G) = Len(feed) + 1
          /\ G[Len(feed) + 1] = c
      BY <1>2, <1>3, <3>1, <3>2, FeedAppended DEF ServerOk
    <3>4. /\ catalog' \in [Products -> Image \cup {None}]
          /\ \A p \in Products : catalog[p] \in Image => catalog'[p] \in Image
      BY <1>1, <1>2, <2>2, <3>1
    <3> QED BY <1>1, <2>2, <3>3, <3>4 DEF FeedOk
  <2> QED BY <2>1, <2>2
<1>5. ResultFits(op, r, feed')
  <2>1. CASE reason = None
    <3>1. c \in Change /\ c.op = op
      BY <1>0, <2>1, ChangeFits DEF c
    <3>2. r.applied = TRUE /\ r.seq = Len(feed) + 1 /\ r.displaced = c.displaced
      BY <2>1 DEF Applied
    <3>3. r \in Outcome
      <4>1. PICK displaced \in SUBSET Operation : displaced = c.displaced
        BY <3>1 DEF Change
      <4>2. r = [applied |-> TRUE, reason |-> "", seq |-> Len(feed) + 1, state |-> None,
                 displaced |-> displaced]
        BY <2>1, <4>1 DEF Applied
      <4>3. Len(feed) + 1 \in Nat
        BY <1>2
      <4>4. [applied |-> TRUE, reason |-> "", seq |-> Len(feed) + 1, state |-> None,
             displaced |-> displaced] \in Outcome
        BY <4>3 DEF Outcome
      <4> QED BY <4>2, <4>4
    <3>4. Len(feed) + 1 \in DOMAIN feed'
      BY <1>2, <1>4, <2>1
    <3> HIDE DEF r
    <3> QED BY <1>4, <2>1, <3>1, <3>2, <3>3, <3>4 DEF ResultFits
  <2>2. CASE reason # None
    <3>1. ResultFits(op, Rejected(op, reason), feed')
      BY <1>0, <1>2, <1>3, <2>2, RejectedFits
    <3> QED BY <2>2, <3>1
  <2> QED BY <2>1, <2>2
<1>6. reason = None => r.applied = TRUE /\ r.seq = Len(feed) + 1
  BY DEF Applied
<1> HIDE DEF r
<1>7. /\ DOMAIN outcomes' = DOMAIN outcomes \cup {op.id} /\ outcomes'[op.id] = r
      /\ \A id \in DOMAIN outcomes : outcomes'[id] = outcomes[id]
  BY <1>1
<1>8. FeedLinked(feed', outcomes')
  <2> SUFFICES ASSUME NEW s \in DOMAIN feed'
               PROVE  LET id == feed'[s].op.id IN
                      id \in DOMAIN outcomes' /\ outcomes'[id].applied /\ outcomes'[id].seq = s
    BY DEF FeedLinked
  <2>1. CASE s \in DOMAIN feed
    <3>1. feed'[s] = feed[s]
      BY <1>4, <2>1 DEF Extends
    <3> QED BY <1>2, <1>7, <2>1, <3>1 DEF ServerOk, FeedLinked
  <2>2. CASE s \notin DOMAIN feed
    <3>1. reason = None /\ s = Len(feed) + 1
      BY <1>1, <1>2, <1>4, <2>2
    <3>2. feed'[s].op = op
      BY <1>0, <1>4, <3>1, ChangeFits DEF c
    <3> QED BY <1>6, <1>7, <3>1, <3>2
  <2> QED BY <2>1, <2>2
<1>9. OutcomesFit(outcomes', feed', known)
  <2> SUFFICES ASSUME NEW id \in DOMAIN outcomes'
               PROVE  \E x \in known : x.id = id /\ ResultFits(x, outcomes'[id], feed')
    BY DEF OutcomesFit
  <2>1. CASE id = op.id
    BY <1>3, <1>5, <1>7, <2>1
  <2>2. CASE id # op.id
    <3>1. id \in DOMAIN outcomes /\ outcomes'[id] = outcomes[id]
      BY <1>7, <2>2
    <3>2. PICK x \in known : x.id = id /\ ResultFits(x, outcomes[id], feed)
      BY <1>2, <3>1 DEF ServerOk, OutcomesFit
    <3>3. ResultFits(x, outcomes[id], feed')
      BY <1>4, <3>2, VerdictsGrow
    <3> QED BY <3>1, <3>2, <3>3
  <2> QED BY <2>1, <2>2
<1>10. /\ DOMAIN outcomes' \subseteq OpId
       /\ \A id \in DOMAIN outcomes' : outcomes'[id] \in Outcome
  BY <1>2, <1>3, <1>5, <1>7 DEF ResultFits
<1> QED BY <1>4, <1>5, <1>7, <1>8, <1>9, <1>10 DEF ServerOk, known

(* The operation a request has next is one of its device. *)
LEMMA NextOpFits ==
    ASSUME IInv, NEW q \in wire, Undecided(q)
    PROVE  /\ q.device \in Devices /\ NextOp(q) \in Own(done[q.device])
           /\ NextOp(q) \in Known(done) /\ NextOp(q) \in Operation /\ OpFits(NextOp(q))
<1>1. q \in Request /\ Batch(q.ops, Own(done[q.device])) /\ Len(q.results) <= Len(q.ops)
  BY WireIsOk DEF RequestOk
<1>2. Len(q.results) + 1 \in DOMAIN q.ops /\ q.device \in Devices
  BY <1>1 DEF Undecided, Request
<1>3. /\ NextOp(q) \in Own(done[q.device]) /\ Acceptable(NextOp(q)) /\ NextOp(q) \in Operation
  BY <1>1, <1>2 DEF NextOp, Batch, AcceptableRequest
<1>4. OpFits(NextOp(q))
  BY <1>3 DEF OpFits, Acceptable, Operation
<1>5. NextOp(q) \in Known(done)
  BY <1>2, <1>3 DEF Known
<1> QED BY <1>2, <1>3, <1>4, <1>5

(* A transaction that is concluded decides its operation. *)
LEMMA ConcludeDecides ==
    ASSUME JudgedInv, NEW q \in wire, Conclude(q)
    PROVE  \E reason : Given(NextOp(q), reason) /\ Decide(NextOp(q), reason)
<1>1. CASE Judged(q)
  BY <1>1 DEF Conclude, JudgedInv, Given
<1>2. CASE ~Judged(q)
  BY <1>2 DEF Conclude, Given
<1> QED BY <1>1, <1>2

(* The server stays right when it does nothing. *)
LEMMA ServerStays ==
    ASSUME IInv, UNCHANGED server
    PROVE  /\ feed' \in Seq(Change) /\ Extends(feed, feed')
           /\ ServerOk(feed', outcomes', Known(done))
           /\ catalog' \in [Products -> Image \cup {None}]
           /\ DOMAIN outcomes' \subseteq OpId
           /\ \A id \in DOMAIN outcomes' : outcomes'[id] \in Outcome
BY ExtendsItself DEF IInv, TypeOK, ServerInv, server

(* The invariant survives an operation decided, or its outcome replayed. *)
LEMMA ProcessKeeps ==
    ASSUME IInv, JudgedInv, NEW q \in wire, Process(q)
    PROVE  IInv'
<1> DEFINE op == NextOp(q)
           r == outcomes'[op.id]
<1>1. /\ Undecided(q)
      /\ op.id \in DOMAIN outcomes => UNCHANGED server
      /\ op.id \notin DOMAIN outcomes => \E reason : Given(op, reason) /\ Decide(op, reason)
      /\ WithResult(q, r)
      /\ UNCHANGED <<plan, db, done, device, faults, bootstraps>>
  BY ConcludeDecides DEF Process
<1>2. q.device \in Devices /\ op \in Own(done[q.device]) /\ op \in Known(done) /\ OpFits(op)
  BY <1>1, NextOpFits
<1>3. faults' \in 0..MaxFaults
  BY <1>1 DEF IInv, TypeOK
<1>4. CASE op.id \in DOMAIN outcomes
  <2>1. UNCHANGED server
    BY <1>1, <1>4
  <2>2. r = outcomes[op.id] /\ feed' = feed
    BY <2>1 DEF server
  <2>3. PICK other \in Known(done) : other.id = op.id /\ ResultFits(other, outcomes[op.id], feed)
    BY <1>4 DEF IInv, ServerInv, ServerOk, OutcomesFit
  <2>4. PlanKept(plan, done)
    BY <1>2, InWorld
  <2> HIDE DEF op, r
  <2>5. ResultFits(op, outcomes[op.id], feed)
    BY <1>2, <2>3, <2>4, SameVerdict
  <2>6. ResultFits(op, r, feed')
    BY <2>2, <2>5
  <2> QED BY <1>1, <1>3, <2>1, <2>6, ServerStays, VerdictAdded DEF op
<1>5. CASE op.id \notin DOMAIN outcomes
  <2>1. PICK reason : Given(op, reason) /\ Decide(op, reason)
    BY <1>1, <1>5
  <2> HIDE DEF op
  <2>2. /\ feed' \in Seq(Change) /\ Extends(feed, feed')
        /\ ServerOk(feed', outcomes', Known(done))
        /\ catalog' \in [Products -> Image \cup {None}]
        /\ DOMAIN outcomes' \subseteq OpId
        /\ \A id \in DOMAIN outcomes' : outcomes'[id] \in Outcome
        /\ ResultFits(op, r, feed')
    BY <1>2, <1>5, <2>1, OperationDecided
  <2> HIDE DEF r
  <2> QED BY <1>1, <1>3, <2>2, VerdictAdded DEF op
<1> QED BY <1>4, <1>5

(* It survives a transaction that fails, committed or not. *)
LEMMA ProcessFailsKeeps ==
    ASSUME IInv, JudgedInv, NEW q \in wire, NEW committed \in BOOLEAN,
           ProcessFails(q, committed)
    PROVE  IInv'
<1> DEFINE op == NextOp(q)
           r == Rejected(op, "internal_error")
<1>1. /\ Undecided(q) /\ op.id \notin DOMAIN outcomes
      /\ committed => \E reason : Given(op, reason) /\ Decide(op, reason)
      /\ ~committed => UNCHANGED server
      /\ WithResult(q, r)
      /\ UNCHANGED <<plan, db, done, device, bootstraps>>
  BY ConcludeDecides DEF ProcessFails
<1>2. /\ q.device \in Devices /\ op \in Own(done[q.device]) /\ op \in Known(done)
      /\ op \in Operation /\ OpFits(op)
  BY <1>1, NextOpFits
<1>3. faults' \in 0..MaxFaults
  BY BoundsAreNatural DEF IInv, TypeOK, ProcessFails, Faulty
<1>4. ResultFits(op, r, feed')
  <2>1. catalog \in [Products -> Image \cup {None}] /\ "internal_error" \in Reasons
    BY DEF IInv, TypeOK, Reasons
  <2> HIDE DEF op
  <2> QED BY <1>2, <2>1, RejectedFits
<1> HIDE DEF r, op
<1>5. /\ feed' \in Seq(Change) /\ Extends(feed, feed')
      /\ ServerOk(feed', outcomes', Known(done))
      /\ catalog' \in [Products -> Image \cup {None}]
      /\ DOMAIN outcomes' \subseteq OpId
      /\ \A id \in DOMAIN outcomes' : outcomes'[id] \in Outcome
  <2>1. CASE committed
    <3>1. PICK reason : Given(op, reason) /\ Decide(op, reason)
      BY <1>1, <2>1
    <3> QED BY <1>1, <1>2, <3>1, OperationDecided
  <2>2. CASE ~committed
    BY <1>1, <2>2, ServerStays
  <2> QED BY <2>1, <2>2
<1> QED BY <1>1, <1>3, <1>4, <1>5, VerdictAdded DEF op

(* It survives a snapshot that is installed. *)
LEMMA BootstrapKeeps ==
    ASSUME IInv, NEW d \in Devices, Bootstrap(d)
    PROVE  IInv' /\ Forward(d)
<1> DEFINE own == Own(done[d])
           known == Known(done)
           e == Install(db[d], Snapshot)
<1>1. /\ phase[d] = "idle" /\ bootstraps < MaxBootstraps
      /\ db' = [db EXCEPT ![d] = e] /\ bootstraps' = bootstraps + 1
      /\ UNCHANGED <<plan, done, device, server, wire, faults>>
  BY DEF Bootstrap
<1>2. /\ World(own, known, feed) /\ Good(db[d], own, known, Accepted(feed))
      /\ StoreOk(db[d], done[d], known, feed, bootstraps)
      /\ CycleOk(db[d], own, phase[d], claimed[d], reply[d], feed)
      /\ feed \in Seq(Change) /\ Len(feed) \in Nat
  BY InWorld
<1>3. bootstraps \in Nat
  BY BoundsAreNatural DEF IInv, TypeOK
<1>4. /\ Snapshot.products \in [Products -> Image \cup {None}]
      /\ Snapshot.moves = LedgerOf(feed) /\ Snapshot.cursor = Len(feed)
      /\ \A p \in Products : Snapshot.balances[p] = Total(Of(LedgerOf(feed), p))
      /\ Snapshot.balances \in [Products -> Int]
  <2>1. \A p \in Products : CanonicalBalance(p) \in Int
    BY <1>2, CanonicalBalanceType
  <2>2. /\ Snapshot.products = catalog /\ Snapshot.moves = CanonicalMoves
        /\ Snapshot.balances = [p \in Products |-> CanonicalBalance(p)]
        /\ Snapshot.cursor = Len(feed)
    BY DEF Snapshot
  <2>3. catalog \in [Products -> Image \cup {None}]
    BY DEF IInv, TypeOK
  <2> QED BY <2>1, <2>2, <2>3, MovesAreLedger
<1> HIDE DEF own, known
<1>5. /\ Good(e, own, known, Accepted(feed))
      /\ KeepsQueued(db[d], e, Accepted(feed)) /\ KeepsShown(db[d], e, feed)
      /\ \A s \in DOMAIN feed : ~IsProductOp(feed[s].op) => Holds(e, feed[s])
      /\ e.cursor = Snapshot.cursor
  BY <1>2, <1>4, Installed
<1> HIDE DEF e
<1>6. e.cursor = Len(feed)
  BY <1>4, <1>5
<1>7. StoreOk(e, done[d], known, feed, bootstraps + 1)
  <2>1. \A i \in done[d] : Lives(e, <<i.id, 0>>, Accepted(feed))
    BY <1>2, <1>5 DEF StoreOk, Lives, KeepsQueued
  <2>2. Covered(e, feed, Len(feed), bootstraps + 1)
    BY <1>2, <1>3, <1>5 DEF Covered
  <2> QED BY <1>2, <1>5, <1>6, <2>1, <2>2 DEF StoreOk, own
<1>8. \A c \in Devices : db'[c] = IF c = d THEN e ELSE db[c]
  BY <1>1 DEF IInv, TypeOK
<1>9. StoreInv'
  <2> SUFFICES ASSUME NEW c \in Devices
               PROVE  StoreOk(db'[c], done[c], known, feed, bootstraps + 1)
    BY <1>1 DEF StoreInv, server, known
  <2>1. CASE c = d
    BY <1>7, <1>8, <2>1
  <2>2. CASE c # d
    <3>1. StoreOk(db[c], done[c], known, feed, bootstraps)
      BY InWorld DEF known
    <3> QED BY <1>3, <1>8, <2>2, <3>1 DEF StoreOk, Covered
  <2> QED BY <2>1, <2>2
<1>10. CycleInv'
  <2> SUFFICES ASSUME NEW c \in Devices
               PROVE  CycleOk(db'[c], Own(done[c]), phase[c], claimed[c], reply[c], feed)
    BY <1>1 DEF CycleInv, server, device
  <2>1. CASE c = d
    BY <1>1, <1>2, <2>1 DEF CycleOk, own
  <2>2. CASE c # d
    BY <1>8, <2>2, InWorld
  <2> QED BY <2>1, <2>2
<1>11. WireInv'
  <2>1. /\ \A q \in wire' : RequestOk(q, Own(done[q.device]), feed)
        /\ \A q \in wire' : q.live => q \in wire /\ q.device # d
    BY <1>1, WireIsOk, NoneLive
  <2>2. \A c \in Devices \ {d} :
          phase'[c] = phase[c] /\ claimed'[c] = claimed[c] /\ db'[c].cursor = db[c].cursor
    BY <1>1, <1>8 DEF device
  <2> QED BY <1>1, <2>1, <2>2, WireQuiet DEF server
<1>12. ServerInv'
  BY <1>1 DEF IInv, ServerInv, server
<1>13. TypeOK'
  <2>1. e \in Database
    BY <1>5 DEF Good
  <2>2. db' \in [Devices -> Database] /\ bootstraps' \in 0..MaxBootstraps
    BY <1>1, <2>1, BoundsAreNatural DEF IInv, TypeOK
  <2> QED BY <1>1, <2>2 DEF IInv, TypeOK, server, device
<1>14. Forward(d)
  <2>1. db[d].cursor <= Len(feed)
    BY <1>2 DEF StoreOk
  <2>2. db[d].cursor \in Nat
    BY <1>2 DEF Good, Database
  <2> QED BY <1>1, <1>2, <1>6, <1>8, <2>1, <2>2 DEF Forward
<1> QED BY <1>9, <1>10, <1>11, <1>12, <1>13, <1>14 DEF IInv

(* It survives a verdict that waits for its canonical row. *)
LEMMA JudgeKeeps ==
    ASSUME IInv, NEW q \in wire, Judge(q)
    PROVE  IInv'
<1> DEFINE new == [q EXCEPT !.verdict = Rejection(NextOp(q))]
<1>1. /\ wire' = (wire \ {q}) \cup {new} /\ Rejection(NextOp(q)) \in ShownLater
      /\ UNCHANGED <<plan, db, done, device, server, faults, bootstraps>>
  BY DEF Judge
<1>2. q \in Request /\ RequestOk(q, Own(done[q.device]), feed)
  BY WireIsOk
<1>3. /\ new \in Request /\ new.device = q.device /\ new.ops = q.ops /\ new.cursor = q.cursor
      /\ new.live = q.live /\ new.results = q.results
  <2>1. Rejection(NextOp(q)) \in Verdicts
    BY <1>1 DEF Verdicts
  <2> QED BY <1>2, <2>1 DEF Request
<1> HIDE DEF new
<1>4. RequestOk(new, Own(done[new.device]), feed)
  BY <1>2, <1>3 DEF RequestOk
<1>5. /\ Awaited(q, phase[q.device], claimed[q.device], db[q.device].cursor)
      /\ \A x, y \in wire : x.live /\ y.live /\ x.device = y.device => x = y
  BY DEF IInv, WireInv
<1>6. Awaited(new, phase[new.device], claimed[new.device], db[new.device].cursor)
  BY <1>3, <1>5 DEF Awaited
<1>7. \A x, y \in wire' : x.live /\ y.live /\ x.device = y.device => x = y
  BY <1>1, <1>3, <1>5
<1>8. WireInv'
  <2> SUFFICES ASSUME NEW x \in wire'
               PROVE  /\ RequestOk(x, Own(done[x.device]), feed)
                      /\ Awaited(x, phase[x.device], claimed[x.device], db[x.device].cursor)
    BY <1>1, <1>7 DEF WireInv, server, device
  <2>1. CASE x = new
    BY <1>4, <1>6, <2>1
  <2>2. CASE x \in wire
    BY <2>2 DEF IInv, WireInv
  <2> QED BY <1>1, <2>1, <2>2
<1> QED BY <1>1, <1>3, <1>8 DEF IInv, TypeOK, ServerInv, CycleInv, StoreInv, server, device

(* It survives every step. *)
LEMMA NextKeeps == IInv /\ JudgedInv /\ [Next]_vars => IInv'
<1> SUFFICES ASSUME IInv, JudgedInv, [Next]_vars PROVE IInv'
  OBVIOUS
<1>1. ASSUME NEW d \in Devices, NEW i \in plan.intents[d], UserMutates(d, i) PROVE IInv'
  BY <1>1, UserMutatesKeeps
<1>2. ASSUME NEW d \in Devices, NEW c \in db[d].conflicts, NEW choice \in Offers(c),
             UserResolves(d, c, choice)
      PROVE  IInv'
  BY <1>2, UserResolvesKeeps
<1>3. ASSUME NEW d \in Devices, Cycle(d) PROVE IInv'
  BY <1>3, BeginKeeps, ReconcileKeeps, ApplyKeeps DEF Cycle
<1>4. ASSUME NEW d \in Devices, Elapses(d) PROVE IInv'
  BY <1>4, ElapsesKeeps
<1>5. ASSUME NEW d \in Devices, Fault(d) PROVE IInv'
  <2>1. CASE Timeout(d)
    <3>1. ExchangeFails(d, "timeout", "retrying")
      BY <2>1 DEF Timeout
    <3> QED BY <3>1, ExchangeFailsKeeps
  <2>2. CASE Unauthorized(d)
    <3>1. ExchangeFails(d, "unauthorized", "queued")
      BY <2>2 DEF Unauthorized
    <3> QED BY <3>1, ExchangeFailsKeeps
  <2>3. CASE Refused(d)
    <3>1. ExchangeFails(d, "refused", "parked")
      BY <2>3 DEF Refused
    <3> QED BY <3>1, ExchangeFailsKeeps
  <2>4. CASE Crash(d)
    BY <2>4, CrashKeeps
  <2> QED BY <1>5, <2>1, <2>2, <2>3, <2>4 DEF Fault
<1>6. ASSUME NEW d \in Devices, Bootstrap(d) PROVE IInv'
  BY <1>6, BootstrapKeeps
<1>7. ASSUME NEW q \in wire, Serve(q) PROVE IInv'
  BY <1>7, JudgeKeeps, ProcessKeeps, AnswerKeeps DEF Serve
<1>8. ASSUME NEW q \in wire, NEW committed \in BOOLEAN, ProcessFails(q, committed) PROVE IInv'
  BY <1>8, ProcessFailsKeeps
<1>9. CASE UNCHANGED vars
  BY <1>9 DEF vars, device, server, IInv, TypeOK, ServerInv, WireInv, CycleInv, StoreInv
<1> QED BY <1>1, <1>2, <1>3, <1>4, <1>5, <1>6, <1>7, <1>8, <1>9 DEF Next

(* What is said of the verdicts that wait stays true when the requests that  *)
(* have one stay as they are, and no product disappears.                   *)
LEMMA WaitingVerdicts ==
    ASSUME IInv, JudgedInv, \A p \in Products : catalog[p] \in Image => catalog'[p] \in Image,
           \A x \in wire' : Judged(x) => \E y \in wire :
                x.verdict = y.verdict /\ x.ops = y.ops /\ x.results = y.results
    PROVE  JudgedInv'
<1> SUFFICES ASSUME NEW x \in wire', Judged(x)
             PROVE  Undecided(x) /\ Reached(NextOp(x), x.verdict)'
  BY DEF JudgedInv
<1>1. PICK y \in wire : x.verdict = y.verdict /\ x.ops = y.ops /\ x.results = y.results
  OBVIOUS
<1>2. Judged(y) /\ Undecided(x) = Undecided(y) /\ NextOp(x) = NextOp(y)
  BY <1>1 DEF Judged, Undecided, NextOp
<1>3. Undecided(y) /\ Reached(NextOp(y), y.verdict)
  BY <1>2 DEF JudgedInv
<1>4. NextOp(y).product \in Products
  BY <1>3, NextOpFits DEF Operation
<1> QED BY <1>1, <1>2, <1>3, <1>4 DEF Reached

(* It stays true in every step. *)
LEMMA NextJudged == IInv /\ JudgedInv /\ [Next]_vars => JudgedInv'
<1> SUFFICES ASSUME IInv, JudgedInv, [Next]_vars PROVE JudgedInv'
  OBVIOUS
<1>1. CASE UNCHANGED <<catalog, wire>>
  BY <1>1, WaitingVerdicts
<1>2. ASSUME NEW d \in Devices, NEW i \in plan.intents[d], UserMutates(d, i) PROVE JudgedInv'
  BY <1>1, <1>2 DEF UserMutates, server
<1>3. ASSUME NEW d \in Devices, NEW c \in db[d].conflicts, NEW choice \in Offers(c),
             UserResolves(d, c, choice)
      PROVE  JudgedInv'
  BY <1>1, <1>3 DEF UserResolves, server
<1>4. ASSUME NEW d \in Devices, Cycle(d) PROVE JudgedInv'
  <2>1. CASE Begin(d)
    <3>1. \E ops, cursor : wire' = wire \cup {Sent(d, ops, cursor)} \/ wire' = wire
      BY <2>1 DEF Begin, Send, Sent
    <3>2. \A ops, cursor : ~Judged(Sent(d, ops, cursor))
      BY DEF Judged, Sent
    <3>3. catalog' = catalog
      BY <2>1 DEF Begin, server
    <3> QED BY <3>1, <3>2, <3>3, WaitingVerdicts
  <2>2. CASE ReconcileResults(d)
    BY <1>1, <2>2 DEF ReconcileResults, server
  <2>3. CASE ApplyChanges(d)
    <3>1. catalog' = catalog /\ \E ops, cursor : wire' = wire \cup {Sent(d, ops, cursor)} \/ wire' = wire
      BY <2>3 DEF ApplyChanges, Send, Sent, server
    <3>2. \A ops, cursor : ~Judged(Sent(d, ops, cursor))
      BY DEF Judged, Sent
    <3> QED BY <3>1, <3>2, WaitingVerdicts
  <2> QED BY <1>4, <2>1, <2>2, <2>3 DEF Cycle
<1>5. ASSUME NEW d \in Devices, Elapses(d) PROVE JudgedInv'
  BY <1>1, <1>5 DEF Elapses, Elapse, server
<1>6. ASSUME NEW d \in Devices, Fault(d) PROVE JudgedInv'
  <2>1. wire' = Abandoned(d) /\ catalog' = catalog
    BY <1>6 DEF Fault, Timeout, Unauthorized, Refused, Crash, ExchangeFails, server
  <2>2. ASSUME NEW x \in wire'
        PROVE  \E y \in wire : x.verdict = y.verdict /\ x.ops = y.ops /\ x.results = y.results
    <3>1. PICK y \in wire : x = IF y.device = d THEN [y EXCEPT !.live = FALSE] ELSE y
      BY <2>1 DEF Abandoned
    <3>2. y \in Request
      BY WireIsOk
    <3> QED BY <3>1, <3>2 DEF Request
  <2> QED BY <2>1, <2>2, WaitingVerdicts
<1>7. ASSUME NEW d \in Devices, Bootstrap(d) PROVE JudgedInv'
  BY <1>1, <1>7 DEF Bootstrap, server
<1>8. ASSUME NEW q \in wire, Judge(q) PROVE JudgedInv'
  <2>1. PICK reason : /\ reason = Rejection(NextOp(q)) /\ reason \in ShownLater
                      /\ wire' = (wire \ {q}) \cup {[q EXCEPT !.verdict = reason]}
                      /\ Undecided(q) /\ catalog' = catalog
    BY <1>8 DEF Judge, server
  <2> DEFINE new == [q EXCEPT !.verdict = reason]
  <2>2. q \in Request
    BY WireIsOk
  <2>3. new.verdict = reason /\ new.ops = q.ops /\ new.results = q.results
    BY <2>2 DEF Request
  <2>4. NextOp(q) \in Operation /\ catalog \in [Products -> Image \cup {None}]
    BY <2>1, NextOpFits DEF IInv, TypeOK
  <2>5. Given(NextOp(q), reason)
    BY <2>1 DEF Given
  <2> HIDE DEF new
  <2>6. Reached(NextOp(q), reason)
    BY <2>1, <2>4, <2>5, GivenSays DEF Reached
  <2>7. Undecided(new) /\ NextOp(new) = NextOp(q)
    BY <2>1, <2>3 DEF Undecided, NextOp
  <2>8. \A x \in wire' : x = new \/ x \in wire
    BY <2>1 DEF new
  <2> SUFFICES ASSUME NEW x \in wire', Judged(x)
               PROVE  Undecided(x) /\ Reached(NextOp(x), x.verdict)'
    BY DEF JudgedInv
  <2>9. Undecided(x) /\ Reached(NextOp(x), x.verdict)
    BY <2>3, <2>6, <2>7, <2>8 DEF JudgedInv
  <2> QED BY <2>1, <2>9 DEF Reached
<1>9. ASSUME NEW q \in wire, Answer(q) PROVE JudgedInv'
  <2>1. wire' \subseteq wire /\ catalog' = catalog
    BY <1>9 DEF Answer, server
  <2> QED BY <2>1, WaitingVerdicts
<1>10. ASSUME NEW q \in wire, NEW r, Undecided(q), WithResult(q, r),
              \/ UNCHANGED server
              \/ /\ NextOp(q).id \notin DOMAIN outcomes
                 /\ \E reason : Given(NextOp(q), reason) /\ Decide(NextOp(q), reason)
       PROVE  JudgedInv'
  <2>1. \A p \in Products : catalog[p] \in Image => catalog'[p] \in Image
    <3>1. CASE UNCHANGED server
      BY <3>1 DEF server
    <3>2. CASE /\ NextOp(q).id \notin DOMAIN outcomes
               /\ \E reason : Given(NextOp(q), reason) /\ Decide(NextOp(q), reason)
      <4>1. PICK reason : Given(NextOp(q), reason) /\ Decide(NextOp(q), reason)
        BY <3>2
      <4> QED BY <1>10, <3>2, <4>1, NextOpFits, OperationDecided
    <3> QED BY <1>10, <3>1, <3>2
  <2>2. \A x \in wire' : Judged(x) => x \in wire
    <3>1. q \in Request
      BY WireIsOk
    <3>2. [q EXCEPT !.results = Append(q.results, r), !.verdict = ""].verdict = ""
      BY <3>1 DEF Request
    <3> QED BY <1>10, <3>2 DEF WithResult, Judged
  <2> QED BY <2>1, <2>2, WaitingVerdicts
<1>11. ASSUME NEW q \in wire, Process(q) PROVE JudgedInv'
  BY <1>10, <1>11, ConcludeDecides DEF Process
<1>12. ASSUME NEW q \in wire, NEW committed \in BOOLEAN, ProcessFails(q, committed) PROVE JudgedInv'
  BY <1>10, <1>12, ConcludeDecides DEF ProcessFails
<1>13. CASE UNCHANGED vars
  BY <1>1, <1>13 DEF vars, server
<1> QED
  BY <1>2, <1>3, <1>4, <1>5, <1>6, <1>7, <1>8, <1>9, <1>11, <1>12, <1>13 DEF Next, Serve

(* Nobody has a verdict at first. *)
LEMMA InitJudged == Init => JudgedInv
BY DEF Init, JudgedInv

(* The invariant holds in every state of every behaviour.                   *)
THEOREM Invariant == Spec => []IInv
<1>1. Init => IInv /\ JudgedInv
  BY Opens, InitJudged
<1>2. IInv /\ JudgedInv /\ [Next]_vars => IInv' /\ JudgedInv'
  BY NextKeeps, NextJudged
<1> QED BY <1>1, <1>2, PTL DEF Spec
-----------------------------------------------------------------------------
(* THE THEOREMS *)

(* Every variable stays of its type, whatever devices, plans and limits     *)
(* there are.                                                               *)
THEOREM TypeCorrect == Spec => []TypeOK
<1>1. IInv => TypeOK
  BY DEF IInv
<1> QED BY <1>1, Invariant, PTL

(* The balance a device shows is the sum of the movements it holds: no      *)
(* mutation, canonical delta, page or snapshot updates one without the other.*)
THEOREM BalancesAreSums == Spec => []BalanceIsLedger
<1>1. IInv => BalanceIsLedger
  BY InWorld DEF BalanceIsLedger, Good, GoodBalance
<1> QED BY <1>1, Invariant, PTL

(* What is in the feed was applied. *)
LEMMA AcceptedIsApplied == ASSUME IInv PROVE Accepted(feed) \subseteq AppliedIds
BY DEF IInv, ServerInv, ServerOk, FeedLinked, Accepted, AppliedIds

(* Nothing a user did is lost: an operation is queued until the server has  *)
(* applied it, a blocked one has its conflict, a merged one its follow-up,  *)
(* through lost answers, crashes, rolled back transactions and snapshots.   *)
THEOREM WritesAreKept == Spec => []NothingLost
<1>1. ASSUME IInv, NEW d \in Devices
      PROVE  /\ \A i \in done[d] : <<i.id, 0>> \in QueuedIds(db[d]) \cup AppliedIds
             /\ \A n \in DOMAIN db[d].queue : db[d].queue[n].status = "blocked" =>
                    \E c \in db[d].conflicts : c.op.id = db[d].queue[n].op.id
             /\ \A c \in db[d].conflicts : c.resolution = "auto_merged" =>
                    <<c.op.id[1], c.op.id[2] + 1>> \in QueuedIds(db[d]) \cup AppliedIds
  <2>1. /\ StoreOk(db[d], done[d], Known(done), feed, bootstraps)
        /\ Good(db[d], Own(done[d]), Known(done), Accepted(feed))
        /\ Accepted(feed) \subseteq AppliedIds
    BY <1>1, InWorld, AcceptedIsApplied
  <2>2. \A i \in done[d] : <<i.id, 0>> \in QueuedIds(db[d]) \cup AppliedIds
    BY <2>1 DEF StoreOk, Lives
  <2>3. \A n \in DOMAIN db[d].queue : db[d].queue[n].status = "blocked" =>
            \E c \in db[d].conflicts : c.op.id = db[d].queue[n].op.id
    BY <2>1 DEF Good, GoodLinks, HasConflict
  <2>4. \A c \in db[d].conflicts : c.resolution = "auto_merged" =>
            <<c.op.id[1], c.op.id[2] + 1>> \in QueuedIds(db[d]) \cup AppliedIds
    BY <2>1 DEF Good, GoodMerges, Lives, NextId
  <2> QED BY <2>2, <2>3, <2>4
<1>2. IInv => NothingLost
  BY <1>1 DEF NothingLost
<1> QED BY <1>2, Invariant, PTL

(* The client never sends what the request validation of the server refuses,*)
(* nor an operation twice in one request.                                   *)
THEOREM RequestsFit == Spec => []RequestsAcceptable
<1>1. IInv => RequestsAcceptable
  BY WireIsOk DEF RequestsAcceptable, RequestOk, Batch
<1> QED BY <1>1, Invariant, PTL

(* A stocktake that a change within the cursor displaced is a conflict on   *)
(* every device, also where the page skipped it as reconciled already.      *)
THEOREM StocktakesShown == Spec => []DisplacedShown
<1>1. IInv => DisplacedShown
  BY InWorld DEF DisplacedShown, StoreOk, Covered, Shown
<1> QED BY <1>1, Invariant, PTL

(* The cursor covers the ledger: a device holds every movement up to it with*)
(* its canonical delta, whatever was reconciled ahead, replayed or skipped. *)
THEOREM CursorIsLedger == Spec => []CursorCoversLedger
<1>1. IInv => CursorCoversLedger
  BY InWorld DEF CursorCoversLedger, StoreOk, Covered, Holds
<1> QED BY <1>1, Invariant, PTL

(* A device that caught up with all its movements accepted has the ledger.  *)
LEMMA LedgersMeet ==
    ASSUME IInv, NEW d \in Devices, NEW p \in Products, db[d].cursor = Len(feed),
           \A m \in MovesOf(db[d], p) : m.status = "synced"
    PROVE  MovesOf(db[d], p) = Of(LedgerOf(feed), p)
<1> DEFINE b == db[d]
           own == Own(done[d])
           known == Known(done)
<1>1. /\ World(own, known, feed) /\ Family(own, known) /\ FeedOk(feed, known)
      /\ GoodMoves(b, known, Accepted(feed)) /\ feed \in Seq(Change)
  BY InWorld DEF World, Good
<1>2. ASSUME NEW s \in DOMAIN feed, ~IsProductOp(feed[s].op) PROVE Holds(b, feed[s])
  <2>1. StoreOk(b, done[d], known, feed, bootstraps)
    BY InWorld
  <2>2. s \in 1..b.cursor
    BY <1>1
  <2> QED BY <1>2, <2>1, <2>2 DEF StoreOk, Covered
<1> HIDE DEF own, known
<1>3. ASSUME NEW m \in MovesOf(b, p), NEW s \in DOMAIN feed, feed[s].op.id = m.id
      PROVE  m = NewMove(feed[s].op, m.delta, "synced") /\ ~IsProductOp(feed[s].op)
  <2>1. m \in b.moves /\ m.status = "synced"
    BY DEF MovesOf
  <2>2. PICK op \in known : ~IsProductOp(op) /\ m = NewMove(op, m.delta, m.status)
    BY <1>1, <2>1 DEF GoodMoves, Genuine
  <2>3. op.id = feed[s].op.id /\ feed[s].op \in known
    BY <1>1, <1>3, <2>2 DEF NewMove, FeedOk
  <2>4. /\ ~IsProductOp(feed[s].op)
        /\ \A delta, status : NewMove(op, delta, status) = NewMove(feed[s].op, delta, status)
    BY <1>1, <2>2, <2>3, SameMovement
  <2> QED BY <2>1, <2>2, <2>4
<1>4. ASSUME NEW m \in MovesOf(b, p) PROVE m \in Of(LedgerOf(feed), p)
  <2>1. m \in b.moves /\ m.status = "synced" /\ m.product = p
    BY DEF MovesOf
  <2>2. m.id \in Accepted(feed)
    BY <1>1, <2>1 DEF GoodMoves, Genuine
  <2>3. PICK s \in DOMAIN feed : m.id = feed[s].op.id
    BY <2>2 DEF Accepted
  <2>4. m = NewMove(feed[s].op, m.delta, "synced") /\ ~IsProductOp(feed[s].op)
    BY <1>3, <2>3
  <2>5. PICK n \in b.moves : n.id = feed[s].op.id /\ n.delta = feed[s].delta
    BY <1>2, <2>4 DEF Holds
  <2>6. m.delta = feed[s].delta
    BY <1>1, <2>1, <2>3, <2>5 DEF GoodMoves
  <2> QED BY <2>1, <2>4, <2>6 DEF LedgerOf, Of
<1>5. ASSUME NEW m \in Of(LedgerOf(feed), p) PROVE m \in MovesOf(b, p)
  <2>1. PICK s \in DOMAIN feed :
            ~IsProductOp(feed[s].op) /\ m = NewMove(feed[s].op, feed[s].delta, "synced")
    BY DEF LedgerOf, Of
  <2>2. PICK n \in b.moves : n.id = feed[s].op.id /\ n.delta = feed[s].delta
    BY <1>2, <2>1 DEF Holds
  <2>3. PICK op \in known : ~IsProductOp(op) /\ n = NewMove(op, n.delta, n.status)
    BY <1>1, <2>2 DEF GoodMoves, Genuine
  <2>4. op.id = feed[s].op.id /\ feed[s].op \in known
    BY <1>1, <2>2, <2>3 DEF NewMove, FeedOk
  <2>5. op.product = feed[s].op.product
    BY <1>1, <2>4 DEF Family, Alike
  <2>6. n.product = p
    BY <2>1, <2>3, <2>5 DEF NewMove, Of
  <2>7. n \in MovesOf(b, p)
    BY <2>2, <2>6 DEF MovesOf
  <2>8. n = m
    BY <1>3, <2>1, <2>2, <2>7
  <2> QED BY <2>7, <2>8
<1> QED BY <1>4, <1>5

(* A device that caught up and has no movement left to be accepted shows the*)
(* balance of the server.                                                   *)
THEOREM CaughtUpBalances == Spec => []BalancesConverge
<1>1. IInv => BalancesConverge
  <2> SUFFICES ASSUME IInv, NEW d \in Devices, NEW p \in Products, CaughtUp(d),
                      \A m \in MovesOf(db[d], p) : m.status = "synced"
               PROVE  db[d].balance[p] = CanonicalBalance(p)
    BY DEF BalancesConverge
  <2>1. MovesOf(db[d], p) = Of(LedgerOf(feed), p)
    BY LedgersMeet DEF CaughtUp
  <2>2. db[d].balance[p] = Total(MovesOf(db[d], p))
    BY InWorld DEF Good, GoodBalance
  <2> QED BY <2>1, <2>2, MovesAreLedger
<1> QED BY <1>1, Invariant, PTL
-----------------------------------------------------------------------------
(* THE REFINEMENT *)

(* Refinement mapping: requests, retries, cycles and queues are invisible;  *)
(* an operation is its id, and a device holds a position of the feed when   *)
(* it has the movement of it with the canonical delta.                     *)
Verdict(o) == IF o.applied THEN "applied" ELSE o.reason
LogOp(id) == [id |-> id, account |-> "account"]
LogOps == {LogOp(id) : id \in OpId}
LogFeed == [s \in 1..Len(feed) |-> LogOp(feed[s].op.id)]
LogDecided ==
    [o \in LogOps |-> IF o.id \in DOMAIN outcomes THEN Verdict(outcomes[o.id]) ELSE None]
LogHeld ==
    [d \in Devices |->
        {s \in 1..db[d].cursor : s <= Len(feed) /\ (IsProductOp(feed[s].op) \/ Holds(db[d], feed[s]))}]

Log == INSTANCE OperationLog WITH
    Ops <- LogOps, Readers <- Devices, AccountOf <- [d \in Devices |-> "account"],
    Verdicts <- Reasons \cup {"applied"}, Acceptance <- "applied", NoVerdict <- None,
    feed <- LogFeed, decided <- LogDecided, cursor <- [d \in Devices |-> db[d].cursor],
    held <- LogHeld

(* Every device holds the feed up to its cursor. *)
HeldIsCovered ==
    \A d \in Devices : LogHeld[d] = 1..db[d].cursor /\ db[d].cursor \in 0..Len(feed)

LEMMA HoldsAll == IInv => HeldIsCovered
<1> SUFFICES ASSUME IInv, NEW d \in Devices
             PROVE  LogHeld[d] = 1..db[d].cursor /\ db[d].cursor \in 0..Len(feed)
  BY DEF HeldIsCovered
<1>1. StoreOk(db[d], done[d], Known(done), feed, bootstraps) /\ feed \in Seq(Change)
  BY InWorld
<1>2. db[d].cursor \in Nat /\ db[d].cursor <= Len(feed) /\ Len(feed) \in Nat
  BY <1>1, InWorld DEF StoreOk, Good, Database
<1>3. \A s \in 1..db[d].cursor : IsProductOp(feed[s].op) \/ Holds(db[d], feed[s])
  BY <1>1 DEF StoreOk, Covered
<1>4. LogHeld[d] = 1..db[d].cursor
  BY <1>2, <1>3 DEF LogHeld
<1> QED BY <1>2, <1>4

(* So it does after a step. *)
LEMMA HoldsAllNext == IInv' => HeldIsCovered'
BY HoldsAll, PTL

(* The log shows a device the whole feed. *)
LEMMA AllVisible ==
    ASSUME IInv, NEW d \in Devices, NEW n \in 0..Len(feed)
    PROVE  Log!Visible(d, n) = 1..n
<1>1. Len(feed) \in Nat
  BY InWorld
<1>2. Len(LogFeed) = Len(feed) /\ \A s \in 1..Len(feed) : LogFeed[s].account = "account"
  BY <1>1 DEF LogFeed, LogOp
<1> QED BY <1>1, <1>2 DEF Log!Visible

(* A step of a device moves it forward in the log. *)
LEMMA ForwardAdvances ==
    ASSUME IInv, IInv', NEW d \in Devices, Forward(d)
    PROVE  Log!Next
<1>0. PICK n \in 0..Len(feed') : n = db'[d].cursor
  BY HoldsAllNext DEF HeldIsCovered
<1>1. UNCHANGED <<catalog, feed, outcomes>> /\ n >= db[d].cursor
      /\ \A c \in Devices \ {d} : db'[c] = db[c]
  BY <1>0 DEF Forward, server
<1>2. n \in 0..Len(feed) /\ LogHeld'[d] = 1..n
  <2>1. LogHeld'[d] = 1..db'[d].cursor /\ db'[d].cursor \in 0..Len(feed')
    BY HoldsAllNext DEF HeldIsCovered
  <2> QED BY <1>0, <1>1, <2>1
<1>3. Log!Visible(d, n) = 1..n
  BY <1>2, AllVisible
<1>4. UNCHANGED LogFeed /\ UNCHANGED LogDecided
  BY <1>1 DEF LogFeed, LogDecided
<1>5. \A c \in Devices \ {d} : LogHeld'[c] = LogHeld[c]
  BY <1>1 DEF LogHeld
<1>6. LogHeld' = [LogHeld EXCEPT ![d] = Log!Visible(d, n)]
  <2>1. LogHeld = [c \in Devices |-> LogHeld[c]] /\ LogHeld' = [c \in Devices |-> LogHeld'[c]]
    BY DEF LogHeld
  <2> QED BY <1>2, <1>3, <1>5, <2>1
<1>7. [c \in Devices |-> db[c].cursor]' = [[c \in Devices |-> db[c].cursor] EXCEPT ![d] = n]
  BY <1>0, <1>1
<1>8. Len(LogFeed) = Len(feed)
  <2>1. Len(feed) \in Nat
    BY InWorld
  <2> QED BY <2>1 DEF LogFeed
<1>9. Log!Advance(d, n)
  BY <1>1, <1>4, <1>6, <1>7 DEF Log!Advance
<1>10. n \in 0..Len(LogFeed)
  BY <1>2, <1>8
<1> QED BY <1>9, <1>10 DEF Log!Next

(* A decision of the server is one of the log, and the first one. *)
LEMMA DecideDecides ==
    ASSUME IInv, IInv', NEW op \in Operation, op.id \notin DOMAIN outcomes,
           NEW reason, Given(op, reason), Decide(op, reason), UNCHANGED db
    PROVE  Log!Next
<1> DEFINE o == LogOp(op.id)
           v == IF reason = None THEN "applied" ELSE reason
           c == ChangeOf(op)
<1>1. /\ outcomes' = [id \in DOMAIN outcomes \cup {op.id} |->
            IF id = op.id THEN (IF reason = None THEN Applied(c) ELSE Rejected(op, reason))
            ELSE outcomes[id]]
      /\ feed' = IF reason = None THEN Append(feed, c) ELSE feed
  BY DEF Decide
<1>2. catalog \in [Products -> Image \cup {None}] /\ feed \in Seq(Change) /\ feed' \in Seq(Change)
      /\ op.id \in OpId
  BY DEF IInv, TypeOK, Operation
<1>3. reason \in Reasons \cup {None} /\ None \notin Reasons
  BY <1>2, GivenSays, NoneIsNoReason
<1>4. "applied" \notin Reasons
  BY DEF Reasons
<1>5. c.op = op
  BY DEF ChangeOf
<1>6. /\ Verdict(Applied(c)) = "applied"
      /\ Verdict(Rejected(op, reason)) = reason
  BY DEF Verdict, Applied, Rejected
<1> HIDE DEF c
<1>7. Verdict(outcomes'[op.id]) = v
  BY <1>1, <1>6
<1>8. o \in LogOps /\ v \in Reasons \cup {"applied"} /\ LogDecided[o] = None
  BY <1>2, <1>3 DEF LogOps, LogOp, LogDecided
<1>9. LogDecided' = [LogDecided EXCEPT ![o] = v]
  <2>1. \A x \in LogOps : x.id = op.id <=> x = o
    BY DEF LogOps, LogOp
  <2>2. DOMAIN outcomes' = DOMAIN outcomes \cup {op.id}
        /\ \A id \in DOMAIN outcomes : id # op.id => outcomes'[id] = outcomes[id]
    BY <1>1
  <2>3. \A x \in LogOps : LogDecided'[x] = IF x = o THEN v ELSE LogDecided[x]
    BY <1>7, <2>1, <2>2 DEF LogDecided
  <2>4. LogDecided' = [x \in LogOps |-> LogDecided'[x]] /\ LogDecided = [x \in LogOps |-> LogDecided[x]]
    BY DEF LogDecided
  <2> HIDE DEF o, v
  <2> QED BY <1>8, <2>3, <2>4
<1>10. LogFeed' = IF v = "applied" THEN Append(LogFeed, o) ELSE LogFeed
  <2>1. CASE reason # None
    BY <1>1, <1>3, <1>4, <2>1 DEF LogFeed
  <2>2. CASE reason = None
    <3>1. feed' = Append(feed, c) /\ Len(feed) \in Nat
      BY <1>1, <1>2, <2>2
    <3>2. Len(feed') = Len(feed) + 1 /\ feed'[Len(feed) + 1].op.id = op.id
          /\ \A s \in 1..Len(feed) : feed'[s] = feed[s]
      BY <1>2, <1>5, <3>1
    <3>3. \A s \in 1..Len(feed) + 1 :
            LogFeed'[s] = IF s = Len(feed) + 1 THEN o ELSE LogFeed[s]
      BY <3>1, <3>2 DEF LogFeed
    <3>4. LogFeed \in Seq(LogOps) /\ Len(LogFeed) = Len(feed)
      <4>1. ASSUME NEW s \in 1..Len(feed) PROVE feed[s].op.id \in OpId
        <5>1. feed[s] \in Change
          BY <1>2
        <5>2. feed[s].op \in Operation
          BY <5>1 DEF Change
        <5> QED BY <5>2 DEF Operation
      <4>2. \A s \in 1..Len(feed) : LogOp(feed[s].op.id) \in LogOps
        BY <4>1 DEF LogOps
      <4> QED BY <3>1, <4>2 DEF LogFeed
    <3>5. LogFeed' = [s \in 1..Len(feed) + 1 |-> LogFeed'[s]]
      BY <3>2 DEF LogFeed
    <3>6. Append(LogFeed, o) = [s \in 1..Len(feed) + 1 |-> IF s = Len(feed) + 1 THEN o ELSE LogFeed[s]]
      BY <3>1, <3>4
    <3>7. LogFeed' = Append(LogFeed, o)
      <4> HIDE DEF o
      <4> QED BY <3>3, <3>5, <3>6
    <3> QED BY <2>2, <3>7
  <2> QED BY <2>1, <2>2
<1>11. UNCHANGED LogHeld
  <2>1. \A d \in Devices : LogHeld'[d] = LogHeld[d]
    <3> SUFFICES ASSUME NEW d \in Devices PROVE LogHeld'[d] = LogHeld[d]
      OBVIOUS
    <3>1. LogHeld[d] = 1..db[d].cursor
      BY HoldsAll DEF HeldIsCovered
    <3>2. LogHeld'[d] = 1..db'[d].cursor
      BY HoldsAllNext DEF HeldIsCovered
    <3> QED BY <3>1, <3>2
  <2>2. LogHeld = [d \in Devices |-> LogHeld[d]] /\ LogHeld' = [d \in Devices |-> LogHeld'[d]]
    BY DEF LogHeld
  <2> QED BY <2>1, <2>2
<1>12. UNCHANGED [d \in Devices |-> db[d].cursor]
  OBVIOUS
<1> HIDE DEF o, v
<1>13. Log!Decide(o, v)
  BY <1>8, <1>9, <1>10, <1>11, <1>12 DEF Log!Decide
<1> QED BY <1>8, <1>13 DEF Log!Next

(* What the log does not see. *)
LEMMA OutOfSight ==
    ASSUME UNCHANGED <<db, catalog, feed, outcomes>>
    PROVE  UNCHANGED Log!vars
BY DEF Log!vars, LogFeed, LogDecided, LogHeld, Holds

(* Every step is a step of the log or none. *)
LEMMA StepRefines ==
    ASSUME IInv, IInv', JudgedInv, [Next]_vars
    PROVE  [Log!Next]_(Log!vars)
<1>1. ASSUME NEW d \in Devices, NEW i \in plan.intents[d], UserMutates(d, i) PROVE Log!Next
  BY <1>1, UserMutatesKeeps, ForwardAdvances
<1>2. ASSUME NEW d \in Devices, NEW c \in db[d].conflicts, NEW choice \in Offers(c),
             UserResolves(d, c, choice)
      PROVE  Log!Next
  BY <1>2, UserResolvesKeeps, ForwardAdvances
<1>3. ASSUME NEW d \in Devices, Cycle(d) PROVE Log!Next
  BY <1>3, BeginKeeps, ReconcileKeeps, ApplyKeeps, ForwardAdvances DEF Cycle
<1>4. ASSUME NEW d \in Devices, Elapses(d) PROVE Log!Next
  BY <1>4, ElapsesKeeps, ForwardAdvances
<1>5. ASSUME NEW d \in Devices, Fault(d) PROVE Log!Next
  <2>1. CASE \E kind : \E status \in {"retrying", "queued", "parked"} : ExchangeFails(d, kind, status)
    BY <2>1, ExchangeFailsKeeps, ForwardAdvances
  <2>2. CASE Crash(d)
    BY <2>2, CrashKeeps, ForwardAdvances
  <2> QED BY <1>5, <2>1, <2>2 DEF Fault, Timeout, Unauthorized, Refused
<1>6. ASSUME NEW d \in Devices, Bootstrap(d) PROVE Log!Next
  BY <1>6, BootstrapKeeps, ForwardAdvances
<1>7. ASSUME NEW q \in wire, Process(q) PROVE [Log!Next]_(Log!vars)
  <2>1. CASE NextOp(q).id \in DOMAIN outcomes
    <3>1. UNCHANGED <<db, catalog, feed, outcomes>>
      BY <1>7, <2>1 DEF Process, server
    <3> QED BY <3>1, OutOfSight
  <2>2. CASE NextOp(q).id \notin DOMAIN outcomes
    <3>1. Undecided(q) /\ UNCHANGED db /\ Conclude(q)
      BY <1>7, <2>2 DEF Process
    <3>2. PICK reason : Given(NextOp(q), reason) /\ Decide(NextOp(q), reason)
      BY <3>1, ConcludeDecides
    <3>3. NextOp(q) \in Operation
      BY <3>1, NextOpFits
    <3> QED BY <2>2, <3>1, <3>2, <3>3, DecideDecides
  <2> QED BY <2>1, <2>2
<1>8. ASSUME NEW q \in wire, Answer(q) PROVE [Log!Next]_(Log!vars)
  BY <1>8, OutOfSight DEF Answer, server
<1>9. ASSUME NEW q \in wire, NEW committed \in BOOLEAN, ProcessFails(q, committed)
      PROVE  [Log!Next]_(Log!vars)
  <2>1. CASE committed
    <3>1. Undecided(q) /\ NextOp(q).id \notin DOMAIN outcomes /\ UNCHANGED db /\ Conclude(q)
      BY <1>9, <2>1 DEF ProcessFails
    <3>2. PICK reason : Given(NextOp(q), reason) /\ Decide(NextOp(q), reason)
      BY <3>1, ConcludeDecides
    <3>3. NextOp(q) \in Operation
      BY <3>1, NextOpFits
    <3> QED BY <3>1, <3>2, <3>3, DecideDecides
  <2>2. CASE ~committed
    <3>1. UNCHANGED <<db, catalog, feed, outcomes>>
      BY <1>9, <2>2 DEF ProcessFails, server
    <3> QED BY <3>1, OutOfSight
  <2> QED BY <2>1, <2>2
<1>10. ASSUME NEW q \in wire, Judge(q) PROVE [Log!Next]_(Log!vars)
  BY <1>10, OutOfSight DEF Judge, server
<1>11. CASE UNCHANGED vars
  BY <1>11, OutOfSight DEF vars, server
<1> QED
  BY <1>1, <1>2, <1>3, <1>4, <1>5, <1>6, <1>7, <1>8, <1>9, <1>10, <1>11 DEF Next, Serve

(* At first nothing is decided. *)
LEMMA InitRefines == Init => Log!Init
<1> SUFFICES ASSUME Init PROVE Log!Init
  OBVIOUS
<1>1. feed = << >> /\ DOMAIN outcomes = {}
  BY DEF Init
<1>2. \A d \in Devices : db[d].cursor = 0
  BY Opened
<1>3. LogFeed = << >>
  BY <1>1 DEF LogFeed
<1>4. LogDecided = [o \in LogOps |-> None]
  BY <1>1 DEF LogDecided
<1>5. LogHeld = [d \in Devices |-> {}]
  BY <1>2 DEF LogHeld
<1> QED BY <1>2, <1>3, <1>4, <1>5 DEF Log!Init

(* Devices, network and server together implement the operation log that    *)
(* SyncTransactions implements on its own: whatever is lost, retried,       *)
(* answered twice or failed in between, an operation is decided once and    *)
(* for all, the feed only grows, and a cursor only moves forward, over      *)
(* movements that the device holds.                                        *)
THEOREM Refinement == Spec => Log!Spec
<1>1. Init => IInv /\ JudgedInv /\ Log!Init
  BY Opens, InitJudged, InitRefines
<1>2. IInv /\ JudgedInv /\ [Next]_vars => IInv' /\ JudgedInv'
  BY NextKeeps, NextJudged
<1>3. IInv /\ IInv' /\ JudgedInv /\ [Next]_vars => [Log!Next]_(Log!vars)
  BY StepRefines
<1> QED BY <1>1, <1>2, <1>3, PTL DEF Spec, Log!Spec
-----------------------------------------------------------------------------
(* TOMBSTONES                                                               *)
(*                                                                         *)
(* O is the catalog the devices opened with, F the feed, and E the pairs of *)
(* a product and a change by which it is deleted.                          *)

Ended(O, F, p, n) ==
    \/ O[p] # None /\ O[p].deleted
    \/ \E s \in DOMAIN F : s <= n /\ F[s].op.product = p /\ F[s].op.kind = "delete"
Ends(O, F) == {x \in Products \X Nat : Ended(O, F, x[1], x[2])}

(* A product change is stamped with its sequence, only a deletion leaves a  *)
(* tombstone, and no product changes any more after it.                    *)
FeedTombs(O, F) ==
    \A s \in DOMAIN F : IsProductOp(F[s].op) =>
        /\ F[s].image.stamp = s
        /\ F[s].image.deleted <=> F[s].op.kind = "delete"
        /\ ~Ended(O, F, F[s].op.product, s - 1)

(* The catalog has a tombstone of every deleted product. *)
CatalogTombs(C, O, F) ==
    \A p \in Products :
        /\ RowFits(p, C[p], Ends(O, F))
        /\ Ended(O, F, p, Len(F)) => C[p] # None /\ C[p].deleted

(* A tombstone that comes with a verdict is one of the feed. *)
OutcomeTombs(out, known, E) ==
    \A id \in DOMAIN out : \E op \in known : op.id = id /\ VerdictTombs(op.product, out[id], E)
ResultTombs(ops, results, E) == \A n \in DOMAIN results : VerdictTombs(ops[n].product, results[n], E)

ServerTombs(C, O, F, out, known) ==
    FeedTombs(O, F) /\ CatalogTombs(C, O, F) /\ OutcomeTombs(out, known, Ends(O, F))
WireTombs(w, E) == \A q \in w : ResultTombs(q.ops, q.results, E)
ReplyTombs(ph, cl, re, E) ==
    \A d \in Devices : ph[d] = "reconcile" => ResultTombs(cl[d], re[d].results, E)
StoreTombs(bs, E) == \A d \in Devices : Tombed(bs[d], E, {})

TombInv ==
    /\ ServerTombs(catalog, plan.opening, feed, outcomes, Known(done))
    /\ WireTombs(wire, Ends(plan.opening, feed))
    /\ ReplyTombs(phase, claimed, reply, Ends(plan.opening, feed))
    /\ StoreTombs(db, Ends(plan.opening, feed))

(* The products whose tombstone the cursor of d has passed. *)
Passed(d) == {p \in Products : Gone(db[d], p) /\ Ended(plan.opening, feed, p, db[d].cursor)}

(* They stay gone. *)
Stays(d) == \A p \in Passed(d) : Gone(db'[d], p)

(* What is deleted by a change is deleted by the later ones. *)
LEMMA EndedLater ==
    ASSUME NEW O, NEW F \in Seq(Change), NEW p, NEW m \in Int, NEW n \in Int, m <= n,
           Ended(O, F, p, m)
    PROVE  Ended(O, F, p, n)
<1>1. \A s \in DOMAIN F : s \in Int
  OBVIOUS
<1> QED BY <1>1 DEF Ended

(* A longer feed deletes by a change what it did before. *)
LEMMA EndedStands ==
    ASSUME NEW O, NEW F, NEW G, Extends(F, G), NEW p, NEW n \in Int
    PROVE  /\ Ended(O, F, p, n) => Ended(O, G, p, n)
           /\ n <= Len(F) => (Ended(O, F, p, n) <=> Ended(O, G, p, n))
<1>1. \A s \in DOMAIN F : s \in DOMAIN G /\ G[s] = F[s]
  BY DEF Extends
<1>2. ASSUME n <= Len(F), NEW s \in DOMAIN G, s <= n PROVE s \in DOMAIN F
  BY <1>2 DEF Extends
<1> QED BY <1>1, <1>2 DEF Ended

LEMMA EndsGrow ==
    ASSUME NEW O, NEW F, NEW G, Extends(F, G)
    PROVE  Ends(O, F) \subseteq Ends(O, G)
BY EndedStands DEF Ends

(* More deletions, no other tombstones. *)
LEMMA TombsGrow ==
    ASSUME NEW E, NEW E2, E \subseteq E2
    PROVE  /\ \A p, row : RowFits(p, row, E) => RowFits(p, row, E2)
           /\ \A p, r : VerdictTombs(p, r, E) => VerdictTombs(p, r, E2)
           /\ \A b, G : Tombed(b, E, G) => Tombed(b, E2, {})
           /\ \A ops, results : ResultTombs(ops, results, E) => ResultTombs(ops, results, E2)
           /\ \A out, known : OutcomeTombs(out, known, E) => OutcomeTombs(out, known, E2)
<1>1. \A p, row : RowFits(p, row, E) => RowFits(p, row, E2)
  BY DEF RowFits
<1>2. \A p, r : VerdictTombs(p, r, E) => VerdictTombs(p, r, E2)
  BY <1>1 DEF VerdictTombs
<1>3. \A b, G : Tombed(b, E, G) => Tombed(b, E2, {})
  BY <1>1 DEF Tombed
<1> QED BY <1>1, <1>2, <1>3 DEF ResultTombs, OutcomeTombs

(* A product change of the feed has the tombstone it says. *)
LEMMA ImageOfFeed ==
    ASSUME NEW O, NEW known, NEW F, FeedOk(F, known), FeedTombs(O, F),
           \A op \in known : op.product \in Products, NEW s \in DOMAIN F, IsProductOp(F[s].op)
    PROVE  RowFits(F[s].op.product, F[s].image, Ends(O, F))
<1> SUFFICES ASSUME F[s].image.deleted
             PROVE  <<F[s].op.product, F[s].image.stamp>> \in Ends(O, F)
  BY DEF RowFits
<1>1. F[s].image.stamp = s /\ F[s].op.kind = "delete" /\ s \in Nat
  BY DEF FeedTombs, FeedOk
<1>2. Ended(O, F, F[s].op.product, s)
  BY <1>1 DEF Ended
<1>3. F[s].op.product \in Products
  BY DEF FeedOk
<1> QED BY <1>1, <1>2, <1>3 DEF Ends

(* A step of a device keeps the invariant on tombstones when its database   *)
(* has those of the feed, and no request or reply gets a result.           *)
LEMMA DeviceKeepsTombs ==
    ASSUME TombInv, NEW d \in Devices, Forward(d), UNCHANGED plan,
           Known(done) \subseteq Known(done)',
           NEW G, Tombed(db'[d], Ends(plan.opening, feed), G),
           \A q \in wire' : \/ q.results = << >>
                            \/ \E r \in wire : q.ops = r.ops /\ q.results = r.results,
           \A c \in Devices : phase'[c] = "reconcile" =>
                phase[c] = "reconcile" /\ claimed'[c] = claimed[c] /\ reply'[c] = reply[c]
    PROVE  TombInv'
<1> DEFINE E == Ends(plan.opening, feed)
<1>1. /\ plan' = plan /\ feed' = feed /\ catalog' = catalog /\ outcomes' = outcomes
      /\ \A c \in Devices \ {d} : db'[c] = db[c]
  BY DEF Forward, server
<1>2. ServerTombs(catalog, plan.opening, feed, outcomes, Known(done)')
  BY DEF TombInv, ServerTombs, OutcomeTombs
<1>3. WireTombs(wire', E)
  <2>1. DOMAIN << >> = {}
    OBVIOUS
  <2> HIDE DEF E
  <2> QED BY <2>1 DEF TombInv, WireTombs, ResultTombs, E
<1>4. ReplyTombs(phase', claimed', reply', E)
  BY DEF TombInv, ReplyTombs
<1>5. StoreTombs(db', E)
  <2>1. Tombed(db'[d], E, {})
    BY DEF Tombed
  <2> QED BY <1>1, <2>1 DEF TombInv, StoreTombs
<1> HIDE DEF E
<1> QED BY <1>1, <1>2, <1>3, <1>4, <1>5 DEF TombInv, E

(* What the invariants say of one device. *)
LEMMA TombsOfDevice ==
    ASSUME IInv, TombInv, NEW d \in Devices
    PROVE  /\ db[d] \in Database /\ db[d].cursor \in Nat /\ db[d].cursor <= Len(feed)
           /\ Len(feed) \in Nat /\ DOMAIN feed = 1..Len(feed)
           /\ Tombed(db[d], Ends(plan.opening, feed), Passed(d))
           /\ \A op \in Known(done) : op.product \in Products
<1>1. /\ StoreOk(db[d], done[d], Known(done), feed, bootstraps) /\ feed \in Seq(Change)
      /\ db[d] \in Database
  BY InWorld DEF Good
<1>2. Tombed(db[d], Ends(plan.opening, feed), Passed(d))
  BY DEF TombInv, StoreTombs, Tombed, Passed
<1>3. \A op \in Known(done) : op.product \in Products
  BY DEF Known, Operation
<1> QED BY <1>1, <1>2, <1>3 DEF StoreOk, Database

(* A step of a device that leaves its rows alone. *)
LEMMA QuietStep ==
    ASSUME IInv, TombInv, NEW d \in Devices, Forward(d), UNCHANGED <<plan, done>>,
           db'[d].rows = db[d].rows,
           \A q \in wire' : \/ q.results = << >>
                            \/ \E r \in wire : q.ops = r.ops /\ q.results = r.results,
           \A c \in Devices : phase'[c] = "reconcile" =>
                phase[c] = "reconcile" /\ claimed'[c] = claimed[c] /\ reply'[c] = reply[c]
    PROVE  TombInv' /\ Stays(d)
<1>1. Tombed(db'[d], Ends(plan.opening, feed), Passed(d))
  BY TombsOfDevice, RowsStand
<1>2. TombInv'
  BY <1>1, DeviceKeepsTombs
<1> QED BY <1>1, <1>2 DEF Tombed, Stays

(* The requests and replies after the end of a cycle or a new request.      *)
LEMMA NothingReceived ==
    ASSUME IInv, NEW d \in Devices
    PROVE  /\ Idle(d) \/ (\E ops, cursor : Send(d, ops, cursor)) =>
                \A c \in Devices : phase'[c] = "reconcile" =>
                    phase[c] = "reconcile" /\ claimed'[c] = claimed[c] /\ reply'[c] = reply[c]
           /\ \A q \in Abandoned(d) : \E r \in wire : q.ops = r.ops /\ q.results = r.results
           /\ \A ops, cursor : Send(d, ops, cursor) =>
                \A q \in wire' : q.results = << >> \/ q \in wire
<1>1. ASSUME Idle(d) \/ \E ops, cursor : Send(d, ops, cursor), NEW c \in Devices,
             phase'[c] = "reconcile"
      PROVE  phase[c] = "reconcile" /\ claimed'[c] = claimed[c] /\ reply'[c] = reply[c]
  BY <1>1 DEF IInv, TypeOK, Idle, Send
<1>2. ASSUME NEW q \in Abandoned(d)
      PROVE  \E r \in wire : q.ops = r.ops /\ q.results = r.results
  <2>1. PICK r \in wire : q = IF r.device = d THEN [r EXCEPT !.live = FALSE] ELSE r
    BY DEF Abandoned
  <2>2. r \in Request
    BY WireIsOk
  <2> QED BY <2>1, <2>2 DEF Request
<1>3. ASSUME NEW ops, NEW cursor, Send(d, ops, cursor), NEW q \in wire'
      PROVE  q.results = << >> \/ q \in wire
  <2>1. wire' = wire \cup {Sent(d, ops, cursor)}
    BY <1>3 DEF Send, Sent
  <2>2. Sent(d, ops, cursor).results = << >>
    BY DEF Sent
  <2> QED BY <2>1, <2>2
<1> QED BY <1>1, <1>2, <1>3

(* The queue has no rows of products. *)
LEMMA RestatusRows ==
    ASSUME NEW b \in Database, NEW ids, NEW old, NEW new
    PROVE  Restatus(b, ids, old, new).rows = b.rows
BY DEF Restatus, Database

LEMMA BeginTombs ==
    ASSUME IInv, TombInv, NEW d \in Devices, Begin(d)
    PROVE  TombInv' /\ Stays(d)
<1> DEFINE b == Recover(db[d])
           due == Due(b, MaxOperations)
           sendable == \A n \in DOMAIN due : Sendable(due[n])
           status == IF sendable THEN "inflight" ELSE "parked"
           e == Restatus(b, Ids(due), "queued", status)
<1>1. /\ db' = [db EXCEPT ![d] = e]
      /\ IF sendable THEN Send(d, due, db[d].cursor) ELSE UNCHANGED <<device, wire>>
      /\ UNCHANGED <<plan, done>>
  BY DEF Begin
<1>2. Forward(d)
  BY BeginKeeps
<1>3. Good(b, Own(done[d]), Known(done), Accepted(feed))
  BY InWorld, Restatused DEF Recover
<1>4. e.rows = db[d].rows
  <2>1. b.rows = db[d].rows
    BY TombsOfDevice, RestatusRows DEF Recover
  <2> HIDE DEF b, due, status
  <2> QED BY <1>3, <2>1, RestatusRows DEF Good
<1> HIDE DEF e, due, sendable
<1>5. db'[d].rows = db[d].rows
  BY <1>1, <1>4 DEF IInv, TypeOK
<1>6. CASE sendable
  BY <1>1, <1>2, <1>5, <1>6, NothingReceived, QuietStep
<1>7. CASE ~sendable
  BY <1>1, <1>2, <1>5, <1>7, QuietStep DEF device
<1> QED BY <1>6, <1>7

LEMMA ReleaseTombs ==
    ASSUME IInv, TombInv, NEW d \in Devices, Forward(d), ReleaseAndStop(d),
           UNCHANGED <<plan, done, wire>>
    PROVE  TombInv' /\ Stays(d)
<1>1. db'[d].rows = db[d].rows
  <2>1. db'[d] = Restatus(db[d], Ids(claimed[d]), "inflight", "queued")
    BY DEF ReleaseAndStop, IInv, TypeOK
  <2> QED BY <2>1, TombsOfDevice, RestatusRows
<1>2. Idle(d)
  BY DEF ReleaseAndStop
<1> QED BY <1>1, <1>2, NothingReceived, QuietStep

LEMMA ExchangeFailsTombs ==
    ASSUME IInv, TombInv, NEW d \in Devices, NEW kind,
           NEW status \in {"retrying", "queued", "parked"}, ExchangeFails(d, kind, status)
    PROVE  TombInv' /\ Stays(d)
<1>1. db'[d].rows = db[d].rows
  <2>1. db'[d] = Restatus(db[d], Ids(claimed[d]), "inflight", status)
    BY DEF ExchangeFails, IInv, TypeOK
  <2> QED BY <2>1, TombsOfDevice, RestatusRows
<1>2. Idle(d) /\ wire' = Abandoned(d) /\ UNCHANGED <<plan, done>>
  BY DEF ExchangeFails
<1>3. Forward(d)
  BY ExchangeFailsKeeps
<1> QED BY <1>1, <1>2, <1>3, NothingReceived, QuietStep

LEMMA CrashTombs ==
    ASSUME IInv, TombInv, NEW d \in Devices, Crash(d)
    PROVE  TombInv' /\ Stays(d)
<1>1. Idle(d) /\ wire' = Abandoned(d) /\ UNCHANGED <<plan, db, done>>
  BY DEF Crash
<1>2. Forward(d)
  BY CrashKeeps
<1> QED BY <1>1, <1>2, NothingReceived, QuietStep

LEMMA ElapsesTombs ==
    ASSUME IInv, TombInv, NEW d \in Devices, Elapses(d)
    PROVE  TombInv' /\ Stays(d)
<1>1. PICK id \in QueuedIds(db[d]) : Elapse(d, id)
  BY DEF Elapses
<1>2. db'[d].rows = db[d].rows
  <2>1. db'[d] = Restatus(db[d], {id}, "retrying", "queued")
    BY <1>1 DEF Elapse, IInv, TypeOK
  <2> QED BY <2>1, TombsOfDevice, RestatusRows
<1>3. UNCHANGED <<plan, done, wire, phase, claimed, reply>>
  BY <1>1 DEF Elapse, device
<1>4. Forward(d)
  BY ElapsesKeeps
<1> QED BY <1>2, <1>3, <1>4, QuietStep

LEMMA UserMutatesTombs ==
    ASSUME IInv, TombInv, NEW d \in Devices, NEW i \in plan.intents[d], UserMutates(d, i)
    PROVE  TombInv' /\ Stays(d)
<1> DEFINE e == Mutate(db[d], i)
           E == Ends(plan.opening, feed)
<1>1. /\ e # None /\ db' = [db EXCEPT ![d] = e] /\ done' = [done EXCEPT ![d] = @ \cup {i}]
      /\ UNCHANGED <<plan, device, wire>>
  BY DEF UserMutates
<1>2. i \in Intent /\ (i.kind = "count" => i.qty \in Nat)
  <2>1. PlanKept(plan, done)
    BY InWorld
  <2>2. plan \in Plans /\ plan.intents[d] \subseteq Intent
    BY <2>1, PlansAreOfTheirKind DEF PlanKept
  <2> QED BY <2>2, CountsAreNatural
<1>3. Tombed(e, E, Passed(d))
  BY <1>1, <1>2, TombsOfDevice, MutateKeepsTombs
<1> HIDE DEF e
<1>4. Tombed(db'[d], E, Passed(d))
  BY <1>1, <1>3 DEF IInv, TypeOK
<1>5. Forward(d)
  BY UserMutatesKeeps
<1>6. Known(done) \subseteq Known(done)'
  <2>1. Grows(done, done')
    BY <1>1 DEF IInv, TypeOK, Grows
  <2> QED BY <2>1, OwnGrows
<1>7. TombInv'
  BY <1>1, <1>4, <1>5, <1>6, DeviceKeepsTombs DEF device
<1> QED BY <1>4, <1>7 DEF Tombed, Stays

(* Only a choice that sends an operation of the product restores it.        *)
LEMMA UserResolvesTombs ==
    ASSUME IInv, TombInv, NEW d \in Devices, NEW c \in db[d].conflicts, NEW choice \in Offers(c),
           UserResolves(d, c, choice)
    PROVE  /\ TombInv'
           /\ \A p \in Passed(d) : Gone(db'[d], p) \/ (choice # "reviewed" /\ c.op.product = p)
<1> DEFINE e == Resolve(db[d], c, choice)
           E == Ends(plan.opening, feed)
           G == {p \in Passed(d) : choice # "reviewed" => p # c.op.product}
<1>1. /\ e # None /\ db' = [db EXCEPT ![d] = e] /\ c.resolution = "unresolved"
      /\ UNCHANGED <<plan, done, device, wire>>
  BY DEF UserResolves
<1>2. Family(Own(done[d]), Known(done)) /\ Good(db[d], Own(done[d]), Known(done), Accepted(feed))
  BY InWorld DEF World
<1>3. Tombed(db[d], E, G) /\ (choice # "reviewed" => c.op.product \notin G)
  BY TombsOfDevice DEF Tombed
<1> HIDE DEF G, E
<1>4. Tombed(e, E, G)
  BY <1>1, <1>2, <1>3, ResolveKeepsTombs
<1> HIDE DEF e
<1>5. Tombed(db'[d], E, G)
  BY <1>1, <1>4 DEF IInv, TypeOK
<1>6. Forward(d)
  BY UserResolvesKeeps
<1>7. TombInv'
  BY <1>1, <1>5, <1>6, DeviceKeepsTombs DEF device, E
<1> QED BY <1>5, <1>7 DEF Tombed, G

(* A change that the cursor has not passed is of no product that is gone.   *)
LEMMA PageSparesGone ==
    ASSUME IInv, TombInv, NEW d \in Devices, NEW s \in DOMAIN feed, s > db[d].cursor,
           IsProductOp(feed[s].op)
    PROVE  /\ RowFits(feed[s].op.product, feed[s].image, Ends(plan.opening, feed))
           /\ feed[s].op.product \notin Passed(d)
<1>1. FeedOk(feed, Known(done)) /\ FeedTombs(plan.opening, feed) /\ feed \in Seq(Change)
  BY DEF IInv, ServerInv, ServerOk, TypeOK, TombInv, ServerTombs
<1>2. RowFits(feed[s].op.product, feed[s].image, Ends(plan.opening, feed))
  BY <1>1, TombsOfDevice, ImageOfFeed
<1>3. ASSUME feed[s].op.product \in Passed(d) PROVE FALSE
  <2>1. Ended(plan.opening, feed, feed[s].op.product, db[d].cursor)
    BY <1>3 DEF Passed
  <2>2. db[d].cursor \in Int /\ s - 1 \in Int /\ db[d].cursor <= s - 1
    BY TombsOfDevice
  <2>3. Ended(plan.opening, feed, feed[s].op.product, s - 1)
    BY <1>1, <2>1, <2>2, EndedLater
  <2> QED BY <1>1, <2>3 DEF FeedTombs
<1> QED BY <1>2, <1>3

LEMMA ReconcileTombs ==
    ASSUME IInv, TombInv, NEW d \in Devices, ReconcileResults(d)
    PROVE  TombInv' /\ Stays(d)
<1> DEFINE ops == claimed[d]
           N == Len(ops)
           r == reply[d]
           own == Own(done[d])
           page == Page(r)
           e == Reconcile(db[d], ops, r.results, page)
           E == Ends(plan.opening, feed)
           G == Passed(d)
<1>1. /\ phase[d] = "reconcile"
      /\ e = None => ReleaseAndStop(d)
      /\ e # None => /\ db' = [db EXCEPT ![d] = e]
                     /\ phase' = [phase EXCEPT ![d] = "apply"]
                     /\ UNCHANGED <<claimed, reply>>
      /\ UNCHANGED <<plan, done, wire>>
  BY DEF ReconcileResults
<1>2. Batch(ops, own) /\ ReplyOk(r, ops, db[d].cursor, feed)
  BY <1>1, InWorld DEF CycleOk
<1>3. World(own, Known(done), feed) /\ feed \in Seq(Change) /\ Family(own, Known(done))
      /\ Good(db[d], own, Known(done), Accepted(feed))
  BY InWorld DEF World
<1>4. Forward(d)
  BY ReconcileKeeps
<1>5. CASE e = None
  BY <1>1, <1>4, <1>5, ReleaseTombs
<1>6. CASE e # None
  <2>1. /\ N \in Nat /\ DOMAIN ops = 1..N /\ DOMAIN r.results = 1..N
        /\ \A n \in 1..N : ops[n] \in own /\ OpFits(ops[n]) /\ ResultFits(ops[n], r.results[n], feed)
        /\ r.from \in Nat /\ r.to \in Nat /\ DOMAIN page = r.from + 1 .. r.to
        /\ \A s \in r.from + 1 .. r.to : s \in DOMAIN feed
    <3> HIDE DEF ops, r, own
    <3> QED BY <1>2, <1>3, AnswerFits
  <2>2. PageOf(page, feed) /\ \A s \in DOMAIN page : s > db[d].cursor /\ page[s] = feed[s]
    BY <1>2, <2>1, TombsOfDevice DEF PageOf, Page, ReplyOk
  <2>3. PageTombs(page, E, G)
    <3> SUFFICES ASSUME NEW s \in DOMAIN page, IsProductOp(page[s].op)
                 PROVE  RowFits(page[s].op.product, page[s].image, E) /\ page[s].op.product \notin G
      BY DEF PageTombs
    <3>1. s \in DOMAIN feed /\ s > db[d].cursor /\ page[s] = feed[s]
      BY <2>1, <2>2
    <3> HIDE DEF page
    <3> QED BY <3>1, PageSparesGone
  <2>4. \A n \in 1..N : VerdictTombs(ops[n].product, r.results[n], E)
    BY <1>1, <2>1 DEF TombInv, ReplyTombs, ResultTombs
  <2>5. Tombed(e, E, G)
    <3> DEFINE results == r.results
    <3>1. /\ \A n \in 1..N : ops[n] \in own /\ OpFits(ops[n]) /\ ResultFits(ops[n], results[n], feed)
          /\ \A n \in 1..N : VerdictTombs(ops[n].product, results[n], E)
          /\ Tombed(db[d], E, G) /\ N \in Nat /\ DOMAIN ops = 1..N
          /\ Reconcile(db[d], ops, results, page) # None
      BY <1>6, <2>1, <2>4, TombsOfDevice
    <3> HIDE DEF ops, N, own, page, results, E, G
    <3>2. Tombed(Reconcile(db[d], ops, results, page), E, G)
      BY <1>3, <2>2, <2>3, <3>1, BatchKeepsTombs
    <3> QED BY <3>2 DEF results
  <2> HIDE DEF e, E, G
  <2>6. Tombed(db'[d], E, G)
    BY <1>1, <1>6, <2>5 DEF IInv, TypeOK
  <2>7. \A c \in Devices : phase'[c] = "reconcile" =>
            phase[c] = "reconcile" /\ claimed'[c] = claimed[c] /\ reply'[c] = reply[c]
    BY <1>1, <1>6 DEF IInv, TypeOK
  <2>8. TombInv'
    BY <1>1, <1>4, <2>6, <2>7, DeviceKeepsTombs DEF E
  <2> QED BY <2>6, <2>8 DEF Tombed, Stays, G
<1> QED BY <1>5, <1>6

LEMMA ApplyTombs ==
    ASSUME IInv, TombInv, NEW d \in Devices, ApplyChanges(d)
    PROVE  TombInv' /\ Stays(d)
<1> DEFINE r == reply[d]
           own == Own(done[d])
           N == r.to - r.from
           changes == [n \in 1..N |-> feed[r.from + n]]
           fresh == {n \in DOMAIN changes : r.from + n \notin Reconciled(r)}
           e == ApplyPage(db[d], r.from, changes, fresh, r.to)
           E == Ends(plan.opening, feed)
           G == Passed(d)
<1>1. /\ phase[d] = "apply"
      /\ e = None => ReleaseAndStop(d) /\ UNCHANGED wire
      /\ e # None => /\ db' = [db EXCEPT ![d] = e]
                     /\ IF r.more THEN Send(d, << >>, r.to) ELSE Idle(d) /\ UNCHANGED wire
      /\ UNCHANGED <<plan, done>>
  BY DEF ApplyChanges
<1>2. ReplyOk(r, claimed[d], db[d].cursor, feed)
  BY <1>1, InWorld DEF CycleOk
<1>3. World(own, Known(done), feed) /\ feed \in Seq(Change)
      /\ Good(db[d], own, Known(done), Accepted(feed))
  BY InWorld
<1>4. r.from \in Nat /\ r.to \in Nat /\ r.from = db[d].cursor /\ r.from <= r.to /\ r.to <= Len(feed)
  BY <1>2 DEF ReplyOk, Response
<1>5. N \in Nat /\ DOMAIN changes = 1..N
  BY <1>4
<1>6. \A n \in 1..N : r.from + n \in DOMAIN feed /\ changes[n] = feed[r.from + n]
                      /\ r.from + n > db[d].cursor
  <2> SUFFICES ASSUME NEW n \in 1..N
               PROVE  r.from + n \in DOMAIN feed /\ r.from + n > db[d].cursor
    OBVIOUS
  <2>1. r.from + n \in 1..r.to /\ r.from + n > db[d].cursor
    BY <1>4
  <2> QED BY <1>3, <1>4, <2>1
<1>7. Forward(d)
  BY ApplyKeeps
<1>8. CASE e = None
  BY <1>1, <1>7, <1>8, ReleaseTombs
<1>9. CASE e # None
  <2>1. ListTombs(changes, N, E)
    <3> SUFFICES ASSUME NEW n \in 1..N, IsProductOp(changes[n].op)
                 PROVE  RowFits(changes[n].op.product, changes[n].image, E)
      BY DEF ListTombs
    <3>1. r.from + n \in DOMAIN feed /\ changes[n] = feed[r.from + n] /\ r.from + n > db[d].cursor
      BY <1>6
    <3> HIDE DEF changes
    <3> QED BY <3>1, PageSparesGone
  <2>2. Tombed(e, E, G)
    <3> DEFINE from == r.from
               last == r.to
    <3>1. /\ ChangesAfter(changes, from, N, feed)
      <4> HIDE DEF changes
      <4> QED BY <1>5, <1>6 DEF ChangesAfter
    <3>2. from \in Nat /\ last \in Nat /\ ApplyPage(db[d], from, changes, fresh, last) # None
          /\ Tombed(db[d], E, G)
      BY <1>4, <1>9, TombsOfDevice
    <3> HIDE DEF from, last, changes, fresh, N, own, E, G
    <3>3. Tombed(ApplyPage(db[d], from, changes, fresh, last), E, G)
      BY <1>3, <1>5, <2>1, <3>1, <3>2, PageKeepsTombs
    <3> QED BY <3>3 DEF from, last
  <2> HIDE DEF e, E, G
  <2>3. Tombed(db'[d], E, G)
    BY <1>1, <1>9, <2>2 DEF IInv, TypeOK
  <2>4. (Idle(d) /\ UNCHANGED wire) \/ Send(d, << >>, r.to)
    BY <1>1, <1>9
  <2>5. TombInv'
    BY <1>1, <1>7, <2>3, <2>4, NothingReceived, DeviceKeepsTombs DEF E
  <2> QED BY <2>3, <2>5 DEF Tombed, Stays, G
<1> QED BY <1>8, <1>9

LEMMA BootstrapTombs ==
    ASSUME IInv, TombInv, NEW d \in Devices, Bootstrap(d)
    PROVE  TombInv' /\ Stays(d)
<1> DEFINE E == Ends(plan.opening, feed)
           G == Passed(d)
           e == Install(db[d], Snapshot)
<1>1. db' = [db EXCEPT ![d] = e] /\ UNCHANGED <<plan, done, device, wire>>
  BY DEF Bootstrap
<1>2. Snapshot.products = catalog
  BY DEF Snapshot
<1>3. catalog \in [Products -> Image \cup {None}] /\ feed \in Seq(Change)
      /\ CatalogTombs(catalog, plan.opening, feed)
  BY DEF IInv, TypeOK, TombInv, ServerTombs
<1>4. ASSUME NEW p \in G PROVE catalog[p] # None /\ catalog[p].deleted
  <2>1. p \in Products /\ Ended(plan.opening, feed, p, db[d].cursor)
    BY DEF Passed
  <2>2. db[d].cursor \in Int /\ Len(feed) \in Int /\ db[d].cursor <= Len(feed)
    BY TombsOfDevice
  <2>3. Ended(plan.opening, feed, p, Len(feed))
    <3> HIDE DEF G
    <3> QED BY <1>3, <2>1, <2>2, EndedLater
  <2> QED BY <1>3, <2>1, <2>3 DEF CatalogTombs
<1>5. \A p \in Products : RowFits(p, catalog[p], E)
  BY <1>3 DEF CatalogTombs
<1>6. G \in SUBSET Products
  BY DEF Passed
<1> HIDE DEF E, G
<1>7. Tombed(e, E, G)
  BY <1>2, <1>3, <1>4, <1>5, <1>6, TombsOfDevice, InstallKeepsTombs
<1> HIDE DEF e
<1>8. Tombed(db'[d], E, G)
  BY <1>1, <1>7 DEF IInv, TypeOK
<1>9. Forward(d)
  BY BootstrapKeeps
<1>10. TombInv'
  BY <1>1, <1>8, <1>9, DeviceKeepsTombs DEF E, device
<1> QED BY <1>8, <1>10 DEF Tombed, Stays, G

(* A verdict brings the tombstone of its own product, or an active owner of *)
(* the barcode.                                                            *)
LEMMA RejectedTombs ==
    ASSUME NEW op \in Operation, NEW reason, NEW E, \A p \in Products : RowFits(p, catalog[p], E)
    PROVE  VerdictTombs(op.product, Rejected(op, reason), E)
<1>1. op.product \in Products
  BY DEF Operation
<1>2. Holders(op) # {} => ~catalog[CHOOSE q \in Holders(op) : TRUE].deleted
  BY HolderIsActive
<1>3. Rejected(op, reason).state = CanonicalRow(op, reason)
  BY DEF Rejected
<1> QED BY <1>1, <1>2, <1>3 DEF VerdictTombs, CanonicalRow

(* The server accepts nothing of a deleted product, and a deletion of it    *)
(* leaves its tombstone in the feed and in the catalog.                    *)
LEMMA AcceptedTombs ==
    ASSUME NEW O, NEW C, C \in [Products -> Image \cup {None}], NEW F, NEW known, FeedOk(F, known),
           FeedTombs(O, F), CatalogTombs(C, O, F), NEW c, c.op \in Operation,
           NEW G, Extends(F, G), Len(G) = Len(F) + 1, G[Len(F) + 1] = c,
           NEW D, D = IF IsProductOp(c.op) THEN [C EXCEPT ![c.op.product] = c.image] ELSE C,
           ~(C[c.op.product] # None /\ C[c.op.product].deleted),
           IsProductOp(c.op) => /\ c.image \in Image /\ c.image.stamp = Len(F) + 1
                                /\ c.image.deleted <=> c.op.kind = "delete"
    PROVE  FeedTombs(O, G) /\ CatalogTombs(D, O, G)
<1> DEFINE N == Len(F)
           x == c.op.product
<1>1. N \in Nat /\ DOMAIN F = 1..N /\ DOMAIN G = 1..N + 1 /\ \A s \in 1..N : G[s] = F[s]
  BY DEF Extends
<1>2. x \in Products
  BY DEF Operation
<1>3. ~Ended(O, F, x, N)
  BY <1>2 DEF CatalogTombs
<1>4. \A p \in Products : Ended(O, G, p, N + 1) => Ended(O, F, p, N) \/ (p = x /\ c.op.kind = "delete")
  BY <1>1 DEF Ended
<1>5. c.op.kind = "delete" => IsProductOp(c.op) /\ Ended(O, G, x, N + 1)
  BY <1>1 DEF Ended, IsProductOp
<1>6. Ends(O, F) \subseteq Ends(O, G)
  BY EndsGrow
<1>7. FeedTombs(O, G)
  <2> SUFFICES ASSUME NEW s \in DOMAIN G, IsProductOp(G[s].op)
               PROVE  /\ G[s].image.stamp = s
                      /\ G[s].image.deleted <=> G[s].op.kind = "delete"
                      /\ ~Ended(O, G, G[s].op.product, s - 1)
    BY DEF FeedTombs
  <2>0. s - 1 \in Int /\ s - 1 <= N
    BY <1>1
  <2>1. CASE s = N + 1
    <3>1. ~Ended(O, G, x, N)
      BY <1>1, <1>3, EndedStands
    <3>2. s - 1 = N /\ G[s] = c
      BY <1>1, <2>1
    <3> QED BY <2>1, <3>1, <3>2
  <2>2. CASE s # N + 1
    <3>1. s \in DOMAIN F /\ G[s] = F[s]
      BY <1>1, <2>2
    <3>2. /\ F[s].image.stamp = s
          /\ F[s].image.deleted <=> F[s].op.kind = "delete"
          /\ ~Ended(O, F, F[s].op.product, s - 1)
      BY <3>1 DEF FeedTombs
    <3>3. ~Ended(O, G, F[s].op.product, s - 1)
      BY <2>0, <3>2, EndedStands
    <3> QED BY <3>1, <3>2, <3>3
  <2> QED BY <2>1, <2>2
<1>8. ASSUME NEW p \in Products, IsProductOp(c.op), p = x
      PROVE  /\ RowFits(p, D[p], Ends(O, G))
             /\ Ended(O, G, p, N + 1) => D[p] # None /\ D[p].deleted
  <2>1. D[p] = c.image /\ c.image # None
    BY <1>8, NoneIsNoData
  <2>2. c.image.deleted => <<p, N + 1>> \in Ends(O, G)
    BY <1>1, <1>5, <1>8 DEF Ends
  <2> QED BY <1>3, <1>4, <1>8, <2>1, <2>2 DEF RowFits
<1>9. ASSUME NEW p \in Products, ~(IsProductOp(c.op) /\ p = x)
      PROVE  /\ RowFits(p, D[p], Ends(O, G))
             /\ Ended(O, G, p, N + 1) => D[p] # None /\ D[p].deleted
  <2>1. D[p] = C[p]
    BY <1>9
  <2>2. RowFits(p, C[p], Ends(O, G))
    BY <1>6 DEF CatalogTombs, RowFits
  <2>3. Ended(O, F, p, N) => C[p] # None /\ C[p].deleted
    BY DEF CatalogTombs
  <2> QED BY <1>4, <1>5, <1>9, <2>1, <2>2, <2>3
<1>10. CatalogTombs(D, O, G)
  <2> HIDE DEF x
  <2> QED BY <1>8, <1>9 DEF CatalogTombs
<1> QED BY <1>7, <1>10

(* What an accepted operation finds and leaves. *)
LEMMA AcceptanceSays ==
    ASSUME NEW op, Rejection(op) = None
    PROVE  /\ ~(catalog[op.product] # None /\ catalog[op.product].deleted)
           /\ ChangeOf(op).op = op
           /\ IsProductOp(op) => /\ ChangeOf(op).image.stamp = Len(feed) + 1
                                 /\ ChangeOf(op).image.deleted <=> op.kind = "delete"
<1>1. ~(catalog[op.product] # None /\ catalog[op.product].deleted)
  BY NoneIsNoReason DEF Rejection, Reasons
<1> QED BY <1>1 DEF ChangeOf

(* The decision on an operation, and the verdict on it. *)
LEMMA DecideTombs ==
    ASSUME IInv, TombInv, NEW d \in Devices, NEW op \in Own(done[d]), OpFits(op),
           op.id \notin DOMAIN outcomes, NEW reason, Given(op, reason), Decide(op, reason)
    PROVE  /\ ServerTombs(catalog', plan.opening, feed', outcomes', Known(done))
           /\ VerdictTombs(op.product, outcomes'[op.id], Ends(plan.opening, feed'))
<1> DEFINE c == ChangeOf(op)
           r == IF reason = None THEN Applied(c) ELSE Rejected(op, reason)
           O == plan.opening
           known == Known(done)
           E == Ends(O, feed)
           E2 == Ends(O, feed')
<1>1. /\ outcomes' = [id \in DOMAIN outcomes \cup {op.id} |-> IF id = op.id THEN r ELSE outcomes[id]]
      /\ reason # None => UNCHANGED <<catalog, feed>>
      /\ reason = None =>
            /\ feed' = Append(feed, c)
            /\ catalog' = IF IsProductOp(op) THEN [catalog EXCEPT ![op.product] = c.image]
                          ELSE catalog
  BY DEF Decide
<1>2. /\ FeedOk(feed, known) /\ catalog \in [Products -> Image \cup {None}]
      /\ feed \in Seq(Change) /\ feed' \in Seq(Change) /\ Extends(feed, feed')
  BY OperationDecided DEF IInv, TypeOK, ServerInv, ServerOk
<1>3. FeedTombs(O, feed) /\ CatalogTombs(catalog, O, feed) /\ OutcomeTombs(outcomes, known, E)
  BY DEF TombInv, ServerTombs
<1>4. op \in Operation /\ op \in known
  BY DEF Own, Known
<1>5. E \subseteq E2
  BY <1>2, EndsGrow
<1>10. reason = None => Rejection(op) = None
  BY <1>2, <1>4, GivenSays
<1>6. FeedTombs(O, feed') /\ CatalogTombs(catalog', O, feed')
  <2>1. CASE reason # None
    BY <1>1, <1>3, <2>1
  <2>2. CASE reason = None
    <3>1. c \in Change /\ c.op = op /\ (IsProductOp(op) => c.image \in Image)
      BY <1>10, <2>2, ChangeFits
    <3>2. /\ ~(catalog[op.product] # None /\ catalog[op.product].deleted)
          /\ IsProductOp(op) => /\ c.image.stamp = Len(feed) + 1
                                /\ c.image.deleted <=> op.kind = "delete"
      BY <1>10, <2>2, AcceptanceSays
    <3> HIDE DEF c, O, known
    <3>3. Len(feed') = Len(feed) + 1 /\ feed'[Len(feed) + 1] = c
      BY <1>1, <1>2, <2>2, <3>1
    <3> DEFINE D == catalog'
               G == feed'
    <3>4. /\ D = IF IsProductOp(c.op) THEN [catalog EXCEPT ![c.op.product] = c.image] ELSE catalog
          /\ c.op \in Operation /\ ~(catalog[c.op.product] # None /\ catalog[c.op.product].deleted)
          /\ IsProductOp(c.op) => /\ c.image \in Image /\ c.image.stamp = Len(feed) + 1
                                  /\ c.image.deleted <=> c.op.kind = "delete"
      BY <1>1, <1>4, <2>2, <3>1, <3>2
    <3>5. Extends(feed, G) /\ Len(G) = Len(feed) + 1 /\ G[Len(feed) + 1] = c
      BY <1>2, <3>3
    <3> HIDE DEF D, G
    <3>6. FeedTombs(O, G) /\ CatalogTombs(D, O, G)
      BY <1>2, <1>3, <3>4, <3>5, AcceptedTombs
    <3> QED BY <3>6 DEF D, G
  <2> QED BY <2>1, <2>2
<1>7. VerdictTombs(op.product, r, E2)
  <2>1. CASE reason = None
    <3>1. r.state = None
      BY <2>1 DEF Applied
    <3> QED BY <3>1 DEF VerdictTombs
  <2>2. CASE reason # None
    <3>1. VerdictTombs(op.product, Rejected(op, reason), E)
      <4> HIDE DEF E
      <4> QED BY <1>3, <1>4, RejectedTombs DEF CatalogTombs, E
    <3> QED BY <1>5, <2>2, <3>1, TombsGrow
  <2> QED BY <2>1, <2>2
<1> HIDE DEF r, E, E2, known, O
<1>8. outcomes'[op.id] = r /\ \A id \in DOMAIN outcomes' :
        id = op.id \/ (id \in DOMAIN outcomes /\ outcomes'[id] = outcomes[id])
  BY <1>1
<1>9. OutcomeTombs(outcomes', known, E2)
  <2>1. OutcomeTombs(outcomes, known, E2)
    BY <1>3, <1>5, TombsGrow
  <2> QED BY <1>4, <1>7, <1>8, <2>1 DEF OutcomeTombs
<1> QED BY <1>6, <1>7, <1>8, <1>9 DEF ServerTombs, E2, O, known

(* A request gets one more verdict. *)
LEMMA VerdictTombAdded ==
    ASSUME IInv, TombInv, NEW q \in wire, Undecided(q), NEW r \in Outcome, WithResult(q, r),
           Extends(feed, feed'), VerdictTombs(NextOp(q).product, r, Ends(plan.opening, feed')),
           ServerTombs(catalog', plan.opening, feed', outcomes', Known(done)),
           UNCHANGED <<plan, db, done, device>>
    PROVE  TombInv'
<1> DEFINE O == plan.opening
           E == Ends(O, feed)
           E2 == Ends(O, feed')
           new == [q EXCEPT !.results = Append(q.results, r), !.verdict = ""]
<1>1. E \subseteq E2
  BY EndsGrow
<1>2. wire' = (wire \ {q}) \cup {new}
  BY DEF WithResult
<1>3. q \in Request /\ q.results \in Seq(Outcome)
  BY WireIsOk DEF Request
<1>4. new.ops = q.ops /\ new.results = Append(q.results, r)
  BY <1>3 DEF Request
<1> HIDE DEF new, E, E2
<1>5. \A x \in wire : ResultTombs(x.ops, x.results, E2)
  BY <1>1, TombsGrow DEF TombInv, WireTombs, E
<1>6. ResultTombs(new.ops, new.results, E2)
  <2> SUFFICES ASSUME NEW n \in DOMAIN new.results
               PROVE  VerdictTombs(new.ops[n].product, new.results[n], E2)
    BY DEF ResultTombs
  <2>1. n \in 1..Len(q.results) + 1
    BY <1>3, <1>4
  <2>2. CASE n = Len(q.results) + 1
    <3>1. new.results[n] = r
      BY <1>3, <1>4, <2>1, <2>2
    <3> QED BY <1>4, <2>2, <3>1 DEF NextOp, E2
  <2>3. CASE n # Len(q.results) + 1
    <3>1. n \in DOMAIN q.results /\ new.results[n] = q.results[n]
      BY <1>3, <1>4, <2>1, <2>3
    <3> QED BY <1>4, <1>5, <3>1 DEF ResultTombs
  <2> QED BY <2>2, <2>3
<1>7. WireTombs(wire', E2)
  BY <1>2, <1>5, <1>6 DEF WireTombs
<1>8. ReplyTombs(phase, claimed, reply, E2)
  BY <1>1, TombsGrow DEF TombInv, ReplyTombs, E
<1>9. StoreTombs(db, E2)
  BY <1>1, TombsGrow DEF TombInv, StoreTombs, E
<1> QED BY <1>7, <1>8, <1>9 DEF TombInv, E2, device

LEMMA JudgeTombs ==
    ASSUME IInv, TombInv, NEW q \in wire, Judge(q)
    PROVE  TombInv'
<1> DEFINE E == Ends(plan.opening, feed)
           new == [q EXCEPT !.verdict = Rejection(NextOp(q))]
<1>1. /\ wire' = (wire \ {q}) \cup {new} /\ UNCHANGED <<plan, db, done, device, server>>
  BY DEF Judge
<1>2. new.ops = q.ops /\ new.results = q.results
  BY WireIsOk DEF Request
<1> HIDE DEF new
<1>3. WireTombs(wire', E)
  BY <1>1, <1>2 DEF TombInv, WireTombs
<1> QED BY <1>1, <1>3 DEF TombInv, server, device

LEMMA ProcessTombs ==
    ASSUME IInv, JudgedInv, TombInv, NEW q \in wire, Process(q)
    PROVE  TombInv'
<1> DEFINE op == NextOp(q)
           r == outcomes'[op.id]
           E2 == Ends(plan.opening, feed')
<1>1. /\ Undecided(q)
      /\ op.id \in DOMAIN outcomes => UNCHANGED server
      /\ op.id \notin DOMAIN outcomes => \E reason : Given(op, reason) /\ Decide(op, reason)
      /\ WithResult(q, r)
      /\ UNCHANGED <<plan, db, done, device>>
  BY ConcludeDecides DEF Process
<1>2. q.device \in Devices /\ op \in Own(done[q.device]) /\ op \in Known(done) /\ OpFits(op)
  BY <1>1, NextOpFits
<1>3. CASE op.id \in DOMAIN outcomes
  <2>1. /\ feed' = feed /\ catalog' = catalog /\ outcomes' = outcomes
    BY <1>1, <1>3 DEF server
  <2>2. ServerTombs(catalog', plan.opening, feed', outcomes', Known(done))
    BY <2>1 DEF TombInv
  <2>3. PICK other \in Known(done) : other.id = op.id /\ VerdictTombs(other.product, r, E2)
    BY <1>3, <2>1, <2>2 DEF ServerTombs, OutcomeTombs
  <2>4. PlanKept(plan, done)
    BY <1>2, InWorld
  <2>5. other.product = op.product
    <3> HIDE DEF op
    <3> QED BY <1>2, <2>3, <2>4, SameIntent DEF From
  <2>6. Extends(feed, feed') /\ r \in Outcome
    BY <1>3, <2>1, ServerStays DEF server
  <2> HIDE DEF r
  <2> QED BY <1>1, <2>2, <2>3, <2>5, <2>6, VerdictTombAdded
<1>4. CASE op.id \notin DOMAIN outcomes
  <2>1. PICK reason : Given(op, reason) /\ Decide(op, reason)
    BY <1>1, <1>4
  <2> HIDE DEF op
  <2>2. Extends(feed, feed') /\ r \in Outcome
    BY <1>2, <1>4, <2>1, OperationDecided DEF ResultFits
  <2>3. /\ ServerTombs(catalog', plan.opening, feed', outcomes', Known(done))
        /\ VerdictTombs(op.product, r, E2)
    BY <1>2, <1>4, <2>1, DecideTombs
  <2> HIDE DEF r
  <2> QED BY <1>1, <2>2, <2>3, VerdictTombAdded DEF op
<1> QED BY <1>3, <1>4

LEMMA ProcessFailsTombs ==
    ASSUME IInv, JudgedInv, TombInv, NEW q \in wire, NEW committed \in BOOLEAN,
           ProcessFails(q, committed)
    PROVE  TombInv'
<1> DEFINE op == NextOp(q)
           r == Rejected(op, "internal_error")
<1>1. /\ Undecided(q) /\ op.id \notin DOMAIN outcomes
      /\ committed => \E reason : Given(op, reason) /\ Decide(op, reason)
      /\ ~committed => UNCHANGED server
      /\ WithResult(q, r)
      /\ UNCHANGED <<plan, db, done, device>>
  BY ConcludeDecides DEF ProcessFails
<1>2. q.device \in Devices /\ op \in Own(done[q.device]) /\ op \in Operation /\ OpFits(op)
  BY <1>1, NextOpFits
<1>3. r.state = None
  BY DEF Rejected, CanonicalRow
<1>4. r \in Outcome
  <2>1. catalog \in [Products -> Image \cup {None}] /\ "internal_error" \in Reasons
    BY DEF IInv, TypeOK, Reasons
  <2> HIDE DEF op
  <2> QED BY <1>2, <2>1, RejectedFits DEF ResultFits
<1> HIDE DEF r, op
<1>5. Extends(feed, feed') /\ ServerTombs(catalog', plan.opening, feed', outcomes', Known(done))
  <2>1. CASE committed
    <3>1. PICK reason : Given(op, reason) /\ Decide(op, reason)
      BY <1>1, <2>1
    <3> QED BY <1>1, <1>2, <3>1, OperationDecided, DecideTombs
  <2>2. CASE ~committed
    BY <1>1, <2>2, ServerStays DEF TombInv, server
  <2> QED BY <2>1, <2>2
<1>6. VerdictTombs(op.product, r, Ends(plan.opening, feed'))
  BY <1>3 DEF VerdictTombs
<1> QED BY <1>1, <1>4, <1>5, <1>6, VerdictTombAdded DEF op

LEMMA AnswerTombs ==
    ASSUME IInv, TombInv, NEW q \in wire, Answer(q)
    PROVE  TombInv'
<1> DEFINE E == Ends(plan.opening, feed)
           d == q.device
<1>1. /\ wire' \subseteq wire /\ UNCHANGED <<plan, db, done, claimed, catalog, feed, outcomes>>
      /\ ~q.live => UNCHANGED <<reply, phase>>
  BY DEF Answer, server
<1>2. WireTombs(wire', E)
  BY <1>1 DEF TombInv, WireTombs
<1>3. ReplyTombs(phase', claimed', reply', E)
  <2>1. CASE ~q.live
    BY <1>1, <2>1 DEF TombInv
  <2>2. CASE q.live
    <3>1. d \in Devices /\ q.ops = claimed[d]
      BY <2>2, WireIsOk DEF IInv, WireInv, Awaited, Request
    <3>2. ResultTombs(q.ops, q.results, E)
      BY DEF TombInv, WireTombs
    <3>3. /\ reply'[d].results = q.results
          /\ \A c \in Devices \ {d} : reply'[c] = reply[c] /\ phase'[c] = phase[c]
      BY <2>2, <3>1 DEF Answer, IInv, TypeOK
    <3> SUFFICES ASSUME NEW c \in Devices, phase'[c] = "reconcile"
                 PROVE  ResultTombs(claimed[c], reply'[c].results, E)
      BY <1>1 DEF ReplyTombs
    <3>4. CASE c = d
      BY <3>1, <3>2, <3>3, <3>4
    <3>5. CASE c # d
      <4>1. phase[c] = "reconcile" /\ reply'[c] = reply[c]
        BY <3>3, <3>5
      <4> QED BY <4>1 DEF TombInv, ReplyTombs
    <3> QED BY <3>4, <3>5
  <2> QED BY <2>1, <2>2
<1> HIDE DEF E
<1> QED BY <1>1, <1>2, <1>3 DEF TombInv, E

(* At first the catalog is the one the devices opened with. *)
LEMMA OpensTombs == Init => TombInv
<1> SUFFICES ASSUME Init PROVE TombInv
  OBVIOUS
<1> DEFINE O == plan.opening
           E == Ends(O, << >>)
<1>1. /\ feed = << >> /\ catalog = O /\ DOMAIN outcomes = {} /\ wire = {}
      /\ \A d \in Devices : phase[d] = "idle"
  BY DEF Init
<1>2. O \in [Products -> Image \cup {None}]
  BY PlansAreOfTheirKind DEF Init
<1>3. \A p \in Products : RowFits(p, O[p], E)
  BY DEF RowFits, Ends, Ended
<1>4. FeedTombs(O, feed)
  BY <1>1 DEF FeedTombs
<1>5. CatalogTombs(catalog, O, feed)
  <2>1. \A p \in Products : Ended(O, << >>, p, Len(<< >>)) => O[p] # None /\ O[p].deleted
    BY DEF Ended
  <2> QED BY <1>1, <1>3, <2>1 DEF CatalogTombs
<1>6. OutcomeTombs(outcomes, Known(done), E)
  BY <1>1 DEF OutcomeTombs
<1>7. StoreTombs(db, E)
  <2> SUFFICES ASSUME NEW d \in Devices PROVE Tombed(db[d], E, {})
    BY DEF StoreTombs
  <2> DEFINE snapshot == [products |-> O, moves |-> {},
                          balances |-> [p \in Products |-> 0], cursor |-> 0]
  <2>1. db[d] = Install(Empty, snapshot) /\ snapshot.products = O
    BY DEF Init
  <2>2. Empty \in Database
    BY EmptyIsGood DEF Good
  <2> HIDE DEF snapshot, E
  <2> QED BY <1>2, <1>3, <2>1, <2>2, InstallKeepsTombs
<1>8. WireTombs(wire, E) /\ ReplyTombs(phase, claimed, reply, E)
  BY <1>1 DEF WireTombs, ReplyTombs
<1> QED BY <1>1, <1>4, <1>5, <1>6, <1>7, <1>8 DEF TombInv, ServerTombs

(* The user of d asks for a follow-up to an operation on product p. *)
Asked(d, p) ==
    \E c \in db[d].conflicts : \E choice \in Offers(c) \ {"reviewed"} :
        c.op.product = p /\ UserResolves(d, c, choice)

(* A product that is gone stays so unless the user asks for it. *)
StaysOrAsked(d) == \A p \in Passed(d) : Gone(db'[d], p) \/ Asked(d, p)

(* Nobody else touches the database of a device. *)
LEMMA OthersStay ==
    ASSUME NEW d \in Devices, Forward(d), StaysOrAsked(d)
    PROVE  \A c \in Devices : StaysOrAsked(c)
<1>1. \A c \in Devices \ {d} : db'[c] = db[c]
  BY DEF Forward
<1> QED BY <1>1 DEF StaysOrAsked, Passed, Gone

LEMMA DatabasesStay ==
    ASSUME UNCHANGED db
    PROVE  \A d \in Devices : StaysOrAsked(d)
BY DEF StaysOrAsked, Passed, Gone

(* No step restores what is gone. *)
LEMMA NextTombs ==
    ASSUME IInv, JudgedInv, TombInv, [Next]_vars
    PROVE  TombInv' /\ \A d \in Devices : StaysOrAsked(d)
<1>0. \A d \in Devices : Stays(d) => StaysOrAsked(d)
  BY DEF Stays, StaysOrAsked
<1>1. ASSUME NEW d \in Devices, NEW i \in plan.intents[d], UserMutates(d, i)
      PROVE  TombInv' /\ \A c \in Devices : StaysOrAsked(c)
  BY <1>0, <1>1, UserMutatesTombs, UserMutatesKeeps, OthersStay
<1>2. ASSUME NEW d \in Devices, NEW c \in db[d].conflicts, NEW choice \in Offers(c),
             UserResolves(d, c, choice)
      PROVE  TombInv' /\ \A e \in Devices : StaysOrAsked(e)
  <2>1. /\ TombInv'
        /\ \A p \in Passed(d) : Gone(db'[d], p) \/ (choice # "reviewed" /\ c.op.product = p)
    BY <1>2, UserResolvesTombs
  <2>2. StaysOrAsked(d)
    BY <1>2, <2>1 DEF StaysOrAsked, Asked
  <2>3. Forward(d)
    BY <1>2, UserResolvesKeeps
  <2> QED BY <2>1, <2>2, <2>3, OthersStay
<1>3. ASSUME NEW d \in Devices, Cycle(d) PROVE TombInv' /\ \A c \in Devices : StaysOrAsked(c)
  <2>1. TombInv' /\ Stays(d)
    BY <1>3, BeginTombs, ReconcileTombs, ApplyTombs DEF Cycle
  <2>2. Forward(d)
    BY <1>3, BeginKeeps, ReconcileKeeps, ApplyKeeps DEF Cycle
  <2> QED BY <1>0, <2>1, <2>2, OthersStay
<1>4. ASSUME NEW d \in Devices, Elapses(d) PROVE TombInv' /\ \A c \in Devices : StaysOrAsked(c)
  BY <1>0, <1>4, ElapsesTombs, ElapsesKeeps, OthersStay
<1>5. ASSUME NEW d \in Devices, Fault(d) PROVE TombInv' /\ \A c \in Devices : StaysOrAsked(c)
  <2>1. CASE \E kind : \E status \in {"retrying", "queued", "parked"} : ExchangeFails(d, kind, status)
    BY <1>0, <2>1, ExchangeFailsTombs, ExchangeFailsKeeps, OthersStay
  <2>2. CASE Crash(d)
    BY <1>0, <2>2, CrashTombs, CrashKeeps, OthersStay
  <2> QED BY <1>5, <2>1, <2>2 DEF Fault, Timeout, Unauthorized, Refused
<1>6. ASSUME NEW d \in Devices, Bootstrap(d) PROVE TombInv' /\ \A c \in Devices : StaysOrAsked(c)
  BY <1>0, <1>6, BootstrapTombs, BootstrapKeeps, OthersStay
<1>7. ASSUME NEW q \in wire, Serve(q) PROVE TombInv' /\ \A d \in Devices : StaysOrAsked(d)
  <2>1. UNCHANGED db
    BY <1>7 DEF Serve, Judge, Process, Answer
  <2> QED BY <1>7, <2>1, JudgeTombs, ProcessTombs, AnswerTombs, DatabasesStay DEF Serve
<1>8. ASSUME NEW q \in wire, NEW committed \in BOOLEAN, ProcessFails(q, committed)
      PROVE  TombInv' /\ \A d \in Devices : StaysOrAsked(d)
  <2>1. UNCHANGED db
    BY <1>8 DEF ProcessFails
  <2> QED BY <1>8, <2>1, ProcessFailsTombs, DatabasesStay
<1>9. CASE UNCHANGED vars
  <2>1. UNCHANGED <<db, plan, done, catalog, feed, outcomes, wire, phase, claimed, reply>>
    BY <1>9 DEF vars, device, server
  <2> QED BY <2>1, DatabasesStay DEF TombInv
<1> QED BY <1>1, <1>2, <1>3, <1>4, <1>5, <1>6, <1>7, <1>8, <1>9 DEF Next

(* The tombstones of a device are all its cursor has passed. *)
LEMMA StampedHavePassed ==
    ASSUME IInv, TombInv, NEW d \in Devices, NEW p \in Products,
           Gone(db[d], p), db[d].rows[p].stamp \in 0..db[d].cursor
    PROVE  p \in Passed(d)
<1> DEFINE n == db[d].rows[p].stamp
           m == db[d].cursor
<1>1. n \in Nat /\ m \in Nat /\ n <= m /\ feed \in Seq(Change)
      /\ RowFits(p, db[d].rows[p], Ends(plan.opening, feed))
  BY TombsOfDevice DEF Tombed, IInv, TypeOK
<1>2. Ended(plan.opening, feed, p, n)
  BY <1>1 DEF RowFits, Ends, Gone
<1> HIDE DEF n
<1>3. Ended(plan.opening, feed, p, m)
  <2> HIDE DEF m
  <2> QED BY <1>1, <1>2, EndedLater
<1> QED BY <1>3 DEF Passed

(* Tombstones the cursor has passed stay, unless the user asks for more.    *)
TombstonesKeptOrAsked ==
    \A d \in Devices, p \in Products :
        Gone(db[d], p) /\ db[d].rows[p].stamp \in 0..db[d].cursor =>
            Gone(db'[d], p) \/ Asked(d, p)

(* Whatever arrives late, twice or out of order, is replayed, merged or     *)
(* written by a user: a product whose deletion the cursor of a device has   *)
(* passed stays deleted there, but for one thing: its user asks for a       *)
(* follow-up to an operation of that product on the conflict page.         *)
THEOREM OnlyAskedRestores == Spec => [][TombstonesKeptOrAsked]_vars
<1>1. Init => IInv /\ JudgedInv /\ TombInv
  BY Opens, InitJudged, OpensTombs
<1>2. IInv /\ JudgedInv /\ TombInv /\ [Next]_vars => IInv' /\ JudgedInv' /\ TombInv'
  BY NextKeeps, NextJudged, NextTombs
<1>3. IInv /\ JudgedInv /\ TombInv /\ [Next]_vars => [TombstonesKeptOrAsked]_vars
  <2> SUFFICES ASSUME IInv, JudgedInv, TombInv, [Next]_vars PROVE TombstonesKeptOrAsked
    OBVIOUS
  <2>1. \A d \in Devices : StaysOrAsked(d)
    BY NextTombs
  <2> QED BY <2>1, StampedHavePassed DEF TombstonesKeptOrAsked, StaysOrAsked
<1> QED BY <1>1, <1>2, <1>3, PTL DEF Spec

(* Where nobody asks for follow-ups, tombstones the cursor has passed stay:  *)
(* no late result, replayed outcome, change, merge or write of a user makes *)
(* the product active again.                                               *)
THEOREM TombstonesStay == MaxFollowUps = 0 => (Spec => TombstoneStays)
<1> SUFFICES ASSUME MaxFollowUps = 0 PROVE Spec => TombstoneStays
  OBVIOUS
<1>1. IInv /\ [TombstonesKeptOrAsked]_vars => [TombstonesKept]_vars
  <2> SUFFICES ASSUME IInv, TombstonesKeptOrAsked, NEW d \in Devices, NEW p \in Products,
                      Gone(db[d], p), db[d].rows[p].stamp \in 0..db[d].cursor
               PROVE  db'[d].rows[p].deleted
    BY DEF TombstonesKept, Gone
  <2>1. ~Asked(d, p)
    <3> SUFFICES ASSUME NEW c \in db[d].conflicts, NEW choice \in Offers(c) \ {"reviewed"},
                        UserResolves(d, c, choice)
                 PROVE  FALSE
      BY DEF Asked
    <3>1. c.op.id[2] < 0
      BY DEF UserResolves
    <3>2. c.op.id[2] \in Nat
      <4>1. c \in Conflict
        BY InWorld DEF Good, Database
      <4>2. c.op \in Operation
        BY <4>1, Zenon DEF Conflict
      <4>3. c.op.id \in OpId
        BY <4>2 DEF Operation
      <4> QED BY <4>3 DEF OpId
    <3> QED BY <3>1, <3>2
  <2> QED BY <2>1 DEF TombstonesKeptOrAsked, Gone
<1> QED BY <1>1, Invariant, OnlyAskedRestores, PTL DEF TombstoneStays
=============================================================================
