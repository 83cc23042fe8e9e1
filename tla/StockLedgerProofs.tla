------------------------- MODULE StockLedgerProofs --------------------------
(***************************************************************************)
(* Proofs about StockLedger, for any products, intents, workers and        *)
(* opening movements.                                                      *)
(*                                                                         *)
(* The sum of a ledger is a recursive function.  What is needed of it, its *)
(* type and what one more movement does to it, is proved by choosing the   *)
(* least position where it would fail.                                     *)
(***************************************************************************)
EXTENDS StockLedger, SequenceTheorems, WellFoundedInduction, TLAPS

(* A nonempty set of naturals has a least one. *)
LEMMA LeastNat ==
    ASSUME NEW S \in SUBSET Nat, S # {}
    PROVE  \E n \in S : \A k \in S : n <= k
<1>1. PICK n \in S : \A k \in S : <<k, n>> \notin OpToRel(<, Nat)
  BY NatLessThanWellFounded, WFMin
<1>2. \A k \in S : ~(k < n)
  BY <1>1 DEF OpToRel
<1> QED BY <1>2

(* An increment of a balance is a balance. *)
LEMMA IncrementType ==
    ASSUME NEW b \in Balance, NEW m \in Movement
    PROVE  Increment(b, m) \in Balance
BY DEF Balance, Movement, Increment, Later
-----------------------------------------------------------------------------
(* The running balances. *)

(* f holds the balances of the first n movements of a list. *)
Runs(moves, n, f) ==
    /\ f \in [0..n -> Balance]
    /\ f[0] = NoStock
    /\ \A k \in 1..n : f[k] = Increment(f[k - 1], moves[k])

(* Every list of movements has running balances. *)
LEMMA RunsExist ==
    ASSUME NEW s \in Seq(Movement), NEW n \in 0..Len(s)
    PROVE  \E f : Runs(s, n, f)
<1> DEFINE Without == {k \in 0..Len(s) : ~ \E f : Runs(s, k, f)}
<1>1. SUFFICES ASSUME Without # {} PROVE FALSE
  OBVIOUS
<1>2. PICK k \in Without : \A j \in Without : k <= j
  <2>1. Without \in SUBSET Nat
    OBVIOUS
  <2> HIDE DEF Without
  <2> QED BY <1>1, <2>1, LeastNat
<1>3. k # 0
  <2> DEFINE f == [j \in 0..0 |-> NoStock]
  <2>1. Runs(s, 0, f)
    BY DEF Runs, NoStock, Balance
  <2> QED BY <2>1
<1>4. k \in 1..Len(s) /\ k - 1 \in 0..Len(s) /\ k - 1 \notin Without
  BY <1>2, <1>3
<1>5. PICK f : Runs(s, k - 1, f)
  BY <1>4
<1> DEFINE g == [j \in 0..k |-> IF j = k THEN Increment(f[k - 1], s[k]) ELSE f[j]]
<1>6. s[k] \in Movement /\ f[k - 1] \in Balance
  BY <1>4, <1>5 DEF Runs
<1>7. g \in [0..k -> Balance]
  BY <1>4, <1>5, <1>6, IncrementType DEF Runs
<1>8. g[0] = NoStock
  BY <1>4, <1>5 DEF Runs
<1>9. ASSUME NEW j \in 1..k PROVE g[j] = Increment(g[j - 1], s[j])
  BY <1>4, <1>5 DEF Runs
<1>10. Runs(s, k, g)
  BY <1>7, <1>8, <1>9 DEF Runs
<1> QED BY <1>2, <1>10

(* Running balances of lists with a common start agree on it. *)
LEMMA RunsAgree ==
    ASSUME NEW s, NEW t, NEW a \in Nat, NEW b \in Nat, NEW f, NEW g,
           Runs(s, a, f), Runs(t, b, g),
           NEW n \in Nat, n <= a, n <= b, \A k \in 1..n : s[k] = t[k]
    PROVE  f[n] = g[n]
<1> DEFINE Apart == {k \in 0..n : f[k] # g[k]}
<1>1. SUFFICES ASSUME Apart # {} PROVE FALSE
  OBVIOUS
<1>2. PICK k \in Apart : \A j \in Apart : k <= j
  <2>1. Apart \in SUBSET Nat
    OBVIOUS
  <2> HIDE DEF Apart
  <2> QED BY <1>1, <2>1, LeastNat
<1>3. k # 0
  BY DEF Runs
<1>4. f[k - 1] = g[k - 1]
  BY <1>2, <1>3
<1>5. f[k] = Increment(f[k - 1], s[k]) /\ g[k] = Increment(g[k - 1], t[k])
  BY <1>2, <1>3 DEF Runs
<1> QED BY <1>2, <1>3, <1>4, <1>5

(* The balance of a ledger is the last of its running balances. *)
LEMMA BalanceIsLastRun ==
    ASSUME NEW s \in Seq(Movement)
    PROVE  \E f : Runs(s, Len(s), f) /\ LedgerBalance(s) = f[Len(s)]
<1> DEFINE Recursion(f) ==
        f = [n \in 0..Len(s) |-> IF n = 0 THEN NoStock ELSE Increment(f[n - 1], s[n])]
<1>1. PICK f : Runs(s, Len(s), f)
  BY RunsExist
<1>2. f = [n \in 0..Len(s) |-> f[n]]
  BY <1>1 DEF Runs
<1>3. \A n \in 0..Len(s) : f[n] = IF n = 0 THEN NoStock ELSE Increment(f[n - 1], s[n])
  BY <1>1 DEF Runs
<1>4. Recursion(f)
  BY <1>2, <1>3
<1> DEFINE g == CHOOSE h : Recursion(h)
<1>5. Recursion(g)
  BY <1>4
<1>6. LedgerBalance(s) = g[Len(s)]
  BY DEF LedgerBalance
<1> HIDE DEF g
<1>7. \A n \in 0..Len(s) : g[n] = f[n]
  <2> DEFINE Apart == {k \in 0..Len(s) : g[k] # f[k]}
  <2>1. SUFFICES ASSUME Apart # {} PROVE FALSE
    OBVIOUS
  <2>2. PICK k \in Apart : \A j \in Apart : k <= j
    <3>1. Apart \in SUBSET Nat
      OBVIOUS
    <3> HIDE DEF Apart
    <3> QED BY <2>1, <3>1, LeastNat
  <2>3. k # 0
    BY <1>5, <1>3
  <2>4. f[k - 1] = g[k - 1]
    BY <2>2, <2>3
  <2>5. g[k] = Increment(g[k - 1], s[k]) /\ f[k] = Increment(f[k - 1], s[k])
    BY <2>2, <2>3, <1>5, <1>3
  <2> QED BY <2>2, <2>4, <2>5
<1> QED BY <1>1, <1>6, <1>7

(* The balance of a ledger is a balance. *)
LEMMA BalanceType ==
    ASSUME NEW s \in Seq(Movement)
    PROVE  LedgerBalance(s) \in Balance
BY BalanceIsLastRun DEF Runs

(* One more movement increments it. *)
LEMMA BalanceOfAppend ==
    ASSUME NEW s \in Seq(Movement), NEW m \in Movement
    PROVE  LedgerBalance(Append(s, m)) = Increment(LedgerBalance(s), m)
<1> DEFINE t == Append(s, m)
           n == Len(s)
<1>1. t \in Seq(Movement) /\ Len(t) = n + 1 /\ t[n + 1] = m /\ \A k \in 1..n : t[k] = s[k]
  OBVIOUS
<1> HIDE DEF t
<1>2. PICK f : Runs(s, n, f) /\ LedgerBalance(s) = f[n]
  BY BalanceIsLastRun
<1>3. PICK g : Runs(t, n + 1, g) /\ LedgerBalance(t) = g[n + 1]
  BY <1>1, BalanceIsLastRun
<1>4. n \in Nat
  OBVIOUS
<1>5. g[n] = f[n]
  BY <1>1, <1>2, <1>3, <1>4, RunsAgree
<1>6. g[n + 1] = Increment(g[n], t[n + 1])
  BY <1>3, <1>4 DEF Runs
<1>7. LedgerBalance(t) = Increment(LedgerBalance(s), m)
  BY <1>1, <1>2, <1>3, <1>5, <1>6
<1> QED BY <1>7 DEF t
-----------------------------------------------------------------------------
(* One more movement. *)

(* What the checks under the product lock establish of movement m. *)
Fits(moves, m) ==
    /\ m.kind = "stocktake" =>
        /\ \A n \in Stocktakes(moves) : ComesAfter(m, moves[n])
        /\ LedgerBalance(moves).qty + m.delta = m.counted
    /\ m.reverses # None => \E n \in DOMAIN moves : moves[n].id = m.reverses

(* A ledger as the properties want it. *)
Sound(moves) == CountsHold(moves) /\ CountsAdvance(moves) /\ CorrectionsFollow(moves)

(* It stays one when a movement that fits is appended. *)
LEMMA AppendIsSound ==
    ASSUME NEW s \in Seq(Movement), NEW m \in Movement, Sound(s), Fits(s, m)
    PROVE  Sound(Append(s, m))
<1> DEFINE t == Append(s, m)
           len == Len(s)
<1>1. /\ t \in Seq(Movement) /\ Len(t) = len + 1 /\ len \in Nat
      /\ t[len + 1] = m /\ \A k \in 1..len : t[k] = s[k]
      /\ DOMAIN t = 1..(len + 1) /\ DOMAIN s = 1..len
  OBVIOUS
<1>2. SubSeq(t, 1, len + 1) = t
  BY <1>1, SubSeqFull
<1>3. \A n \in 1..len : SubSeq(t, 1, n) = SubSeq(s, 1, n)
  <2>1. t = s \o <<m>> /\ <<m>> \in Seq(Movement)
    BY AppendIsConcat
  <2> HIDE DEF t
  <2> QED BY <2>1, SubSeqOfConcat1
<1>4. LedgerBalance(t) = Increment(LedgerBalance(s), m)
  BY BalanceOfAppend
<1> HIDE DEF t
<1>5. CountsHold(t)
  <2> SUFFICES ASSUME NEW n \in Stocktakes(t)
               PROVE  LedgerBalance(SubSeq(t, 1, n)).qty = t[n].counted
    BY DEF CountsHold
  <2>1. CASE n = len + 1
    <3>1. m.kind = "stocktake" /\ t[n] = m /\ SubSeq(t, 1, n) = t
      BY <1>1, <1>2, <2>1 DEF Stocktakes
    <3>2. LedgerBalance(s).qty + m.delta = m.counted
      BY <3>1 DEF Fits
    <3>3. Increment(LedgerBalance(s), m).qty = LedgerBalance(s).qty + m.delta
      BY DEF Increment
    <3> QED BY <1>4, <3>1, <3>2, <3>3
  <2>2. CASE n \in 1..len
    BY <1>1, <1>3, <2>2 DEF Sound, CountsHold, Stocktakes
  <2> QED BY <1>1, <2>1, <2>2 DEF Stocktakes
<1>6. CountsAdvance(t)
  <2> SUFFICES ASSUME NEW n \in Stocktakes(t), NEW k \in Stocktakes(t), n < k
               PROVE  \/ t[n].at < t[k].at
                      \/ t[n].at = t[k].at /\ t[n].id < t[k].id
    BY DEF CountsAdvance
  <2>1. n \in 1..len /\ n \in Stocktakes(s)
    BY <1>1 DEF Stocktakes
  <2>2. CASE k = len + 1
    <3>1. ComesAfter(m, s[n])
      BY <1>1, <2>1, <2>2 DEF Fits, Stocktakes
    <3>2. s[n] \in Movement
      BY <2>1
    <3> QED BY <1>1, <2>1, <2>2, <3>1, <3>2 DEF ComesAfter, Movement
  <2>3. CASE k \in 1..len
    BY <1>1, <2>1, <2>3 DEF Sound, CountsAdvance, Stocktakes
  <2> QED BY <1>1, <2>2, <2>3 DEF Stocktakes
<1>7. CorrectionsFollow(t)
  <2> SUFFICES ASSUME NEW n \in 1..(len + 1), t[n].reverses # None
               PROVE  \E k \in 1..(n - 1) : t[k].id = t[n].reverses
    BY <1>1 DEF CorrectionsFollow
  <2>1. CASE n = len + 1
    BY <1>1, <2>1 DEF Fits
  <2>2. CASE n \in 1..len
    <3>1. PICK k \in 1..(n - 1) : s[k].id = s[n].reverses
      BY <1>1, <2>2 DEF Sound, CorrectionsFollow
    <3> QED BY <1>1, <2>2, <3>1
  <2> QED BY <2>1, <2>2
<1>8. Sound(t)
  BY <1>5, <1>6, <1>7 DEF Sound
<1> QED BY <1>8 DEF t
-----------------------------------------------------------------------------
(* The inductive invariant. *)

(* A transaction holds the row of its product, which is not deleted while  *)
(* it appends.                                                             *)
Held ==
    /\ \A w \in Workers : pc[w] # "idle" =>
        job[w] \in Intents /\ productLock[job[w].product] = w
    /\ \A w \in Workers : pc[w] \in {"locked", "inserted", "counted"} =>
        job[w].kind # "delete" /\ ~deleted[job[w].product]

(* The movement it inserted still fits the ledger. *)
RowFits ==
    \A w \in Workers : pc[w] \in {"inserted", "counted"} =>
        row[w] \in Movement /\ Fits(ledger[job[w].product], row[w])

(* The balance it wrote is the current one and its movement. *)
CountedOnTop ==
    \A w \in Workers : pc[w] = "counted" =>
        /\ balanceLock[job[w].product] = w
        /\ projected[w] = Increment(balance[job[w].product], row[w])

SoundLedgers == \A p \in Products : Sound(ledger[p])

IInv == TypeOK /\ Held /\ RowFits /\ CountedOnTop /\ SoundLedgers

LEMMA LedgerBalancesType == ASSUME TypeOK PROVE LedgerBalances \in [Products -> Balance]
BY BalanceType DEF TypeOK, LedgerBalances

LEMMA InitIInv == Init => IInv
<1> SUFFICES ASSUME Init PROVE IInv
  OBVIOUS
<1>1. \A p \in Products : Opening[p] \in Seq(Movement) /\ LedgerBalance(Opening[p]) \in Balance
  BY OpeningAssumption, BalanceType
<1>2. NoStock \in Balance
  BY DEF NoStock, Balance
<1>3. TypeOK
  BY <1>1, <1>2, OpeningAssumption DEF Init, TypeOK
<1>4. Held /\ RowFits /\ CountedOnTop
  BY DEF Init, Held, RowFits, CountedOnTop
<1>5. SoundLedgers
  BY OpeningAssumption DEF Init, SoundLedgers, Sound
<1> QED BY <1>3, <1>4, <1>5 DEF IInv

(* What the end of a transaction leaves to the others. *)
LEMMA EndKeeps ==
    ASSUME IInv, NEW w \in Workers, pc[w] # "idle", End(w)
    PROVE  /\ pc' \in [Workers -> {"idle", "locked", "inserted", "counted", "deleting"}]
           /\ job' \in [Workers -> Intents \cup {None}]
           /\ row' \in [Workers -> Movement \cup {None}]
           /\ projected' \in [Workers -> Balance \cup {None}]
           /\ productLock' \in [Products -> Workers \cup {None}]
           /\ balanceLock' \in [Products -> Workers \cup {"tool", None}]
           /\ \A v \in Workers : pc'[v] # "idle" =>
                /\ v # w /\ pc[v] # "idle"
                /\ pc'[v] = pc[v] /\ job'[v] = job[v] /\ row'[v] = row[v]
                /\ projected'[v] = projected[v]
                /\ job[v] \in Intents /\ job[v].product \in Products
                /\ job[v].product # job[w].product
                /\ productLock'[job[v].product] = v
                /\ balanceLock[job[v].product] = v => balanceLock'[job[v].product] = v
<1>1. /\ pc' \in [Workers -> {"idle", "locked", "inserted", "counted", "deleting"}]
      /\ job' \in [Workers -> Intents \cup {None}]
      /\ row' \in [Workers -> Movement \cup {None}]
      /\ projected' \in [Workers -> Balance \cup {None}]
  BY DEF IInv, TypeOK, End
<1>2. /\ productLock' \in [Products -> Workers \cup {None}]
      /\ balanceLock' \in [Products -> Workers \cup {"tool", None}]
  BY DEF IInv, TypeOK, End
<1>3. ASSUME NEW v \in Workers, pc'[v] # "idle"
      PROVE  /\ v # w /\ pc[v] # "idle"
             /\ pc'[v] = pc[v] /\ job'[v] = job[v] /\ row'[v] = row[v]
             /\ projected'[v] = projected[v]
  BY <1>3 DEF IInv, TypeOK, End
<1>4. ASSUME NEW v \in Workers, v # w, pc[v] # "idle"
      PROVE  /\ job[v] \in Intents /\ job[v].product \in Products
             /\ productLock[job[v].product] = v
             /\ job[v].product # job[w].product
  BY <1>4, IntentsAssumption DEF IInv, Held, Intent
<1>5. ASSUME NEW v \in Workers, v # w, pc[v] # "idle"
      PROVE  /\ productLock'[job[v].product] = v
             /\ balanceLock[job[v].product] = v => balanceLock'[job[v].product] = v
  BY <1>4, <1>5 DEF End
<1> QED BY <1>1, <1>2, <1>3, <1>4, <1>5

(* A rollback. *)
LEMMA RollbackKeeps == ASSUME IInv, NEW w \in Workers, Rollback(w) PROVE IInv'
<1> USE DEF Rollback, tables, toolVars
<1>1. TypeOK'
  BY EndKeeps DEF IInv, TypeOK
<1>2. Held' /\ RowFits' /\ CountedOnTop'
  BY EndKeeps DEF IInv, Held, RowFits, CountedOnTop
<1>3. SoundLedgers'
  BY DEF IInv, SoundLedgers
<1> QED BY <1>1, <1>2, <1>3 DEF IInv

(* The beginning of a transaction, and the rejection of a tombstone. *)
LEMMA BeginKeeps ==
    ASSUME IInv, NEW w \in Workers, NEW i \in Intents,
           RejectDeleted(w, i) \/ LockProduct(w, i) \/ DeleteProduct(w, i)
    PROVE  IInv'
<1> USE DEF tables, locks, txn, toolVars
<1>1. i.product \in Products
  BY IntentsAssumption DEF Intent
<1>2. CASE RejectDeleted(w, i)
  <2>1. TypeOK'
    BY <1>2 DEF RejectDeleted, IInv, TypeOK, Reasons
  <2>2. Held' /\ RowFits' /\ CountedOnTop' /\ SoundLedgers'
    BY <1>2 DEF RejectDeleted, IInv, Held, RowFits, CountedOnTop, SoundLedgers
  <2> QED BY <2>1, <2>2 DEF IInv
<1>3. CASE LockProduct(w, i) \/ DeleteProduct(w, i)
  <2> USE DEF LockProduct, DeleteProduct
  <2>1. TypeOK'
    <3>1. CASE LockProduct(w, i)
      BY <1>1, <3>1 DEF IInv, TypeOK
    <3>2. CASE DeleteProduct(w, i)
      BY <1>1, <3>2 DEF IInv, TypeOK
    <3> QED BY <1>3, <3>1, <3>2
  <2>2. ASSUME NEW v \in Workers, pc'[v] # "idle"
        PROVE  \/ /\ v = w /\ job'[v] = i /\ productLock'[i.product] = v
                  /\ pc'[v] = "deleting" \/ (pc'[v] = "locked" /\ i.kind # "delete")
                  /\ ~deleted[i.product]
               \/ /\ v # w /\ pc'[v] = pc[v] /\ job'[v] = job[v]
                  /\ job[v] \in Intents /\ productLock'[job[v].product] = v
    <3>1. CASE v = w
      BY <1>1, <1>3, <3>1 DEF IInv, TypeOK
    <3>2. CASE v # w
      <4>1. pc'[v] = pc[v] /\ job'[v] = job[v] /\ job[v] \in Intents
            /\ productLock[job[v].product] = v
        BY <1>3, <2>2, <3>2 DEF IInv, TypeOK, Held
      <4>2. job[v].product \in Products /\ productLock[i.product] = None
        BY <1>3, <4>1, IntentsAssumption DEF Intent
      <4>3. job[v].product # i.product
        BY <4>1, <4>2, NamesAssumption
      <4>4. productLock' = [productLock EXCEPT ![i.product] = w]
        BY <1>3
      <4>5. productLock \in [Products -> Workers \cup {None}]
        BY DEF IInv, TypeOK
      <4>6. productLock'[job[v].product] = v
        BY ONLY <4>1, <4>2, <4>3, <4>4, <4>5
      <4> QED BY <3>2, <4>1, <4>6
    <3> QED BY <3>1, <3>2
  <2>3. Held'
    BY <1>3, <2>2 DEF IInv, Held
  <2>4. RowFits' /\ CountedOnTop' /\ SoundLedgers'
    BY <1>3, <2>2 DEF IInv, RowFits, CountedOnTop, SoundLedgers
  <2> QED BY <2>1, <2>3, <2>4 DEF IInv
<1> QED BY <1>2, <1>3

(* The delta of an intent of known product is an integer. *)
LEMMA RowType ==
    ASSUME TypeOK, NEW i \in Intents, i.kind # "delete"
    PROVE  [id |-> i.id, kind |-> i.kind, delta |-> DeltaOf(i), counted |-> i.counted,
            at |-> i.at, reverses |-> i.reverses] \in Movement
<1>1. i \in Intent
  BY IntentsAssumption
<1>2. ledger[i.product] \in Seq(Movement)
  BY <1>1 DEF TypeOK, Intent
<1>3. LedgerBalance(ledger[i.product]).qty \in Int
  BY <1>2, BalanceType DEF Balance
<1>4. DeltaOf(i) \in Int
  BY <1>1, <1>3 DEF DeltaOf, Intent
<1> QED BY <1>1, <1>4 DEF Intent, Movement

(* The checks let only movements that fit through. *)
LEMMA InsertedFits ==
    ASSUME TypeOK, NEW i \in Intents, Rejection(i) = None, NEW m \in Movement,
           m.kind = i.kind, m.delta = DeltaOf(i), m.counted = i.counted, m.at = i.at,
           m.id = i.id, m.reverses = i.reverses
    PROVE  Fits(ledger[i.product], m)
<1>1. i \in Intent
  BY IntentsAssumption
<1>2. /\ i.reverses # None => i.product \in HomesOf(i.reverses)
      /\ i.kind = "stocktake" => ~Displaced(i)
  BY NamesAssumption DEF Rejection, Reasons
<1>3. m.kind = "stocktake" => \A n \in Stocktakes(ledger[i.product]) :
                                ComesAfter(m, ledger[i.product][n])
  BY <1>2 DEF Displaced, ComesAfter
<1>4. m.kind = "stocktake" =>
        LedgerBalance(ledger[i.product]).qty + m.delta = m.counted
  <2>1. LedgerBalance(ledger[i.product]).qty \in Int
    BY <1>1, BalanceType DEF Balance, TypeOK, Intent
  <2> QED BY <1>1, <2>1 DEF DeltaOf, Intent
<1>5. m.reverses # None =>
        \E n \in DOMAIN ledger[i.product] : ledger[i.product][n].id = m.reverses
  BY <1>2 DEF HomesOf
<1> QED BY <1>3, <1>4, <1>5 DEF Fits

LEMMA InsertKeeps == ASSUME IInv, NEW w \in Workers, InsertMovement(w) PROVE IInv'
<1> USE DEF tables, locks, toolVars
<1> DEFINE i == job[w]
           m == [id |-> i.id, kind |-> i.kind, delta |-> DeltaOf(i), counted |-> i.counted,
                 at |-> i.at, reverses |-> i.reverses]
<1>1. i \in Intents /\ i.kind # "delete" /\ pc[w] = "locked"
  BY DEF InsertMovement, IInv, Held
<1>2. CASE Rejection(i) # None
  <2>1. /\ answer' = [answer EXCEPT ![i] = Rejection(i)] /\ End(w)
        /\ UNCHANGED <<ledger, balance, deleted, toolVars>>
    BY <1>2 DEF InsertMovement
  <2>2. Rejection(i) \in Reasons \cup {None}
    BY DEF Rejection, Reasons
  <2>3. TypeOK'
    BY <1>1, <2>1, <2>2, EndKeeps DEF IInv, TypeOK
  <2>4. Held' /\ RowFits' /\ CountedOnTop'
    BY <1>1, <2>1, EndKeeps DEF IInv, Held, RowFits, CountedOnTop
  <2>5. SoundLedgers'
    BY <2>1 DEF IInv, SoundLedgers
  <2> QED BY <2>3, <2>4, <2>5 DEF IInv
<1>3. CASE Rejection(i) = None
  <2>1. /\ row' = [row EXCEPT ![w] = m] /\ pc' = [pc EXCEPT ![w] = "inserted"]
        /\ UNCHANGED <<tables, locks, job, projected, toolVars>>
    BY <1>3 DEF InsertMovement
  <2>2. m \in Movement
    BY <1>1, RowType DEF IInv
  <2>3. Fits(ledger[i.product], m)
    BY <1>1, <1>3, <2>2, InsertedFits DEF IInv
  <2> HIDE DEF m
  <2>4. TypeOK'
    BY <2>1, <2>2 DEF IInv, TypeOK
  <2>5. pc'[w] = "inserted" /\ row'[w] = m /\ \A v \in Workers \ {w} : pc'[v] = pc[v] /\ row'[v] = row[v]
    BY <2>1 DEF IInv, TypeOK
  <2>6. Held' /\ CountedOnTop' /\ SoundLedgers'
    BY <1>1, <2>1, <2>5 DEF IInv, Held, CountedOnTop, SoundLedgers
  <2>7. RowFits'
    BY <2>1, <2>2, <2>3, <2>5 DEF IInv, RowFits
  <2> QED BY <2>4, <2>6, <2>7 DEF IInv
<1> QED BY <1>2, <1>3

LEMMA IncrementKeeps == ASSUME IInv, NEW w \in Workers, IncrementBalance(w) PROVE IInv'
<1> USE DEF IncrementBalance, tables, toolVars
<1> DEFINE p == job[w].product
           b == Increment(balance[p], row[w])
<1>1. job[w] \in Intents /\ p \in Products /\ productLock[p] = w /\ row[w] \in Movement
  BY IntentsAssumption DEF IInv, Held, RowFits, Intent
<1>2. b \in Balance
  BY <1>1, IncrementType DEF IInv, TypeOK
<1>3. projected' = [projected EXCEPT ![w] = b]
  OBVIOUS
<1> HIDE DEF b
<1>4. TypeOK'
  <2>1. projected' \in [Workers -> Balance \cup {None}]
    BY <1>2, <1>3 DEF IInv, TypeOK
  <2>2. balanceLock' \in [Products -> Workers \cup {"tool", None}]
    BY <1>1 DEF IInv, TypeOK
  <2> QED BY <2>1, <2>2 DEF IInv, TypeOK
<1>5. pc'[w] = "counted" /\ projected'[w] = b
      /\ \A v \in Workers \ {w} : pc'[v] = pc[v] /\ projected'[v] = projected[v]
  BY <1>3 DEF IInv, TypeOK
<1>6. balanceLock'[p] = w
  BY <1>1 DEF IInv, TypeOK
<1>7. ASSUME NEW v \in Workers \ {w}, pc[v] = "counted"
      PROVE  balanceLock'[job[v].product] = v
  <2>1. balanceLock[job[v].product] = v
    BY <1>7 DEF IInv, CountedOnTop
  <2>2. job[v].product # p
    BY <2>1, NamesAssumption
  <2> QED BY <2>1, <2>2
<1>8. Held' /\ RowFits' /\ SoundLedgers'
  BY <1>5 DEF IInv, Held, RowFits, SoundLedgers
<1>9. CountedOnTop'
  BY <1>5, <1>6, <1>7 DEF IInv, CountedOnTop, b
<1> QED BY <1>4, <1>8, <1>9 DEF IInv

LEMMA CommitKeeps == ASSUME IInv, NEW w \in Workers, CommitMovement(w) PROVE IInv'
<1> USE DEF toolVars
<1> DEFINE i == job[w]
           p == i.product
<1>1. /\ i \in Intents /\ p \in Products /\ pc[w] = "counted"
      /\ row[w] \in Movement /\ Fits(ledger[p], row[w])
      /\ projected[w] = Increment(balance[p], row[w])
  BY IntentsAssumption DEF CommitMovement, IInv, Held, RowFits, CountedOnTop, Intent
<1>2. projected[w] \in Balance
  <2>1. balance[p] \in Balance
    BY <1>1 DEF IInv, TypeOK
  <2> QED BY <1>1, <2>1, IncrementType
<1>3. /\ ledger' = [ledger EXCEPT ![p] = Append(ledger[p], row[w])]
      /\ balance' = [balance EXCEPT ![p] = projected[w]]
      /\ answer' = [answer EXCEPT ![i] = "applied"]
      /\ End(w) /\ UNCHANGED <<deleted, toolVars>>
  BY DEF CommitMovement
<1>4. Append(ledger[p], row[w]) \in Seq(Movement)
  BY <1>1, AppendProperties DEF IInv, TypeOK
<1>5. TypeOK'
  BY <1>1, <1>2, <1>3, <1>4, EndKeeps DEF IInv, TypeOK
<1>6. \A q \in Products \ {p} : ledger'[q] = ledger[q] /\ balance'[q] = balance[q]
  BY <1>3 DEF IInv, TypeOK
<1>7. Held' /\ RowFits' /\ CountedOnTop'
  BY <1>1, <1>3, <1>6, EndKeeps DEF IInv, Held, RowFits, CountedOnTop
<1>8. Sound(Append(ledger[p], row[w]))
  BY <1>1, AppendIsSound DEF IInv, TypeOK, SoundLedgers
<1>9. SoundLedgers'
  BY <1>1, <1>3, <1>6, <1>8 DEF IInv, SoundLedgers, TypeOK
<1> QED BY <1>5, <1>7, <1>9 DEF IInv

LEMMA DeleteKeeps == ASSUME IInv, NEW w \in Workers, CommitDelete(w) PROVE IInv'
<1> USE DEF CommitDelete, toolVars
<1>1. job[w] \in Intents /\ job[w].product \in Products /\ pc[w] = "deleting"
  BY IntentsAssumption DEF IInv, Held, Intent
<1>2. TypeOK'
  BY <1>1, EndKeeps DEF IInv, TypeOK
<1>3. \A q \in Products \ {job[w].product} : deleted'[q] = deleted[q]
  BY DEF IInv, TypeOK
<1>4. Held' /\ RowFits' /\ CountedOnTop'
  BY <1>1, <1>3, EndKeeps DEF IInv, Held, RowFits, CountedOnTop
<1>5. SoundLedgers'
  BY DEF IInv, SoundLedgers
<1> QED BY <1>2, <1>4, <1>5 DEF IInv

(* The tool writes balances only while it has all of their rows, so that  *)
(* no transaction is about to commit one.                                  *)
ToolStep ==
    \/ VerifyReadLedger \/ VerifyReadBalances \/ RebuildStart \/ RebuildCommit
    \/ \E p \in Products : RebuildRow(p)

LEMMA ToolKeeps == ASSUME IInv, ToolStep PROVE IInv'
<1> USE DEF tables, locks, txn, toolVars
<1>1. CASE VerifyReadLedger \/ VerifyReadBalances \/ RebuildStart
  <2> USE DEF VerifyReadLedger, VerifyReadBalances, RebuildStart
  <2>1. TypeOK'
    <3>1. LedgerBalances \in [Products -> Balance]
      BY LedgerBalancesType DEF IInv
    <3> QED BY <1>1, <3>1 DEF IInv, TypeOK
  <2>2. Held' /\ RowFits' /\ CountedOnTop' /\ SoundLedgers'
    BY <1>1 DEF IInv, Held, RowFits, CountedOnTop, SoundLedgers
  <2> QED BY <2>1, <2>2 DEF IInv
<1>2. CASE \E p \in Products : RebuildRow(p)
  <2>1. PICK p \in Products : RebuildRow(p)
    BY <1>2
  <2> USE DEF RebuildRow
  <2>2. TypeOK'
    BY <2>1 DEF IInv, TypeOK
  <2>3. \A v \in Workers : pc[v] = "counted" => balanceLock'[job[v].product] = v
    BY <2>1, NamesAssumption DEF IInv, TypeOK, CountedOnTop
  <2>4. Held' /\ RowFits' /\ CountedOnTop' /\ SoundLedgers'
    BY <2>1, <2>3 DEF IInv, Held, RowFits, CountedOnTop, SoundLedgers
  <2> QED BY <2>2, <2>4 DEF IInv
<1>3. CASE RebuildCommit
  <2> USE DEF RebuildCommit
  <2>1. TypeOK'
    BY <1>3 DEF IInv, TypeOK
  <2>2. \A v \in Workers : pc[v] # "counted"
    BY <1>3, NamesAssumption, IntentsAssumption DEF IInv, Held, CountedOnTop, Intent
  <2>3. Held' /\ RowFits' /\ CountedOnTop' /\ SoundLedgers'
    BY <1>3, <2>2 DEF IInv, Held, RowFits, CountedOnTop, SoundLedgers
  <2> QED BY <2>1, <2>3 DEF IInv
<1> QED BY <1>1, <1>2, <1>3 DEF ToolStep

LEMMA NextIInv == IInv /\ [Next]_vars => IInv'
<1> SUFFICES ASSUME IInv, [Next]_vars PROVE IInv'
  OBVIOUS
<1>1. ASSUME UNCHANGED vars PROVE IInv'
  <2>1. TypeOK'
    BY <1>1 DEF vars, tables, locks, txn, toolVars, IInv, TypeOK
  <2>2. Held'
    BY <1>1 DEF vars, tables, locks, txn, IInv, Held
  <2>3. RowFits'
    BY <1>1 DEF vars, tables, txn, IInv, RowFits
  <2>4. CountedOnTop'
    BY <1>1 DEF vars, tables, locks, txn, IInv, CountedOnTop
  <2>5. SoundLedgers'
    BY <1>1 DEF vars, tables, IInv, SoundLedgers
  <2> QED BY <2>1, <2>2, <2>3, <2>4, <2>5 DEF IInv
<1> QED
  BY <1>1, BeginKeeps, InsertKeeps, IncrementKeeps, CommitKeeps, DeleteKeeps, RollbackKeeps,
     ToolKeeps DEF Next, ToolStep
-----------------------------------------------------------------------------
(* What steps do to ledgers and balances. *)

(* One that commits no movement leaves the ledger alone, and one that is   *)
(* no rebuild either the balances.                                         *)
LEMMA LedgerStep ==
    ASSUME IInv, [Next]_vars
    PROVE  \/ \E w \in Workers : CommitMovement(w)
           \/ /\ ledger' = ledger /\ balance' = balance
              /\ deleted' = deleted \/ \E w \in Workers : CommitDelete(w)
           \/ RebuildCommit
BY DEF Next, vars, tables, locks, txn, toolVars, RejectDeleted, LockProduct, DeleteProduct,
       InsertMovement, IncrementBalance, CommitDelete, Rollback,
       VerifyReadLedger, VerifyReadBalances, RebuildStart, RebuildRow

(* What the commit of a movement does. *)
LEMMA CommitStep ==
    ASSUME IInv, NEW w \in Workers, CommitMovement(w)
    PROVE  \E p \in Products :
             /\ row[w] \in Movement /\ ~deleted[p] /\ deleted' = deleted
             /\ ledger'[p] = Append(ledger[p], row[w])
             /\ balance'[p] = Increment(balance[p], row[w])
             /\ \A q \in Products \ {p} : ledger'[q] = ledger[q] /\ balance'[q] = balance[q]
<1>1. /\ job[w] \in Intents /\ job[w].product \in Products /\ ~deleted[job[w].product]
      /\ row[w] \in Movement /\ projected[w] = Increment(balance[job[w].product], row[w])
  BY IntentsAssumption DEF CommitMovement, IInv, Held, RowFits, CountedOnTop, Intent
<1> QED BY <1>1 DEF CommitMovement, IInv, TypeOK

(* A balance moves with its ledger. *)
BalanceMoves(p) ==
    LET before == LedgerBalance(ledger[p])
        after == LedgerBalance(ledger'[p])
    IN  /\ balance'[p].qty - after.qty = balance[p].qty - before.qty
        /\ balance[p].last = before.last => balance'[p].last = after.last

LEMMA FollowStep ==
    ASSUME IInv, [Next]_vars
    PROVE  (tool = "rebuild" /\ tool' = "rebuilt") \/ \A p \in Products : BalanceMoves(p)
<1>1. ASSUME NEW p \in Products
      PROVE  /\ balance[p].qty \in Int /\ balance[p].last \in Nat
             /\ ledger[p] \in Seq(Movement)
             /\ LedgerBalance(ledger[p]).qty \in Int /\ LedgerBalance(ledger[p]).last \in Nat
  BY BalanceType DEF IInv, TypeOK, Balance
<1>2. ASSUME NEW p \in Products, ledger'[p] = ledger[p], balance'[p] = balance[p]
      PROVE  BalanceMoves(p)
  BY <1>1, <1>2 DEF BalanceMoves
<1>3. ASSUME NEW p \in Products, NEW m \in Movement,
             ledger'[p] = Append(ledger[p], m), balance'[p] = Increment(balance[p], m)
      PROVE  BalanceMoves(p)
  <2>1. LedgerBalance(ledger'[p]) = Increment(LedgerBalance(ledger[p]), m)
    BY <1>1, <1>3, BalanceOfAppend
  <2>2. m.delta \in Int /\ m.at \in Nat
    BY DEF Movement
  <2> QED BY <1>1, <1>3, <2>1, <2>2 DEF BalanceMoves, Increment
<1>4. CASE \E w \in Workers : CommitMovement(w)
  BY <1>2, <1>3, <1>4, CommitStep
<1>5. CASE ledger' = ledger /\ balance' = balance
  BY <1>2, <1>5
<1>6. CASE RebuildCommit
  BY <1>6 DEF RebuildCommit
<1> QED BY <1>4, <1>5, <1>6, LedgerStep

LEMMA AppendStep ==
    ASSUME IInv, [Next]_vars, NEW p \in Products
    PROVE  /\ \/ ledger'[p] = ledger[p]
              \/ /\ ~deleted[p]
                 /\ \E n \in DOMAIN ledger'[p] : ledger'[p] = Append(ledger[p], ledger'[p][n])
           /\ deleted[p] => deleted'[p]
<1>1. CASE \E w \in Workers : CommitMovement(w)
  <2>1. PICK w \in Workers, q \in Products :
             /\ row[w] \in Movement /\ ~deleted[q] /\ deleted' = deleted
             /\ ledger'[q] = Append(ledger[q], row[w])
             /\ \A r \in Products \ {q} : ledger'[r] = ledger[r]
    BY <1>1, CommitStep
  <2>2. CASE p # q
    BY <2>1, <2>2
  <2>3. CASE p = q
    <3>1. ledger[p] \in Seq(Movement)
      BY DEF IInv, TypeOK
    <3>2. /\ Len(ledger[p]) + 1 \in DOMAIN ledger'[p]
          /\ ledger'[p][Len(ledger[p]) + 1] = row[w]
      BY <2>1, <2>3, <3>1
    <3> QED BY <2>1, <2>3, <3>2
  <2> QED BY <2>2, <2>3
<1>2. CASE /\ ledger' = ledger
           /\ deleted' = deleted \/ \E w \in Workers : CommitDelete(w)
  BY <1>2 DEF CommitDelete, IInv, TypeOK
<1>3. CASE RebuildCommit
  BY <1>3 DEF RebuildCommit
<1> QED BY <1>1, <1>2, <1>3, LedgerStep
-----------------------------------------------------------------------------
(* Every reachable state of the ledger, its transactions and the tool is   *)
(* well typed; deltas and balances are integers.                           *)
THEOREM TypeCorrect == Spec => []TypeOK
<1>1. IInv => TypeOK
  BY DEF IInv
<1> QED BY <1>1, InitIInv, NextIInv, PTL DEF Spec

(* The quantity after a stocktake is the one that was counted. *)
THEOREM CountsAreKept == Spec => []CountHolds
<1>1. IInv => CountHolds
  BY DEF IInv, SoundLedgers, Sound, CountHolds
<1> QED BY <1>1, InitIInv, NextIInv, PTL DEF Spec

(* Stocktakes are accepted in the order of their keys. *)
THEOREM StocktakesInOrder == Spec => []StocktakesAdvance
<1>1. IInv => StocktakesAdvance
  BY DEF IInv, SoundLedgers, Sound, StocktakesAdvance
<1> QED BY <1>1, InitIInv, NextIInv, PTL DEF Spec

(* A reversal follows what it corrects, in the same ledger. *)
THEOREM ReversalsInOrder == Spec => []ReversalsFollow
<1>1. IInv => ReversalsFollow
  BY DEF IInv, SoundLedgers, Sound, ReversalsFollow
<1> QED BY <1>1, InitIInv, NextIInv, PTL DEF Spec

(* Only a rebuild moves a balance away from its ledger. *)
THEOREM BalancesFollow == Spec => BalanceFollowsLedger
<1>1. IInv /\ [Next]_vars =>
        [\/ tool = "rebuild" /\ tool' = "rebuilt"
         \/ \A p \in Products :
              LET before == LedgerBalance(ledger[p])
                  after == LedgerBalance(ledger'[p])
              IN  /\ balance'[p].qty - after.qty = balance[p].qty - before.qty
                  /\ balance[p].last = before.last => balance'[p].last = after.last]_vars
  BY FollowStep DEF BalanceMoves
<1> QED BY <1>1, InitIInv, NextIInv, PTL DEF Spec, BalanceFollowsLedger

(* Ledgers only grow, and a deleted product's does not. *)
THEOREM OnlyAppended == Spec => LedgerAppendOnly
<1>1. IInv /\ [Next]_vars =>
        [\A p \in Products :
            /\ \/ ledger'[p] = ledger[p]
               \/ /\ ~deleted[p]
                  /\ \E n \in DOMAIN ledger'[p] : ledger'[p] = Append(ledger[p], ledger'[p][n])
            /\ deleted[p] => deleted'[p]]_vars
  BY AppendStep
<1> QED BY <1>1, InitIInv, NextIInv, PTL DEF Spec, LedgerAppendOnly
=============================================================================
