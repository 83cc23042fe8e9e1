------------------------- MODULE ReplicaStoreProofs -------------------------
(***************************************************************************)
(* Lemmas about ReplicaStore, for any products, fields and values: sums    *)
(* and folds first, then, transaction by transaction, that a database      *)
(* which keeps to its operations and the feed (Good) still does when a     *)
(* transaction has committed, and that nothing the user did or the feed    *)
(* brought is lost by it (Follows).                                        *)
(***************************************************************************)
EXTENDS ReplicaStore, FiniteSetTheorems, SequenceTheorems, WellFoundedInduction, TLAPS

(* A nonempty set of naturals has a least one. *)
LEMMA LeastOfNats ==
    ASSUME NEW S \in SUBSET Nat, S # {}
    PROVE  \E n \in S : \A k \in S : n <= k
<1>1. PICK n \in S : \A k \in S : <<k, n>> \notin OpToRel(<, Nat)
  BY NatLessThanWellFounded, WFMin
<1>2. \A k \in S : ~(k < n)
  BY <1>1 DEF OpToRel
<1> QED BY <1>2
-----------------------------------------------------------------------------
(* Folds.  A fold over a finite set is a function on its subsets: what it   *)
(* makes of a set is what `step` makes of the picked element and of what it *)
(* makes of the others.                                                    *)

FoldsBy(F, S, base, pick, step) ==
    F = [s \in SUBSET S |-> IF s = {} THEN base ELSE step[<<pick[s], F[s \ {pick[s]}]>>]]

(* A fold over a finite set exists, whatever value each step makes. *)
LEMMA FoldExists ==
    ASSUME NEW S, IsFiniteSet(S), NEW V, NEW base \in V, NEW pick,
           \A s \in SUBSET S : s # {} => pick[s] \in s,
           NEW step \in [S \X V -> V]
    PROVE  \E F \in [SUBSET S -> V] : FoldsBy(F, S, base, pick, step)
<1> DEFINE Next(F, s) == IF s = {} THEN base ELSE step[<<pick[s], F[s \ {pick[s]}]>>]
           UpTo(F, n) == \A s \in SUBSET S : Cardinality(s) <= n => F[s] = Next(F, s)
           Without == {n \in Nat : ~ \E F \in [SUBSET S -> V] : UpTo(F, n)}
<1>1. ASSUME NEW s \in SUBSET S
      PROVE  /\ IsFiniteSet(s) /\ Cardinality(s) \in Nat /\ (Cardinality(s) = 0 <=> s = {})
             /\ Cardinality(s) <= Cardinality(S)
  BY FS_Subset, FS_EmptySet, FS_CardinalityType
<1>2. ASSUME NEW s \in SUBSET S, s # {}
      PROVE  s \ {pick[s]} \in SUBSET S /\ Cardinality(s \ {pick[s]}) = Cardinality(s) - 1
  BY <1>1, <1>2, FS_RemoveElement
<1>3. Without = {}
  <2>1. SUFFICES ASSUME Without # {} PROVE FALSE
    OBVIOUS
  <2>2. PICK n \in Without : \A k \in Without : n <= k
    <3>1. Without \in SUBSET Nat
      OBVIOUS
    <3> HIDE DEF Without
    <3> QED BY <2>1, <3>1, LeastOfNats
  <2>3. n # 0
    <3> DEFINE F == [s \in SUBSET S |-> base]
    <3>1. F \in [SUBSET S -> V] /\ UpTo(F, 0)
      BY <1>1
    <3>2. 0 \notin Without
      <4> HIDE DEF F, UpTo
      <4> QED BY <3>1
    <3> HIDE DEF Without
    <3> QED BY <2>2, <3>2
  <2>4. n - 1 \in Nat /\ n - 1 \notin Without
    <3>1. n \in Nat
      BY <2>2
    <3> HIDE DEF Without
    <3> QED BY <2>2, <2>3, <3>1
  <2>5. PICK F \in [SUBSET S -> V] : UpTo(F, n - 1)
    BY <2>4
  <2> DEFINE G == [s \in SUBSET S |-> Next(F, s)]
  <2>6. G \in [SUBSET S -> V]
    BY <1>2
  <2>7. UpTo(G, n)
    <3>1. SUFFICES ASSUME NEW s \in SUBSET S, Cardinality(s) <= n, s # {}
                   PROVE  G[s] = Next(G, s)
      OBVIOUS
    <3> DEFINE t == s \ {pick[s]}
    <3>2. t \in SUBSET S /\ Cardinality(t) <= n - 1
      BY <1>1, <1>2, <3>1, <2>4
    <3>3. F[t] = Next(F, t)
      BY <2>5, <3>2
    <3>4. G[t] = F[t]
      BY <3>2, <3>3
    <3> QED BY <3>1, <3>4
  <2> QED BY <2>2, <2>6, <2>7
<1>4. Cardinality(S) \in Nat
  BY FS_CardinalityType
<1>5. PICK F \in [SUBSET S -> V] : UpTo(F, Cardinality(S))
  BY <1>3, <1>4
<1>6. \A s \in SUBSET S : F[s] = Next(F, s)
  BY <1>1, <1>5
<1>7. F = [s \in SUBSET S |-> Next(F, s)]
  BY <1>6
<1> QED BY <1>7 DEF FoldsBy

(* Functions that agree on the empty set, and on a set when they agree on   *)
(* it without a picked element, agree.                                     *)
Parallel(F, G, U, pick) ==
    /\ F[{}] = G[{}]
    /\ \A s \in SUBSET U : s # {} =>
            pick[s] \in s /\ (F[s \ {pick[s]}] = G[s \ {pick[s]}] => F[s] = G[s])

(* It is the only one: two such functions are the same. *)
LEMMA FoldsAgree ==
    ASSUME NEW U, IsFiniteSet(U), NEW F, NEW G, NEW pick, Parallel(F, G, U, pick)
    PROVE  F[U] = G[U]
<1> USE DEF Parallel
<1> DEFINE Apart == {n \in Nat : \E s \in SUBSET U : Cardinality(s) = n /\ F[s] # G[s]}
<1>1. \A s \in SUBSET U : IsFiniteSet(s) /\ Cardinality(s) \in Nat
  BY FS_Subset, FS_CardinalityType
<1>2. Apart = {}
  <2>1. SUFFICES ASSUME Apart # {} PROVE FALSE
    OBVIOUS
  <2>2. PICK n \in Apart : \A k \in Apart : n <= k
    <3>1. Apart \in SUBSET Nat
      OBVIOUS
    <3> HIDE DEF Apart
    <3> QED BY <2>1, <3>1, LeastOfNats
  <2>3. PICK s \in SUBSET U : Cardinality(s) = n /\ F[s] # G[s]
    BY <2>2
  <2>4. s # {}
    BY <2>3
  <2> DEFINE t == s \ {pick[s]}
  <2>5. Cardinality(t) = n - 1 /\ t \in SUBSET U
    BY <1>1, <2>3, <2>4, FS_RemoveElement
  <2>6. F[t] = G[t]
    <3>1. n - 1 \notin Apart
      BY <2>2
    <3>2. n - 1 \in Nat
      BY <1>1, <2>5
    <3> QED BY <2>5, <3>1, <3>2
  <2> QED BY <2>3, <2>4, <2>6
<1>3. U \in SUBSET U /\ Cardinality(U) \in Nat
  BY <1>1
<1> QED BY <1>2, <1>3
-----------------------------------------------------------------------------
(* The sum of the deltas of a finite set of movements. *)

Summable(S) == IsFiniteSet(S) /\ \A m \in S : m.delta \in Int
Pick(s) == CHOOSE m \in s : TRUE
Sums(F, S) == F = [s \in SUBSET S |-> IF s = {} THEN 0 ELSE Pick(s).delta + F[s \ {Pick(s)}]]

(* The sum over a finite set of movements exists. *)
LEMMA SumExists ==
    ASSUME NEW S, Summable(S)
    PROVE  \E F \in [SUBSET S -> Int] : Sums(F, S)
<1> DEFINE pick == [s \in SUBSET S |-> Pick(s)]
           step == [x \in S \X Int |-> x[1].delta + x[2]]
<1>1. \A s \in SUBSET S : s # {} => pick[s] \in s
  BY DEF Pick
<1>2. step \in [S \X Int -> Int]
  BY DEF Summable
<1>3. PICK F \in [SUBSET S -> Int] : FoldsBy(F, S, 0, pick, step)
  <2> HIDE DEF pick, step
  <2>1. IsFiniteSet(S) /\ 0 \in Int
    BY DEF Summable
  <2> QED BY <1>1, <1>2, <2>1, FoldExists
<1>4. ASSUME NEW s \in SUBSET S
      PROVE  F[s] = IF s = {} THEN 0 ELSE Pick(s).delta + F[s \ {Pick(s)}]
  <2>1. s # {} => Pick(s) \in S /\ F[s \ {Pick(s)}] \in Int
    BY <1>1
  <2>2. s # {} => step[<<Pick(s), F[s \ {Pick(s)}]>>] = Pick(s).delta + F[s \ {Pick(s)}]
    BY <2>1
  <2> QED BY <1>3, <2>2 DEF FoldsBy
<1>5. F = [s \in SUBSET S |-> F[s]]
  OBVIOUS
<1>6. Sums(F, S)
  BY <1>4, <1>5 DEF Sums
<1> QED BY <1>6

(* Total is that sum. *)
LEMMA TotalIsSum ==
    ASSUME NEW S, Summable(S)
    PROVE  \E F \in [SUBSET S -> Int] : Sums(F, S) /\ Total(S) = F[S]
<1> DEFINE G == CHOOSE F : Sums(F, S)
<1>1. PICK F \in [SUBSET S -> Int] : Sums(F, S)
  BY SumExists
<1>2. Sums(G, S)
  BY <1>1
<1>3. Total(S) = G[S]
  BY DEF Total, MapThenSumSet, MapThenFoldSet, Sums, Pick
<1> HIDE DEF G
<1> DEFINE pick == [s \in SUBSET S |-> Pick(s)]
<1>4. \A s \in SUBSET S : s # {} =>
        pick[s] \in s /\ (F[s \ {pick[s]}] = G[s \ {pick[s]}] => F[s] = G[s])
  BY <1>1, <1>2 DEF Sums, Pick
<1>5. Parallel(F, G, S, pick)
  BY <1>1, <1>2, <1>4 DEF Sums, Parallel
<1>6. F[S] = G[S]
  <2> HIDE DEF pick
  <2>1. IsFiniteSet(S)
    BY DEF Summable
  <2> QED BY <1>5, <2>1, FoldsAgree
<1> QED BY <1>1, <1>3, <1>6

(* The total of a set is the picked delta and the total of the rest. *)
LEMMA TotalUnfolds ==
    ASSUME NEW S, Summable(S)
    PROVE  /\ Total(S) \in Int
           /\ S = {} => Total(S) = 0
           /\ S # {} => Pick(S) \in S /\ Total(S) = Pick(S).delta + Total(S \ {Pick(S)})
<1>1. PICK F \in [SUBSET S -> Int] : Sums(F, S) /\ Total(S) = F[S]
  BY TotalIsSum
<1>2. ASSUME S # {}
      PROVE  Pick(S) \in S /\ Total(S) = Pick(S).delta + Total(S \ {Pick(S)})
  <2> DEFINE U == S \ {Pick(S)}
  <2>1. Pick(S) \in S
    BY <1>2 DEF Pick
  <2>2. Summable(U)
    BY FS_Subset DEF Summable
  <2>3. PICK G \in [SUBSET U -> Int] : Sums(G, U) /\ Total(U) = G[U]
    BY <2>2, TotalIsSum
  <2> DEFINE pick == [s \in SUBSET U |-> Pick(s)]
  <2>4. \A s \in SUBSET U : s # {} =>
          pick[s] \in s /\ (F[s \ {pick[s]}] = G[s \ {pick[s]}] => F[s] = G[s])
    BY <1>1, <2>3 DEF Sums, Pick
  <2>5. Parallel(F, G, U, pick)
    BY <1>1, <2>3, <2>4 DEF Sums, Parallel
  <2>6. F[U] = G[U]
    <3> HIDE DEF pick, U
    <3>1. IsFiniteSet(U)
      BY <2>2 DEF Summable
    <3> QED BY <2>5, <3>1, FoldsAgree
  <2>7. F[S] = Pick(S).delta + F[U]
    BY <1>1, <1>2 DEF Sums
  <2> QED BY <1>1, <2>1, <2>3, <2>6, <2>7
<1> QED BY <1>1, <1>2 DEF Sums

(* One more movement adds its delta, whichever is picked first. *)
LEMMA TotalAddsWithin ==
    ASSUME NEW M, Summable(M), NEW S \in SUBSET M, NEW m \in M \ S
    PROVE  Total(S \cup {m}) = Total(S) + m.delta
<1> DEFINE Adds(T, e) == Total(T \cup {e}) = Total(T) + e.delta
           Wrong == {n \in Nat : \E T \in SUBSET M, e \in M :
                        e \notin T /\ Cardinality(T) = n /\ ~Adds(T, e)}
<1>1. \A T \in SUBSET M : Summable(T) /\ IsFiniteSet(T) /\ Cardinality(T) \in Nat
                          /\ Total(T) \in Int
  BY FS_Subset, FS_CardinalityType, TotalUnfolds DEF Summable
<1>2. Wrong = {}
  <2>1. SUFFICES ASSUME Wrong # {} PROVE FALSE
    OBVIOUS
  <2>2. PICK n \in Wrong : \A k \in Wrong : n <= k
    <3>1. Wrong \in SUBSET Nat
      OBVIOUS
    <3> HIDE DEF Wrong
    <3> QED BY <2>1, <3>1, LeastOfNats
  <2>3. PICK T \in SUBSET M, e \in M : e \notin T /\ Cardinality(T) = n /\ ~Adds(T, e)
    <3> HIDE DEF Adds
    <3> QED BY <2>2
  <2> DEFINE x == Pick(T \cup {e})
  <2>4. x \in T \cup {e} /\ Total(T \cup {e}) = x.delta + Total((T \cup {e}) \ {x})
    <3>1. T \cup {e} \in SUBSET M /\ T \cup {e} # {}
      OBVIOUS
    <3> QED BY <1>1, <3>1, TotalUnfolds
  <2> HIDE DEF x
  <2>5. x \in M /\ x.delta \in Int /\ e.delta \in Int
    BY <2>4 DEF Summable
  <2>6. x # e
    <3>1. SUFFICES ASSUME x = e PROVE FALSE
      OBVIOUS
    <3>2. (T \cup {e}) \ {x} = T
      BY <2>3, <3>1
    <3>3. Total(T) \in Int
      BY <1>1
    <3>4. Total(T \cup {e}) = e.delta + Total(T)
      BY <2>4, <3>1, <3>2
    <3>5. Adds(T, e)
      BY <2>5, <3>3, <3>4
    <3> QED BY <2>3, <3>5
  <2> DEFINE U == T \ {x}
  <2>7. /\ x \in T /\ (T \cup {e}) \ {x} = U \cup {e} /\ U \cup {x} = T
        /\ U \in SUBSET M /\ e \notin U /\ x \in M /\ x \notin U
    BY <2>3, <2>4, <2>6
  <2> HIDE DEF U
  <2>8. Cardinality(U) = n - 1 /\ n - 1 \in Nat
    <3>1. Cardinality(U) = Cardinality(T) - 1 /\ Cardinality(U) \in Nat
      BY <1>1, <2>7, FS_RemoveElement DEF U
    <3> QED BY <2>3, <3>1
  <2>9. n - 1 \notin Wrong
    <3>1. n \in Nat
      BY <2>2
    <3> HIDE DEF Wrong
    <3> QED BY <2>2, <3>1
  <2>10. Adds(U, e) /\ Adds(U, x)
    <3> HIDE DEF Adds
    <3> QED BY <2>7, <2>8, <2>9
  <2>11. Total(U) \in Int
    BY <1>1, <2>7
  <2>12. Total(T \cup {e}) = x.delta + Total(U \cup {e})
    BY <2>4, <2>7
  <2>13. Total(T) = Total(U) + x.delta
    BY <2>7, <2>10
  <2>14. Adds(T, e)
    BY <2>5, <2>10, <2>11, <2>12, <2>13
  <2> QED BY <2>3, <2>14
<1>3. Cardinality(S) \in Nat
  BY <1>1
<1>4. Adds(S, m)
  <2> HIDE DEF Adds
  <2> QED BY <1>2, <1>3
<1> QED BY <1>4

(* A movement more adds its delta to the total. *)
LEMMA TotalAdds ==
    ASSUME NEW S, Summable(S), NEW m, m \notin S, m.delta \in Int
    PROVE  Total(S \cup {m}) = Total(S) + m.delta
<1>1. Summable(S \cup {m})
  BY FS_AddElement DEF Summable
<1> QED BY <1>1, TotalAddsWithin

(* A total is an integer. *)
LEMMA TotalType ==
    ASSUME NEW S, Summable(S)
    PROVE  Total(S) \in Int
BY TotalUnfolds

(* No movements sum up to nothing. *)
LEMMA TotalEmpty == Total({}) = 0
<1>1. Summable({})
  BY FS_EmptySet DEF Summable
<1> QED BY <1>1, TotalUnfolds
-----------------------------------------------------------------------------
(* Folds over the positions of a list, the last one applied last. *)

(* The greatest of some positions is one of them. *)
LEMMA MaxIsOne ==
    ASSUME NEW N \in Nat, NEW s \in SUBSET (1..N), s # {}
    PROVE  Max(s) \in s /\ \A k \in s : Max(s) >= k
<1> DEFINE Below == {k \in Nat : \E n \in s : k = N - n}
<1>1. PICK k \in Below : \A j \in Below : k <= j
  <2>1. Below \in SUBSET Nat
    OBVIOUS
  <2>2. Below # {}
    <3>1. PICK n \in s : TRUE
      OBVIOUS
    <3>2. N - n \in Nat
      OBVIOUS
    <3> QED BY <3>2
  <2> HIDE DEF Below
  <2> QED BY <2>1, <2>2, LeastOfNats
<1>2. PICK n \in s : k = N - n
  BY <1>1
<1>3. ASSUME NEW j \in s PROVE n >= j
  <2>1. N - j \in Below
    <3>1. j \in 1..N
      OBVIOUS
    <3>2. N - j \in Nat
      BY ONLY <3>1, N \in Nat
    <3> QED BY <3>2
  <2>2. k <= N - j
    BY <1>1, <2>1
  <2> QED BY <1>2, <2>2
<1> QED BY <1>3 DEF Max

(* The greatest of the first n positions is n. *)
LEMMA MaxOfInterval == \A n \in Nat : n > 0 => Max(1..n) = n
<1> TAKE n \in Nat
<1>1. n > 0 => (1..n) \in SUBSET (1..n) /\ 1..n # {} /\ n \in 1..n
  OBVIOUS
<1>2. n > 0 => Max(1..n) \in 1..n /\ Max(1..n) >= n
  BY <1>1, MaxIsOne
<1> QED BY <1>2

(* F is what N steps make of base. *)
Stages(F, N) == [n \in 0..N |-> F[1..n]]
Iterates(F, N, base, step) ==
    /\ F[{}] = base
    /\ \A s \in SUBSET (1..N) : s # {} => Max(s) \in s /\ F[s] = step[<<Max(s), F[s \ {Max(s)}]>>]
    /\ Stages(F, N)[0] = base
    /\ \A n \in 1..N : Stages(F, N)[n] = step[<<n, Stages(F, N)[n - 1]>>]

(* Steps over the first N positions that stay within V can be run. *)
LEMMA IterationExists ==
    ASSUME NEW N \in Nat, NEW V, NEW base \in V, NEW step \in [(1..N) \X V -> V]
    PROVE  \E F \in [SUBSET (1..N) -> V] : Iterates(F, N, base, step)
<1> DEFINE last == [s \in SUBSET (1..N) |-> Max(s)]
           S == 1..N
<1>1. \A s \in SUBSET S : s # {} => last[s] \in s
  BY MaxIsOne
<1>2. IsFiniteSet(S)
  BY FS_Interval
<1>3. PICK F \in [SUBSET S -> V] : FoldsBy(F, S, base, last, step)
  <2> HIDE DEF last, S
  <2>1. \A s \in SUBSET S : s # {} => last[s] \in s
    BY <1>1
  <2>2. step \in [S \X V -> V]
    BY DEF S
  <2> QED BY <1>2, <2>1, <2>2, FoldExists
<1>4. ASSUME NEW s \in SUBSET S, s # {}
      PROVE  Max(s) \in s /\ F[s] = step[<<Max(s), F[s \ {Max(s)}]>>]
  BY <1>1, <1>3, <1>4 DEF FoldsBy
<1>5. F[{}] = base
  BY <1>3 DEF FoldsBy
<1> DEFINE R == [n \in 0..N |-> F[1..n]]
<1>6. R[0] = base
  <2>1. 1..0 = {}
    OBVIOUS
  <2> QED BY <1>5, <2>1
<1>7. ASSUME NEW n \in 1..N PROVE R[n] = step[<<n, R[n - 1]>>]
  <2>1. Max(1..n) = n
    BY MaxOfInterval
  <2>2. (1..n) \ {n} = 1..(n - 1) /\ (1..n) \in SUBSET S /\ 1..n # {} /\ n - 1 \in 0..N
    OBVIOUS
  <2> HIDE DEF last
  <2>3. F[1..n] = step[<<n, F[1..(n - 1)]>>]
    BY <1>4, <2>1, <2>2
  <2> QED BY <2>2, <2>3
<1>8. Stages(F, N) = R
  BY DEF Stages
<1> HIDE DEF R
<1> QED BY <1>4, <1>5, <1>6, <1>7, <1>8 DEF Iterates

(* Reconciling results settles one after the other: R are the databases in  *)
(* between.                                                                *)
SettlesWithin(V, N, ops, results, page) ==
    \A n \in 1..N : \A b \in V : Settle(b, ops[n], results[n], page) \in V
IsReconciliation(R, V, N, db, ops, results, page) ==
    /\ R \in [0..N -> V]
    /\ R[0] = db
    /\ \A n \in 1..N : R[n] = Settle(R[n - 1], ops[n], results[n], page)
    /\ Reconcile(db, ops, results, page) = R[N]

(* Reconcile is such a run over the results of a response. *)
LEMMA ReconcileRuns ==
    ASSUME NEW V, NEW db \in V, NEW ops, NEW N \in Nat, DOMAIN ops = 1..N, NEW results, NEW page,
           SettlesWithin(V, N, ops, results, page)
    PROVE  \E R : IsReconciliation(R, V, N, db, ops, results, page)
<1> USE DEF SettlesWithin
<1> DEFINE step == [x \in (1..N) \X V |-> Settle(x[2], ops[x[1]], results[x[1]], page)]
           idx == [n \in DOMAIN ops |-> n]
           Chosen(F) == F = [s \in SUBSET DOMAIN idx |->
                            IF s = {} THEN db
                            ELSE Settle(F[s \ {Max(s)}], ops[idx[Max(s)]], results[idx[Max(s)]], page)]
           G == CHOOSE F : Chosen(F)
<1>1. step \in [(1..N) \X V -> V]
  OBVIOUS
<1>2. \A n \in 1..N, b \in V : step[<<n, b>>] = Settle(b, ops[n], results[n], page)
  OBVIOUS
<1>3. Reconcile(db, ops, results, page) = G[DOMAIN idx]
  BY DEF Reconcile, FoldLeftDomain, FoldLeft, MapThenFoldSet, Max
<1>4. DOMAIN idx = 1..N /\ \A n \in 1..N : idx[n] = n
  OBVIOUS
<1> HIDE DEF step, idx
<1>5. PICK F \in [SUBSET (1..N) -> V] : Iterates(F, N, db, step)
  BY <1>1, IterationExists
<1>6. F[{}] = db /\ \A s \in SUBSET (1..N) : s # {} =>
         /\ Max(s) \in s
         /\ F[s] = Settle(F[s \ {Max(s)}], ops[idx[Max(s)]], results[idx[Max(s)]], page)
  <2>1. F[{}] = db
    BY <1>5 DEF Iterates
  <2>2. ASSUME NEW s \in SUBSET (1..N), s # {}
        PROVE  /\ Max(s) \in s
               /\ F[s] = Settle(F[s \ {Max(s)}], ops[idx[Max(s)]], results[idx[Max(s)]], page)
    <3>1. Max(s) \in s /\ F[s] = step[<<Max(s), F[s \ {Max(s)}]>>]
      BY <1>5, <2>2 DEF Iterates
    <3>2. Max(s) \in 1..N /\ F[s \ {Max(s)}] \in V
      BY <3>1
    <3> QED BY <1>2, <1>4, <3>1, <3>2
  <2> QED BY <2>1, <2>2
<1>7. Chosen(F)
  <2>1. F = [s \in SUBSET (1..N) |-> F[s]]
    OBVIOUS
  <2> QED BY <1>4, <1>6, <2>1
<1>8. Chosen(G)
  BY <1>7
<1> HIDE DEF G
<1> DEFINE last == [s \in SUBSET (1..N) |-> Max(s)]
<1>9. Parallel(F, G, 1..N, last)
  <2>1. G[{}] = db /\ \A s \in SUBSET (1..N) : s # {} =>
           G[s] = Settle(G[s \ {Max(s)}], ops[idx[Max(s)]], results[idx[Max(s)]], page)
    BY <1>4, <1>8
  <2>2. \A s \in SUBSET (1..N) : last[s] = Max(s)
    OBVIOUS
  <2> HIDE DEF last, Chosen
  <2> QED BY <1>6, <2>1, <2>2 DEF Parallel
<1>10. F[1..N] = G[1..N]
  <2> HIDE DEF last, Chosen
  <2>1. IsFiniteSet(1..N)
    BY FS_Interval
  <2> QED BY <1>9, <2>1, FoldsAgree
<1> DEFINE R == Stages(F, N)
<1>11. R \in [0..N -> V] /\ R[N] = G[1..N]
  <2>1. \A n \in 0..N : (1..n) \in SUBSET (1..N)
    OBVIOUS
  <2>2. N \in 0..N
    OBVIOUS
  <2> QED BY <1>10, <2>1, <2>2 DEF Stages
<1>12. R[0] = db /\ \A n \in 1..N : R[n] = step[<<n, R[n - 1]>>]
  BY <1>5 DEF Iterates
<1> HIDE DEF R
<1>13. \A n \in 1..N : R[n] = Settle(R[n - 1], ops[n], results[n], page)
  <2>1. \A n \in 1..N : n - 1 \in 0..N
    OBVIOUS
  <2> QED BY <1>2, <1>11, <1>12, <2>1
<1> QED BY <1>3, <1>4, <1>11, <1>12, <1>13 DEF IsReconciliation

(* What is done with change n of a page. *)
StepOf(b, n, changes, fresh, products) ==
    IF n \in fresh /\ IsProductOp(changes[n].op) = products THEN ApplyChange(b, changes[n]) ELSE b

(* Applying the changes of a kind applies one after the other. *)
AppliesWithin(V, N, changes, fresh, products) ==
    \A n \in 1..N : \A b \in V : StepOf(b, n, changes, fresh, products) \in V
IsApplication(R, V, N, db, changes, fresh, products) ==
    /\ R \in [0..N -> V]
    /\ R[0] = db
    /\ \A n \in 1..N : R[n] = StepOf(R[n - 1], n, changes, fresh, products)
    /\ ApplyKind(db, changes, fresh, products) = R[N]

(* ApplyKind is such a run over the changes of a page. *)
LEMMA ApplyKindRuns ==
    ASSUME NEW V, NEW db \in V, NEW changes, NEW N \in Nat, DOMAIN changes = 1..N, NEW fresh,
           NEW products \in BOOLEAN, AppliesWithin(V, N, changes, fresh, products)
    PROVE  \E R : IsApplication(R, V, N, db, changes, fresh, products)
<1> USE DEF AppliesWithin
<1> DEFINE step == [x \in (1..N) \X V |-> StepOf(x[2], x[1], changes, fresh, products)]
           idx == [n \in DOMAIN changes |-> n]
           Chosen(F) == F = [s \in SUBSET DOMAIN idx |->
                            IF s = {} THEN db
                            ELSE StepOf(F[s \ {Max(s)}], idx[Max(s)], changes, fresh, products)]
           G == CHOOSE F : Chosen(F)
<1>1. step \in [(1..N) \X V -> V]
  OBVIOUS
<1>2. \A n \in 1..N, b \in V : step[<<n, b>>] = StepOf(b, n, changes, fresh, products)
  OBVIOUS
<1>3. ApplyKind(db, changes, fresh, products) = G[DOMAIN idx]
  BY DEF ApplyKind, StepOf, FoldLeftDomain, FoldLeft, MapThenFoldSet, Max
<1>4. DOMAIN idx = 1..N /\ \A n \in 1..N : idx[n] = n
  OBVIOUS
<1> HIDE DEF step, idx
<1>5. PICK F \in [SUBSET (1..N) -> V] : Iterates(F, N, db, step)
  BY <1>1, IterationExists
<1>6. F[{}] = db /\ \A s \in SUBSET (1..N) : s # {} =>
         /\ Max(s) \in s
         /\ F[s] = StepOf(F[s \ {Max(s)}], idx[Max(s)], changes, fresh, products)
  <2>1. F[{}] = db
    BY <1>5 DEF Iterates
  <2>2. ASSUME NEW s \in SUBSET (1..N), s # {}
        PROVE  /\ Max(s) \in s
               /\ F[s] = StepOf(F[s \ {Max(s)}], idx[Max(s)], changes, fresh, products)
    <3>1. Max(s) \in s /\ F[s] = step[<<Max(s), F[s \ {Max(s)}]>>]
      BY <1>5, <2>2 DEF Iterates
    <3>2. Max(s) \in 1..N /\ F[s \ {Max(s)}] \in V
      BY <1>5, <3>1
    <3>3. step[<<Max(s), F[s \ {Max(s)}]>>]
            = StepOf(F[s \ {Max(s)}], Max(s), changes, fresh, products)
      BY <1>2, <3>2
    <3>4. idx[Max(s)] = Max(s)
      BY <1>4, <3>2
    <3> QED BY <3>1, <3>3, <3>4
  <2> QED BY <2>1, <2>2
<1>7. Chosen(F)
  <2>1. F = [s \in SUBSET (1..N) |-> F[s]]
    OBVIOUS
  <2> QED BY <1>4, <1>6, <2>1
<1>8. Chosen(G)
  BY <1>7
<1> HIDE DEF G
<1> DEFINE last == [s \in SUBSET (1..N) |-> Max(s)]
<1>9. Parallel(F, G, 1..N, last)
  <2>1. G[{}] = db /\ \A s \in SUBSET (1..N) : s # {} =>
           G[s] = StepOf(G[s \ {Max(s)}], idx[Max(s)], changes, fresh, products)
    BY <1>4, <1>8
  <2>2. \A s \in SUBSET (1..N) : last[s] = Max(s)
    OBVIOUS
  <2> HIDE DEF last, Chosen
  <2> QED BY <1>6, <2>1, <2>2 DEF Parallel
<1>10. F[1..N] = G[1..N]
  <2> HIDE DEF last, Chosen
  <2>1. IsFiniteSet(1..N)
    BY FS_Interval
  <2> QED BY <1>9, <2>1, FoldsAgree
<1> DEFINE R == Stages(F, N)
<1>11. R \in [0..N -> V] /\ R[N] = G[1..N]
  <2>1. \A n \in 0..N : (1..n) \in SUBSET (1..N)
    OBVIOUS
  <2>2. N \in 0..N
    OBVIOUS
  <2> QED BY <1>10, <2>1, <2>2 DEF Stages
<1>12. R[0] = db /\ \A n \in 1..N : R[n] = step[<<n, R[n - 1]>>]
  BY <1>5 DEF Iterates
<1> HIDE DEF R
<1>13. \A n \in 1..N : R[n] = StepOf(R[n - 1], n, changes, fresh, products)
  <2> TAKE n \in 1..N
  <2>1. n - 1 \in 0..N
    OBVIOUS
  <2>2. R[n - 1] \in V
    BY <1>11, <2>1
  <2>3. step[<<n, R[n - 1]>>] = StepOf(R[n - 1], n, changes, fresh, products)
    BY <1>2, <2>2
  <2> QED BY <1>12, <2>3
<1> QED BY <1>3, <1>4, <1>11, <1>12, <1>13 DEF IsApplication

(* What holds of the first value and passes from each value to the next    *)
(* holds of all of them.                                                   *)
LEMMA RunInduction ==
    ASSUME NEW N \in Nat, NEW P, 0 \in P, \A n \in 1..N : n - 1 \in P => n \in P
    PROVE  0..N \subseteq P
<1> DEFINE Out == {n \in Nat : n <= N /\ n \notin P}
<1>1. Out = {}
  <2>1. SUFFICES ASSUME Out # {} PROVE FALSE
    OBVIOUS
  <2>2. PICK n \in Out : \A k \in Out : n <= k
    <3>1. Out \in SUBSET Nat
      OBVIOUS
    <3> HIDE DEF Out
    <3> QED BY <2>1, <3>1, LeastOfNats
  <2>3. n \in Nat /\ n <= N /\ n \notin P /\ n # 0
    BY <2>2
  <2>4. n - 1 \in Nat /\ n - 1 \notin Out /\ n - 1 <= N
    BY <2>2, <2>3
  <2> QED BY <2>3, <2>4
<1> QED BY <1>1
-----------------------------------------------------------------------------
(* The elements at some positions of a list. *)

(* The elements of a sequence at some positions are those elements, each    *)
(* once and in their order.                                                 *)
LEMMA AtElements ==
    ASSUME NEW T, NEW s \in Seq(T), NEW I \in SUBSET DOMAIN s
    PROVE  /\ At(s, I) \in Seq(T)
           /\ \A m \in DOMAIN At(s, I) : \E n \in I : At(s, I)[m] = s[n]
           /\ \A n \in I : \E m \in DOMAIN At(s, I) : At(s, I)[m] = s[n]
           /\ \A m, k \in DOMAIN At(s, I) : m # k =>
                \E i, j \in I : i # j /\ At(s, I)[m] = s[i] /\ At(s, I)[k] = s[j]
           /\ \A m, k \in DOMAIN At(s, I) : m < k =>
                \E i, j \in I : i < j /\ At(s, I)[m] = s[i] /\ At(s, I)[k] = s[j]
           /\ \A i, j \in I : i < j =>
                \E m, k \in DOMAIN At(s, I) : m < k /\ At(s, I)[m] = s[i] /\ At(s, I)[k] = s[j]
<1> DEFINE place(n) == Cardinality({k \in I : k <= n})
           C == Cardinality(I)
           nth(m) == CHOOSE n \in I : place(n) = m
<1>1. I \in SUBSET (1..Len(s)) /\ IsFiniteSet(I) /\ C \in Nat
  <2>1. I \in SUBSET (1..Len(s)) /\ IsFiniteSet(1..Len(s))
    BY FS_Interval
  <2> QED BY <2>1, FS_Subset, FS_CardinalityType
<1>2. ASSUME NEW n \in I PROVE place(n) \in 1..C
  <2> DEFINE S == {k \in I : k <= n}
  <2>1. S \in SUBSET I /\ n \in S
    BY <1>1
  <2>2. IsFiniteSet(S) /\ Cardinality(S) \in Nat /\ Cardinality(S) <= C
    BY <1>1, <2>1, FS_Subset, FS_CardinalityType
  <2>3. Cardinality(S) # 0
    BY <2>1, <2>2, FS_EmptySet
  <2> QED BY <2>2, <2>3
<1>3. ASSUME NEW n \in I, NEW k \in I, n < k PROVE place(n) < place(k)
  <2> DEFINE S == {j \in I : j <= n}
             T2 == {j \in I : j <= k}
  <2>1. S \in SUBSET (T2 \ {k}) /\ k \in T2 /\ IsFiniteSet(T2)
    BY <1>1, <1>3, FS_Subset
  <2> HIDE DEF S, T2
  <2>2. IsFiniteSet(T2 \ {k}) /\ Cardinality(T2 \ {k}) = Cardinality(T2) - 1
    BY <2>1, FS_RemoveElement
  <2>3. Cardinality(S) <= Cardinality(T2) - 1 /\ Cardinality(S) \in Nat /\ Cardinality(T2) \in Nat
    BY <2>1, <2>2, FS_Subset, FS_CardinalityType
  <2> QED BY <2>3 DEF S, T2
<1>4. ASSUME NEW m \in 1..C PROVE \E n \in I : place(n) = m
  <2>1. SUFFICES ASSUME \A n \in I : place(n) # m PROVE FALSE
    OBVIOUS
  <2> DEFINE U == (1..C) \ {m}
             f == [n \in I |-> place(n)]
  <2>2. IsFiniteSet(U) /\ Cardinality(U) = C - 1 /\ C - 1 < C
    <3> DEFINE S == 1..C
    <3>1. IsFiniteSet(S) /\ Cardinality(S) = C /\ m \in S
      BY <1>1, FS_Interval
    <3> HIDE DEF S
    <3>2. IsFiniteSet(S \ {m}) /\ Cardinality(S \ {m}) = Cardinality(S) - 1
      BY <3>1, FS_RemoveElement
    <3> HIDE DEF C
    <3>3. C - 1 < C
      BY <1>1
    <3> QED BY <3>1, <3>2, <3>3 DEF S
  <2>3. f \in [I -> U]
    BY <1>2, <2>1
  <2> HIDE DEF U, f
  <2>4. PICK n, k \in I : n # k /\ f[n] = f[k]
    BY <1>1, <2>2, <2>3, FS_PigeonHole
  <2> HIDE DEF place
  <2>5. place(n) = place(k)
    BY <2>4 DEF f
  <2>6. place(n) \in Int /\ place(k) \in Int
    BY <1>2
  <2>7. n < k \/ k < n
    BY <1>1, <2>4
  <2> QED BY <1>3, <2>5, <2>6, <2>7
<1> HIDE DEF place
<1>5. ASSUME NEW m \in 1..C PROVE nth(m) \in I /\ place(nth(m)) = m
  BY <1>4
<1>6. \A n \in I : nth(place(n)) = n
  <2> TAKE n \in I
  <2>1. place(n) \in 1..C
    BY <1>2
  <2>2. nth(place(n)) \in I /\ place(nth(place(n))) = place(n)
    BY <1>5, <2>1
  <2> HIDE DEF nth
  <2>3. ~(n < nth(place(n))) /\ ~(nth(place(n)) < n)
    BY <1>3, <2>1, <2>2
  <2> QED BY <1>1, <2>2, <2>3
<1>7. At(s, I) = [m \in 1..C |-> s[nth(m)]]
  BY DEF At, place
<1>10. ASSUME NEW m \in 1..C, NEW k \in 1..C, m < k PROVE nth(m) < nth(k)
  <2>1. nth(m) \in I /\ place(nth(m)) = m /\ nth(k) \in I /\ place(nth(k)) = k
    BY <1>5
  <2> HIDE DEF nth
  <2>2. nth(m) # nth(k) /\ ~(nth(k) < nth(m))
    BY <1>3, <1>10, <2>1
  <2> QED BY <1>1, <2>1, <2>2
<1> HIDE DEF C, nth
<1>8. DOMAIN At(s, I) = 1..C /\ \A m \in 1..C : At(s, I)[m] = s[nth(m)]
  BY <1>7
<1>9. At(s, I) \in Seq(T)
  <2>1. \A m \in 1..C : s[nth(m)] \in T
    BY <1>5
  <2> QED BY <1>1, <1>7, <2>1 DEF C
<1>11. ASSUME NEW i \in I, NEW j \in I, i < j
       PROVE  \E m, k \in 1..C : m < k /\ At(s, I)[m] = s[i] /\ At(s, I)[k] = s[j]
  <2>1. place(i) \in 1..C /\ place(j) \in 1..C /\ place(i) < place(j)
    BY <1>2, <1>3, <1>11
  <2>2. At(s, I)[place(i)] = s[i] /\ At(s, I)[place(j)] = s[j]
    BY <1>6, <1>8, <2>1
  <2> QED BY <2>1, <2>2
<1>12. ASSUME NEW m \in 1..C, NEW k \in 1..C, m < k
       PROVE  \E i, j \in I : i < j /\ At(s, I)[m] = s[i] /\ At(s, I)[k] = s[j]
  BY <1>5, <1>8, <1>10, <1>12
<1>13. /\ \A m, k \in DOMAIN At(s, I) : m < k =>
            \E i, j \in I : i < j /\ At(s, I)[m] = s[i] /\ At(s, I)[k] = s[j]
       /\ \A i, j \in I : i < j =>
            \E m, k \in DOMAIN At(s, I) : m < k /\ At(s, I)[m] = s[i] /\ At(s, I)[k] = s[j]
  BY <1>8, <1>11, <1>12
<1>14. \A m \in DOMAIN At(s, I) : \E n \in I : At(s, I)[m] = s[n]
  BY <1>5, <1>8
<1>15. \A n \in I : \E m \in DOMAIN At(s, I) : At(s, I)[m] = s[n]
  BY <1>2, <1>6, <1>8
<1>16. \A m, k \in DOMAIN At(s, I) : m # k =>
            \E i, j \in I : i # j /\ At(s, I)[m] = s[i] /\ At(s, I)[k] = s[j]
  BY <1>5, <1>8
<1> QED BY <1>9, <1>13, <1>14, <1>15, <1>16
-----------------------------------------------------------------------------
(* What a database keeps to, given the operations of its device, `own`, and *)
(* of all devices, `known`, and the feed F.                                *)

NextId(id) == <<id[1], id[2] + 1>>
Accepted(F) == {F[s].op.id : s \in DOMAIN F}

(* Operations of one intent are alike; a movement has no follow-ups.        *)
Alike(op, other) ==
    /\ op.product = other.product
    /\ IsProductOp(op) <=> IsProductOp(other)
    /\ ~IsProductOp(op) =>
        /\ op.id = other.id /\ op.id[2] = 0 /\ op.base = 0
        /\ op.kind = other.kind /\ op.counted = other.counted /\ op.at = other.at

(* An operation that continues another one. *)
Continues(next, op) ==
    /\ next \in Operation
    /\ next.id = NextId(op.id)
    /\ next.product = op.product
    /\ next.kind \in {"create", "edit"}
    /\ next.kind = "create" => next.base = 0
    /\ next.kind = "edit" => next.basis \in Payload

Family(own, known) ==
    /\ own \subseteq known
    /\ known \subseteq Operation
    /\ \A op, other \in known : op.id[1] = other.id[1] => Alike(op, other)
    /\ \A op \in known : /\ op.kind = "create" => op.base = 0
                         /\ op.kind = "edit" => op.basis \in Payload
                         /\ op.kind = "delete" => op.base > 0
    /\ \A op \in own : \A next \in Operation :
            IsProductOp(op) /\ Continues(next, op) => next \in own

FeedOk(F, known) ==
    /\ F \in Seq(Change)
    /\ \A s \in DOMAIN F :
        /\ F[s].op \in known
        /\ IsProductOp(F[s].op) => F[s].image \in Image /\ F[s].displaced = {}
        /\ \A op \in F[s].displaced :
            ~IsProductOp(op) /\ \E k \in DOMAIN F : F[k].op = op
    /\ \A s, k \in DOMAIN F : F[s].op.id = F[k].op.id => s = k

World(own, known, F) == Family(own, known) /\ FeedOk(F, known)

(* The movement is the one of a known operation, and synced only if the     *)
(* server accepted it.                                                     *)
Genuine(m, known, acc) ==
    /\ \E op \in known : ~IsProductOp(op) /\ m = NewMove(op, m.delta, m.status)
    /\ m.status = "synced" => m.id \in acc

GoodMoves(b, known, acc) ==
    /\ IsFiniteSet(b.moves)
    /\ \A m, n \in b.moves : m.id = n.id => m = n
    /\ \A m \in b.moves : Genuine(m, known, acc)

GoodBalance(b) == \A p \in Products : b.balance[p] = Total(MovesOf(b, p))

GoodQueue(b, own) ==
    /\ \A n \in DOMAIN b.queue : b.queue[n].op \in own
    /\ \A n, k \in DOMAIN b.queue : b.queue[n].op.id = b.queue[k].op.id => n = k

(* The conflict that led to the operation with an id, if it is a follow-up. *)
Explained(b, id) ==
    id[2] > 0 => \E e \in b.conflicts :
        NextId(e.op.id) = id /\ e.resolution \in {"auto_merged", "resolved"}

(* What a conflict of a rejected product operation holds for a choice. *)
Choosable(c, own) ==
    /\ c.reason = "version_conflict" => c.op \in own /\ IsProductOp(c.op) /\ c.server \in Image
    /\ c.reason = "barcode_conflict" =>
        c.op \in own /\ c.op.kind \in {"create", "edit"} /\ c.op.fields \in Payload

GoodConflicts(b, own, known) ==
    /\ \A c, e \in b.conflicts : c.op.id = e.op.id => c = e
    /\ \A c \in b.conflicts : c.op \in known /\ Choosable(c, own) /\ Explained(b, c.op.id)

Lives(b, id, acc) == id \in QueuedIds(b) \cup acc

GoodMerges(b, acc) ==
    \A c \in b.conflicts : c.resolution = "auto_merged" => Lives(b, NextId(c.op.id), acc)

(* A queue row is blocked just as long as a conflict shows it. *)
HasConflict(b, id) == \E c \in b.conflicts : c.op.id = id
GoodLinks(b) ==
    \A n \in DOMAIN b.queue :
        /\ b.queue[n].status = "blocked" <=> HasConflict(b, b.queue[n].op.id)
        /\ Explained(b, b.queue[n].op.id)

Good(b, own, known, acc) ==
    /\ b \in Database
    /\ GoodMoves(b, known, acc)
    /\ GoodBalance(b)
    /\ GoodQueue(b, own)
    /\ GoodConflicts(b, own, known)
    /\ GoodMerges(b, acc)
    /\ GoodLinks(b)

(* The database has the movement of change c with its canonical delta, and  *)
(* shows the stocktakes c displaced.                                       *)
Holds(b, c) == \E m \in b.moves : m.id = c.op.id /\ m.delta = c.delta
Shown(b, c) ==
    \A op \in c.displaced : \E k \in b.conflicts : k.op = op /\ k.reason = "stocktake_displaced"

(* From database b to database e nothing is lost that the user did or that  *)
(* the feed brought.                                                       *)
KeepsQueued(b, e, acc) == QueuedIds(b) \subseteq QueuedIds(e) \cup acc
KeepsHeld(b, e, F) == \A s \in DOMAIN F : Holds(b, F[s]) => Holds(e, F[s])
KeepsShown(b, e, F) == \A s \in DOMAIN F : Shown(b, F[s]) => Shown(e, F[s])
Follows(b, e, F) ==
    /\ KeepsQueued(b, e, Accepted(F))
    /\ KeepsHeld(b, e, F)
    /\ KeepsShown(b, e, F)
    /\ e.cursor = b.cursor

(* Nothing is lost when nothing happens. *)
LEMMA FollowsItself == ASSUME NEW b, NEW F PROVE Follows(b, b, F)
BY DEF Follows, KeepsQueued, KeepsHeld, KeepsShown

(* Nothing is lost over two steps when nothing is lost in either. *)
LEMMA FollowsOn ==
    ASSUME NEW b, NEW e, NEW g, NEW F, Follows(b, e, F), Follows(e, g, F)
    PROVE  Follows(b, g, F)
BY DEF Follows, KeepsQueued, KeepsHeld, KeepsShown

(* What the predicates depend on. *)
LEMMA SameMoves ==
    ASSUME NEW b, NEW e, NEW known, NEW acc, e.moves = b.moves
    PROVE  /\ GoodMoves(b, known, acc) => GoodMoves(e, known, acc)
           /\ \A p : MovesOf(e, p) = MovesOf(b, p)
           /\ \A c : Holds(b, c) => Holds(e, c)
BY DEF GoodMoves, MovesOf, Holds

(* The same queue is as good. *)
LEMMA SameQueue ==
    ASSUME NEW b, NEW e, NEW own, e.queue = b.queue
    PROVE  /\ GoodQueue(b, own) => GoodQueue(e, own)
           /\ QueuedIds(e) = QueuedIds(b)
           /\ \A id : StatusOf(e, id) = StatusOf(b, id)
BY DEF GoodQueue, QueuedIds, StatusOf

(* The same conflicts are as good, and explain and show the same. *)
LEMMA SameConflicts ==
    ASSUME NEW b, NEW e, NEW own, NEW known, e.conflicts = b.conflicts
    PROVE  /\ GoodConflicts(b, own, known) => GoodConflicts(e, own, known)
           /\ \A id : Explained(b, id) => Explained(e, id)
           /\ \A c : Shown(b, c) => Shown(e, c)
BY DEF GoodConflicts, Explained, Shown

(* The same queue and conflicts are linked the same. *)
LEMMA SameOutbox ==
    ASSUME NEW b, NEW e, NEW acc, e.queue = b.queue, e.conflicts = b.conflicts
    PROVE  /\ GoodLinks(b) => GoodLinks(e)
           /\ GoodMerges(b, acc) => GoodMerges(e, acc)
BY DEF GoodLinks, GoodMerges, HasConflict, Explained, Lives, QueuedIds

(* A change of rows touches nothing else. *)
LEMMA RowsApart ==
    ASSUME NEW own, NEW known, NEW F, NEW b, Good(b, own, known, Accepted(F)),
           NEW e \in Database, e.moves = b.moves, e.queue = b.queue, e.conflicts = b.conflicts,
           e.balance = b.balance, e.cursor = b.cursor
    PROVE  Good(e, own, known, Accepted(F)) /\ Follows(b, e, F)
<1>1. GoodMoves(e, known, Accepted(F)) /\ GoodQueue(e, own) /\ GoodConflicts(e, own, known)
      /\ GoodLinks(e) /\ GoodMerges(e, Accepted(F))
  BY SameMoves, SameQueue, SameConflicts, SameOutbox DEF Good
<1>2. GoodBalance(e)
  BY SameMoves DEF Good, GoodBalance
<1>3. Follows(b, e, F)
  BY SameMoves, SameQueue, SameConflicts DEF Follows, KeepsQueued, KeepsHeld, KeepsShown
<1> QED BY <1>1, <1>2, <1>3 DEF Good

(* One row is written. *)
LEMMA RowWritten ==
    ASSUME NEW own, NEW known, NEW F, NEW b, Good(b, own, known, Accepted(F)),
           NEW p \in Products, NEW row \in LocalRow
    PROVE  LET e == [b EXCEPT !.rows[p] = row] IN
           /\ Good(e, own, known, Accepted(F)) /\ Follows(b, e, F)
           /\ e.moves = b.moves /\ e.queue = b.queue /\ e.conflicts = b.conflicts
           /\ e.balance = b.balance
           /\ e.rows = [b.rows EXCEPT ![p] = row]
<1> DEFINE e == [b EXCEPT !.rows[p] = row]
<1>1. b \in Database
  BY DEF Good
<1>2. e \in Database
  BY <1>1 DEF Database
<1>3. e.moves = b.moves /\ e.queue = b.queue /\ e.conflicts = b.conflicts
      /\ e.balance = b.balance /\ e.cursor = b.cursor /\ e.rows = [b.rows EXCEPT ![p] = row]
  BY <1>1 DEF Database
<1> HIDE DEF e
<1>4. Good(e, own, known, Accepted(F)) /\ Follows(b, e, F)
  BY <1>2, <1>3, RowsApart
<1> QED BY <1>3, <1>4 DEF e

(* A canonical product is inserted or updated. *)
LEMMA ProductStored ==
    ASSUME NEW own, NEW known, NEW F, NEW b, Good(b, own, known, Accepted(F)),
           NEW p \in Products, NEW image \in Image, StoreProduct(b, p, image) # None
    PROVE  LET e == StoreProduct(b, p, image) IN
           Good(e, own, known, Accepted(F)) /\ Follows(b, e, F)
<1>1. b \in Database /\ b.balance[p] = Total(MovesOf(b, p))
  BY DEF Good, GoodBalance
<1>2. ASSUME NEW status \in SyncStatus PROVE ToLocal(image, status) \in LocalRow
  BY DEF ToLocal, LocalRow, Image
<1>3. b.rows[p] # None => b.rows[p].status \in SyncStatus
  BY <1>1 DEF Database, LocalRow
<1>4. "synced" \in SyncStatus
  BY DEF SyncStatus
<1>5. [b EXCEPT !.rows[p] = ToLocal(image, "synced"), !.balance[p] = Total(MovesOf(b, p))]
       = [b EXCEPT !.rows[p] = ToLocal(image, "synced")]
  BY <1>1 DEF Database
<1>6. \E row \in LocalRow : StoreProduct(b, p, image) = [b EXCEPT !.rows[p] = row]
  <2>1. CASE b.rows[p] = None
    BY <1>2, <1>4, <1>5, <2>1 DEF StoreProduct
  <2>2. CASE b.rows[p] # None
    BY <1>2, <1>3, <2>2 DEF StoreProduct
  <2> QED BY <2>1, <2>2
<1> QED BY <1>6, RowWritten

(* A product change of the feed, or a tombstone of a verdict. *)
LEMMA ProductApplied ==
    ASSUME NEW own, NEW known, NEW F, NEW b, Good(b, own, known, Accepted(F)),
           NEW p \in Products, NEW image \in Image, ApplyProduct(b, p, image) # None
    PROVE  LET e == ApplyProduct(b, p, image) IN
           Good(e, own, known, Accepted(F)) /\ Follows(b, e, F)
<1>1. ApplyProduct(b, p, image) = b \/ ApplyProduct(b, p, image) = StoreProduct(b, p, image)
  BY DEF ApplyProduct
<1> QED BY <1>1, ProductStored, FollowsItself
-----------------------------------------------------------------------------
(* Statuses change, operations stay. *)

(* A queue of the same operations holds the same. *)
LEMMA RelabeledQueue ==
    ASSUME NEW b, NEW e, NEW own, DOMAIN e.queue = DOMAIN b.queue,
           \A n \in DOMAIN b.queue : e.queue[n].op = b.queue[n].op
    PROVE  /\ GoodQueue(b, own) => GoodQueue(e, own)
           /\ QueuedIds(e) = QueuedIds(b)
BY DEF GoodQueue, QueuedIds

(* A queue whose rows are changed one by one is a queue. *)
LEMMA QueueMapped ==
    ASSUME NEW q \in Seq(QueueRow), NEW g,
           DOMAIN g = DOMAIN q, g = [n \in DOMAIN q |-> g[n]], \A n \in DOMAIN q : g[n] \in QueueRow
    PROVE  g \in Seq(QueueRow)
<1>1. DOMAIN q = 1..Len(q) /\ Len(q) \in Nat
  OBVIOUS
<1>2. g = [n \in 1..Len(q) |-> g[n]] /\ \A n \in 1..Len(q) : g[n] \in QueueRow
  BY <1>1
<1> HIDE DEF QueueRow
<1> QED BY <1>1, <1>2

(* A status other than blocked gives way to another one. *)
LEMMA Restatused ==
    ASSUME NEW own, NEW known, NEW F, NEW b, Good(b, own, known, Accepted(F)), NEW ids,
           NEW old \in {"queued", "retrying", "inflight", "parked"},
           NEW new \in {"queued", "retrying", "inflight", "parked"}
    PROVE  LET e == Restatus(b, ids, old, new) IN
           /\ Good(e, own, known, Accepted(F)) /\ Follows(b, e, F)
           /\ DOMAIN e.queue = DOMAIN b.queue
           /\ \A n \in DOMAIN b.queue : e.queue[n].op = b.queue[n].op
           /\ e.moves = b.moves /\ e.conflicts = b.conflicts /\ e.balance = b.balance
           /\ e.rows = b.rows /\ e.cursor = b.cursor
<1> DEFINE e == Restatus(b, ids, old, new)
           q == [n \in DOMAIN b.queue |-> IF b.queue[n].op.id \in ids /\ b.queue[n].status = old
                                     THEN [b.queue[n] EXCEPT !.status = new] ELSE b.queue[n]]
<1>1. b \in Database /\ b.queue \in Seq(QueueRow)
  BY DEF Good, Database
<1>2. ASSUME NEW n \in DOMAIN b.queue
      PROVE  /\ q[n] \in QueueRow /\ q[n].op = b.queue[n].op
             /\ q[n].status = "blocked" <=> b.queue[n].status = "blocked"
  <2>1. b.queue[n] \in QueueRow
    BY <1>1
  <2> QED BY <2>1 DEF QueueRow
<1>3. q \in Seq(QueueRow)
  <2>1. DOMAIN q = DOMAIN b.queue /\ q = [n \in DOMAIN b.queue |-> q[n]]
    OBVIOUS
  <2> HIDE DEF q
  <2> QED BY <1>1, <1>2, <2>1, QueueMapped
<1>4. e = [b EXCEPT !.queue = q]
  BY DEF Restatus
<1>5. DOMAIN q = DOMAIN b.queue
  OBVIOUS
<1> HIDE DEF q, e
<1>6. /\ e \in Database /\ e.queue = q /\ e.moves = b.moves /\ e.conflicts = b.conflicts
      /\ e.balance = b.balance /\ e.rows = b.rows /\ e.cursor = b.cursor
  BY <1>1, <1>3, <1>4 DEF Database
<1>7. GoodQueue(e, own) /\ QueuedIds(e) = QueuedIds(b)
  BY <1>2, <1>5, <1>6, RelabeledQueue DEF Good
<1>8. GoodMoves(e, known, Accepted(F)) /\ GoodConflicts(e, own, known) /\ GoodBalance(e)
  BY <1>6, SameMoves, SameConflicts DEF Good, GoodBalance
<1>9. GoodMerges(e, Accepted(F))
  BY <1>6, <1>7 DEF Good, GoodMerges, Lives
<1>10. GoodLinks(e)
  BY <1>2, <1>5, <1>6 DEF Good, GoodLinks, HasConflict, Explained
<1>11. Follows(b, e, F)
  BY <1>6, <1>7, SameMoves, SameConflicts DEF Follows, KeepsQueued, KeepsHeld, KeepsShown
<1> QED BY <1>2, <1>5, <1>6, <1>7, <1>8, <1>9, <1>10, <1>11 DEF Good, e

(* What is queued under an id with a status is the row with that id. *)
LEMMA OneStatus ==
    ASSUME NEW own, NEW b, GoodQueue(b, own), NEW id, NEW st, StatusOf(b, id) = {st}
    PROVE  \E n \in DOMAIN b.queue :
              /\ b.queue[n].op.id = id /\ b.queue[n].status = st
              /\ \A k \in DOMAIN b.queue : b.queue[k].op.id = id => k = n
BY DEF StatusOf, GoodQueue
-----------------------------------------------------------------------------
(* The stocktakes that accepted movements displaced. *)

Displaceable(ops, F) ==
    \A op \in ops : ~IsProductOp(op) /\ \E k \in DOMAIN F : F[k].op = op

(* Displaced stocktakes get their conflicts, and are blocked if queued. *)
LEMMA Displaced ==
    ASSUME NEW own, NEW known, NEW F, World(own, known, F),
           NEW b, Good(b, own, known, Accepted(F)), NEW ops, Displaceable(ops, F)
    PROVE  LET e == Displace(b, ops) IN
           /\ Good(e, own, known, Accepted(F)) /\ Follows(b, e, F)
           /\ \A op \in ops : \E k \in e.conflicts : k.op = op /\ k.reason = "stocktake_displaced"
           /\ e.moves = b.moves /\ e.balance = b.balance /\ e.rows = b.rows /\ e.cursor = b.cursor
           /\ DOMAIN e.queue = DOMAIN b.queue
           /\ \A n \in DOMAIN b.queue : e.queue[n].op = b.queue[n].op
<1> DEFINE e == Displace(b, ops)
           ids == {op.id : op \in ops}
           note(op) == [op |-> op, reason |-> "stocktake_displaced", server |-> None,
                        resolution |-> "unresolved"]
           cs == {x \in b.conflicts : x.op.id \notin ids} \cup {note(op) : op \in ops}
           q == [n \in DOMAIN b.queue |-> IF b.queue[n].op.id \in ids
                                     THEN [b.queue[n] EXCEPT !.status = "blocked"] ELSE b.queue[n]]
<1>1. /\ b \in Database /\ b.queue \in Seq(QueueRow) /\ b.conflicts \in SUBSET Conflict
      /\ GoodQueue(b, own) /\ GoodConflicts(b, own, known) /\ GoodMerges(b, Accepted(F))
      /\ GoodLinks(b)
  BY DEF Good, Database
<1>2. \A op \in ops : op \in known /\ op \in Operation /\ ~IsProductOp(op) /\ op.id[2] = 0
  BY DEF Displaceable, World, FeedOk, Family, Alike
<1>3. \A op, other \in ops : op.id = other.id => op = other
  BY DEF Displaceable, World, FeedOk
<1>4. ASSUME NEW op \in ops PROVE note(op) \in Conflict
  BY <1>2 DEF Conflict, Reasons
<1>5. cs \in SUBSET Conflict
  BY <1>1, <1>4
<1>6. ASSUME NEW n \in DOMAIN b.queue
      PROVE  /\ q[n] \in QueueRow /\ q[n].op = b.queue[n].op
             /\ q[n].status = "blocked" <=>
                    (b.queue[n].status = "blocked" \/ b.queue[n].op.id \in ids)
  <2>1. b.queue[n] \in QueueRow
    BY <1>1
  <2> QED BY <2>1 DEF QueueRow
<1>7. q \in Seq(QueueRow) /\ DOMAIN q = DOMAIN b.queue
  <2>1. DOMAIN q = DOMAIN b.queue /\ q = [n \in DOMAIN b.queue |-> q[n]]
    OBVIOUS
  <2> HIDE DEF q
  <2> QED BY <1>1, <1>6, <2>1, QueueMapped
<1>8. e = [b EXCEPT !.queue = q, !.conflicts = cs]
  BY DEF Displace
<1>9. \A c \in cs : \/ c \in b.conflicts /\ c.op.id \notin ids
                    \/ \E op \in ops : c = note(op) /\ c.op.id \in ids
  OBVIOUS
<1>10. \A op \in ops : note(op) \in cs
  OBVIOUS
<1>11. \A c \in b.conflicts : c.op.id \notin ids => c \in cs
  OBVIOUS
<1> HIDE DEF q, cs, e
<1>12. /\ e \in Database /\ e.queue = q /\ e.conflicts = cs /\ e.moves = b.moves
       /\ e.balance = b.balance /\ e.rows = b.rows /\ e.cursor = b.cursor
  BY <1>1, <1>5, <1>7, <1>8 DEF Database
<1>13. GoodQueue(e, own) /\ QueuedIds(e) = QueuedIds(b)
  BY <1>1, <1>6, <1>7, <1>12, RelabeledQueue
<1>14. ASSUME NEW id \in OpId, Explained(b, id),
              id[2] > 0 => \E op \in known : IsProductOp(op) /\ op.id = id
       PROVE  Explained(e, id)
  <2>1. SUFFICES ASSUME id[2] > 0
                 PROVE  \E x \in cs : NextId(x.op.id) = id
                                        /\ x.resolution \in {"auto_merged", "resolved"}
    BY <1>12 DEF Explained
  <2>2. PICK x \in b.conflicts : NextId(x.op.id) = id
                                        /\ x.resolution \in {"auto_merged", "resolved"}
    BY <1>14, <2>1 DEF Explained
  <2>3. PICK op \in known : IsProductOp(op) /\ op.id = id
    BY <1>14, <2>1
  <2>4. x.op.id[1] = op.id[1]
    BY <2>2, <2>3 DEF NextId
  <2>5. x.op.id \notin ids
    <3>1. SUFFICES ASSUME NEW o \in ops, o.id = x.op.id PROVE FALSE
      OBVIOUS
    <3>2. o.id[1] = op.id[1]
      BY <2>4, <3>1
    <3>3. Alike(o, op)
      BY <1>2, <2>3, <3>2 DEF World, Family
    <3> QED BY <1>2, <2>3, <3>3 DEF Alike
  <2> QED BY <1>11, <2>2, <2>5
<1>15. ASSUME NEW op \in known
       PROVE  op.id \in OpId /\ (op.id[2] > 0 => IsProductOp(op))
  BY DEF World, Family, Alike, Operation, OpId
<1>16. GoodConflicts(e, own, known)
  <2>1. \A c, x \in cs : c.op.id = x.op.id => c = x
    <3>1. ASSUME NEW c \in cs, NEW x \in cs, c.op.id = x.op.id PROVE c = x
      <4>1. CASE c \in b.conflicts /\ c.op.id \notin ids
        BY <1>1, <1>9, <3>1, <4>1 DEF GoodConflicts
      <4>2. CASE \E op \in ops : c = note(op) /\ c.op.id \in ids
        BY <1>3, <1>9, <3>1, <4>2
      <4> QED BY <1>9, <4>1, <4>2
    <3> QED BY <3>1
  <2>2. ASSUME NEW c \in cs PROVE c.op \in known /\ Choosable(c, own) /\ Explained(e, c.op.id)
    <3>1. CASE c \in b.conflicts
      <4>1. c.op \in known /\ Choosable(c, own) /\ Explained(b, c.op.id)
        BY <1>1, <3>1 DEF GoodConflicts
      <4> QED BY <1>14, <1>15, <4>1
    <3>2. CASE \E op \in ops : c = note(op)
      <4>1. PICK op \in ops : c = note(op)
        BY <3>2
      <4> QED BY <1>2, <4>1 DEF Choosable, Explained
    <3> QED BY <1>9, <3>1, <3>2
  <2> QED BY <1>12, <2>1, <2>2 DEF GoodConflicts
<1>17. GoodMerges(e, Accepted(F))
  <2>1. \A c \in cs : c.resolution = "auto_merged" => c \in b.conflicts
    BY <1>9
  <2> QED BY <1>1, <1>12, <1>13, <2>1 DEF GoodMerges, Lives
<1>18. GoodLinks(e)
  <2>1. ASSUME NEW n \in DOMAIN b.queue
        PROVE  /\ q[n].status = "blocked" <=> HasConflict(e, q[n].op.id)
               /\ Explained(e, q[n].op.id)
    <3>1. b.queue[n].status = "blocked" <=> HasConflict(b, b.queue[n].op.id)
      BY <1>1 DEF GoodLinks
    <3>2. HasConflict(e, b.queue[n].op.id)
             <=> HasConflict(b, b.queue[n].op.id) \/ b.queue[n].op.id \in ids
      <4>1. ASSUME HasConflict(e, b.queue[n].op.id)
            PROVE  HasConflict(b, b.queue[n].op.id) \/ b.queue[n].op.id \in ids
        BY <1>9, <1>12, <4>1 DEF HasConflict
      <4>2. ASSUME HasConflict(b, b.queue[n].op.id), b.queue[n].op.id \notin ids
            PROVE  HasConflict(e, b.queue[n].op.id)
        BY <1>11, <1>12, <4>2 DEF HasConflict
      <4>3. ASSUME b.queue[n].op.id \in ids
            PROVE  HasConflict(e, b.queue[n].op.id)
        <5>1. PICK op \in ops : op.id = b.queue[n].op.id
          BY <4>3
        <5>2. note(op) \in e.conflicts /\ note(op).op = op
          BY <1>10, <1>12
        <5> QED BY <5>1, <5>2 DEF HasConflict
      <4> QED BY <4>1, <4>2, <4>3
    <3>3. b.queue[n].op \in known /\ Explained(b, b.queue[n].op.id)
      BY <1>1 DEF GoodQueue, GoodLinks, World, Family
    <3>4. Explained(e, b.queue[n].op.id)
      BY <1>14, <1>15, <3>3
    <3> QED BY <1>6, <3>1, <3>2, <3>4
  <2> QED BY <1>7, <1>12, <2>1 DEF GoodLinks
<1>19. GoodMoves(e, known, Accepted(F)) /\ GoodBalance(e)
  BY <1>12, SameMoves DEF Good, GoodBalance
<1>20. \A op \in ops : \E k \in e.conflicts : k.op = op /\ k.reason = "stocktake_displaced"
  <2> TAKE op \in ops
  <2>1. note(op) \in e.conflicts /\ note(op).op = op /\ note(op).reason = "stocktake_displaced"
    BY <1>10, <1>12
  <2> QED BY <2>1
<1>21. KeepsShown(b, e, F)
  <2>1. SUFFICES ASSUME NEW s \in DOMAIN F, NEW op \in F[s].displaced, NEW k \in b.conflicts,
                        k.op = op, k.reason = "stocktake_displaced"
                 PROVE  \E x \in e.conflicts : x.op = op /\ x.reason = "stocktake_displaced"
    BY DEF KeepsShown, Shown
  <2>2. CASE k.op.id \notin ids
    BY <1>11, <1>12, <2>1, <2>2
  <2>3. CASE k.op.id \in ids
    <3>1. PICK o \in ops : o.id = op.id
      BY <2>1, <2>3
    <3>2. o = op
      BY <3>1 DEF Displaceable, World, FeedOk
    <3> QED BY <1>20, <3>2
  <2> QED BY <2>2, <2>3
<1>22. Follows(b, e, F)
  BY <1>12, <1>13, <1>21, SameMoves DEF Follows, KeepsQueued, KeepsHeld
<1>23. Good(e, own, known, Accepted(F))
  BY <1>12, <1>13, <1>16, <1>17, <1>18, <1>19 DEF Good
<1>24. DOMAIN e.queue = DOMAIN b.queue /\ \A n \in DOMAIN b.queue : e.queue[n].op = b.queue[n].op
  BY <1>6, <1>7, <1>12
<1> QED BY <1>12, <1>20, <1>22, <1>23, <1>24 DEF e
-----------------------------------------------------------------------------
(* Movements. *)

(* A part of a finite ledger can be summed up. *)
LEMMA MovesAreSummable ==
    ASSUME NEW moves \in SUBSET LocalMove, IsFiniteSet(moves), NEW T \in SUBSET moves
    PROVE  Summable(T)
BY FS_Subset DEF Summable, LocalMove

(* The movements of a product, and what they sum up to. *)
Of(moves, p) == {x \in moves : x.product = p}

(* The balance invariant, in terms of a set of movements. *)
LEMMA BalancesAreOf ==
    ASSUME NEW b
    PROVE  GoodBalance(b) <=> \A p \in Products : b.balance[p] = Total(Of(b.moves, p))
BY DEF GoodBalance, MovesOf, Of

(* A movement more. *)
LEMMA LedgerAdds ==
    ASSUME NEW moves \in SUBSET LocalMove, IsFiniteSet(moves), NEW m \in LocalMove, m \notin moves,
           NEW p
    PROVE  Total(Of(moves \cup {m}, p))
             = Total(Of(moves, p)) + IF m.product = p THEN m.delta ELSE 0
<1> DEFINE S == Of(moves, p)
           T == Of(moves \cup {m}, p)
<1>1. Summable(S) /\ m \notin S /\ m.delta \in Int /\ Total(S) \in Int
  BY MovesAreSummable, TotalType DEF LocalMove, Of
<1>2. CASE m.product = p
  <2>1. T = S \cup {m}
    BY <1>2 DEF Of
  <2> HIDE DEF S, T
  <2>2. Total(S \cup {m}) = Total(S) + m.delta
    BY <1>1, TotalAdds
  <2> QED BY <1>2, <2>1, <2>2 DEF S, T
<1>3. CASE m.product # p
  <2>1. T = S
    BY <1>3 DEF Of
  <2> HIDE DEF S, T
  <2> QED BY <1>1, <1>3, <2>1 DEF S, T
<1> QED BY <1>2, <1>3

(* A movement gets another delta. *)
LEMMA LedgerCorrects ==
    ASSUME NEW moves \in SUBSET LocalMove, IsFiniteSet(moves), NEW m \in moves, NEW n \in LocalMove,
           n \notin moves \ {m}, n.product = m.product, NEW p
    PROVE  Total(Of((moves \ {m}) \cup {n}, p))
             = Total(Of(moves, p)) + IF m.product = p THEN n.delta - m.delta ELSE 0
<1> DEFINE rest == moves \ {m}
<1>1. rest \in SUBSET LocalMove /\ IsFiniteSet(rest) /\ m \notin rest /\ m \in LocalMove
  BY FS_Subset
<1>2. m.delta \in Int /\ n.delta \in Int
  BY DEF LocalMove
<1>3. Total(Of(rest, p)) \in Int
  <2>1. Summable(Of(rest, p))
    BY <1>1, MovesAreSummable DEF Of
  <2> QED BY <2>1, TotalType
<1>4. rest \cup {m} = moves /\ n \notin rest
  OBVIOUS
<1> HIDE DEF rest
<1>5. Total(Of(rest \cup {m}, p)) = Total(Of(rest, p)) + IF m.product = p THEN m.delta ELSE 0
  BY <1>1, LedgerAdds
<1>6. Total(Of(rest \cup {n}, p)) = Total(Of(rest, p)) + IF n.product = p THEN n.delta ELSE 0
  BY <1>1, <1>4, LedgerAdds
<1>7. Total(Of(rest \cup {n}, p))
        = Total(Of(rest \cup {m}, p)) + IF m.product = p THEN n.delta - m.delta ELSE 0
  BY <1>2, <1>3, <1>5, <1>6
<1> QED BY <1>4, <1>7 DEF rest

(* The same movement is made of any operation of its intent. *)
LEMMA SameMovement ==
    ASSUME NEW own, NEW known, Family(own, known), NEW op \in known, NEW other \in known,
           op.id = other.id, ~IsProductOp(op)
    PROVE  ~IsProductOp(other) /\ \A delta, status : NewMove(op, delta, status) = NewMove(other, delta, status)
BY DEF Family, Alike, NewMove

(* What a movement operation writes is a movement. *)
LEMMA NewMoveType ==
    ASSUME NEW op \in Operation, ~IsProductOp(op), NEW delta \in Int, NEW status \in SyncStatus
    PROVE  NewMove(op, delta, status) \in LocalMove
BY DEF NewMove, LocalMove, Operation

(* Movements and balances change, nothing else. *)
LEMMA MovesApart ==
    ASSUME NEW own, NEW known, NEW F, NEW b, Good(b, own, known, Accepted(F)),
           NEW e \in Database, e.rows = b.rows, e.queue = b.queue, e.conflicts = b.conflicts,
           e.cursor = b.cursor, GoodMoves(e, known, Accepted(F)), GoodBalance(e),
           KeepsHeld(b, e, F)
    PROVE  Good(e, own, known, Accepted(F)) /\ Follows(b, e, F)
<1>1. GoodQueue(e, own) /\ GoodConflicts(e, own, known) /\ GoodLinks(e)
      /\ GoodMerges(e, Accepted(F))
  BY SameQueue, SameConflicts, SameOutbox DEF Good
<1>2. Follows(b, e, F)
  BY SameQueue, SameConflicts DEF Follows, KeepsQueued, KeepsShown
<1> QED BY <1>1, <1>2 DEF Good

(* A movement that the database does not have is appended. *)
LEMMA MoveAppended ==
    ASSUME NEW own, NEW known, NEW F, NEW b, Good(b, own, known, Accepted(F)),
           NEW m \in LocalMove, Genuine(m, known, Accepted(F)),
           \A x \in b.moves : x.id # m.id
    PROVE  LET e == WithMove(b, m) IN
           /\ Good(e, own, known, Accepted(F)) /\ Follows(b, e, F)
           /\ m \in e.moves /\ e.queue = b.queue /\ e.conflicts = b.conflicts /\ e.rows = b.rows
<1> DEFINE e == WithMove(b, m)
           moves == b.moves \cup {m}
           balance == [b.balance EXCEPT ![m.product] = @ + m.delta]
<1>1. /\ b \in Database /\ b.moves \in SUBSET LocalMove /\ IsFiniteSet(b.moves)
      /\ b.balance \in [Products -> Int]
      /\ m.product \in Products /\ m.delta \in Int
  BY DEF Good, GoodMoves, Database, LocalMove
<1>2. moves \in SUBSET LocalMove /\ IsFiniteSet(moves) /\ balance \in [Products -> Int]
  BY <1>1, FS_AddElement
<1>3. e = [b EXCEPT !.moves = moves, !.balance = balance]
  BY <1>1 DEF WithMove, Database
<1>4. \A p \in Products : balance[p] = b.balance[p] + IF m.product = p THEN m.delta ELSE 0
  BY <1>1
<1>5. GoodMoves([moves |-> moves], known, Accepted(F))
  BY <1>2 DEF Good, GoodMoves
<1>6. \A p \in Products : balance[p] = Total(Of(moves, p))
  <2> TAKE p \in Products
  <2>1. m \notin b.moves
    OBVIOUS
  <2>2. b.balance[p] = Total(Of(b.moves, p))
    BY BalancesAreOf DEF Good
  <2> HIDE DEF balance
  <2> QED BY <1>1, <1>4, <2>1, <2>2, LedgerAdds
<1>7. m \in moves /\ b.moves \subseteq moves
  OBVIOUS
<1> HIDE DEF moves, balance, e
<1>8. /\ e \in Database /\ e.moves = moves /\ e.balance = balance /\ e.queue = b.queue
      /\ e.conflicts = b.conflicts /\ e.rows = b.rows /\ e.cursor = b.cursor
  BY <1>1, <1>2, <1>3 DEF Database
<1>9. GoodMoves(e, known, Accepted(F)) /\ GoodBalance(e)
  BY <1>5, <1>6, <1>8, BalancesAreOf DEF GoodMoves
<1>10. KeepsHeld(b, e, F)
  BY <1>7, <1>8 DEF KeepsHeld, Holds
<1> QED BY <1>7, <1>8, <1>9, <1>10, MovesApart DEF e

(* The movement of change s, or of the operation it decided. *)
LEMMA Canonical ==
    ASSUME NEW own, NEW known, NEW F, World(own, known, F), NEW s \in DOMAIN F,
           NEW op \in known, op.id = F[s].op.id, ~IsProductOp(F[s].op)
    PROVE  LET m == NewMove(op, F[s].delta, "synced") IN
           m \in LocalMove /\ Genuine(m, known, Accepted(F)) /\ m.id = F[s].op.id
             /\ m.delta = F[s].delta
<1>1. F[s] \in Change /\ F[s].op \in known /\ op \in Operation
  BY DEF World, FeedOk, Family
<1>2. ~IsProductOp(op)
  BY <1>1, SameMovement DEF World
<1>3. F[s].delta \in Int /\ "synced" \in SyncStatus
  BY <1>1 DEF Change, SyncStatus
<1>4. NewMove(op, F[s].delta, "synced") \in LocalMove
  BY <1>1, <1>2, <1>3, NewMoveType
<1>5. F[s].op.id \in Accepted(F)
  BY DEF Accepted
<1> QED BY <1>2, <1>4, <1>5 DEF Genuine, NewMove

(* A movement of the feed that the database lacks. *)
LEMMA RemoteInserted ==
    ASSUME NEW own, NEW known, NEW F, World(own, known, F),
           NEW b, Good(b, own, known, Accepted(F)), NEW s \in DOMAIN F,
           ~IsProductOp(F[s].op), \A x \in b.moves : x.id # F[s].op.id
    PROVE  LET e == InsertRemote(b, F[s]) IN
           Good(e, own, known, Accepted(F)) /\ Follows(b, e, F) /\ Holds(e, F[s]) /\ Shown(e, F[s])
<1> DEFINE m == NewMove(F[s].op, F[s].delta, "synced")
           g == WithMove(b, m)
           e == Displace(g, F[s].displaced)
<1>1. m \in LocalMove /\ Genuine(m, known, Accepted(F)) /\ m.id = F[s].op.id /\ m.delta = F[s].delta
  BY Canonical DEF World, FeedOk
<1>2. Displaceable(F[s].displaced, F)
  BY DEF World, FeedOk, Displaceable
<1> HIDE DEF m
<1>3. Good(g, own, known, Accepted(F)) /\ Follows(b, g, F) /\ m \in g.moves
  BY <1>1, MoveAppended
<1> HIDE DEF g
<1>4. Good(e, own, known, Accepted(F)) /\ Follows(g, e, F) /\ Shown(e, F[s]) /\ e.moves = g.moves
  BY <1>2, <1>3, Displaced DEF Shown
<1>5. e = InsertRemote(b, F[s])
  BY DEF InsertRemote, g, m
<1> HIDE DEF e
<1>6. Holds(e, F[s])
  BY <1>1, <1>3, <1>4 DEF Holds
<1> QED BY <1>3, <1>4, <1>5, <1>6, FollowsOn

(* A movement of the feed. *)
LEMMA MoveApplied ==
    ASSUME NEW own, NEW known, NEW F, World(own, known, F),
           NEW b, Good(b, own, known, Accepted(F)), NEW s \in DOMAIN F,
           ~IsProductOp(F[s].op), ApplyMove(b, F[s]) # None
    PROVE  LET e == ApplyMove(b, F[s]) IN
           Good(e, own, known, Accepted(F)) /\ Follows(b, e, F) /\ Holds(e, F[s]) /\ Shown(e, F[s])
<1> DEFINE mine == {m \in b.moves : m.id = F[s].op.id}
           e == Displace(b, F[s].displaced)
<1>1. CASE mine = {}
  <2>1. ApplyMove(b, F[s]) = InsertRemote(b, F[s])
    BY <1>1 DEF ApplyMove
  <2> QED BY <1>1, <2>1, RemoteInserted
<1>2. CASE mine # {}
  <2>1. ApplyMove(b, F[s]) = e /\ \A m \in mine : m.delta = F[s].delta
    BY <1>2 DEF ApplyMove
  <2>2. Displaceable(F[s].displaced, F)
    BY DEF World, FeedOk, Displaceable
  <2>3. Good(e, own, known, Accepted(F)) /\ Follows(b, e, F) /\ Shown(e, F[s]) /\ e.moves = b.moves
    BY <2>2, Displaced DEF Shown
  <2>4. Holds(b, F[s])
    BY <1>2, <2>1 DEF Holds
  <2> HIDE DEF e, mine
  <2> QED BY <2>1, <2>3, <2>4 DEF Holds
<1> QED BY <1>1, <1>2

(* One change of a page. *)
LEMMA ChangeApplied ==
    ASSUME NEW own, NEW known, NEW F, World(own, known, F),
           NEW b, Good(b, own, known, Accepted(F)), NEW s \in DOMAIN F, ApplyChange(b, F[s]) # None
    PROVE  LET e == ApplyChange(b, F[s]) IN
           /\ Good(e, own, known, Accepted(F)) /\ Follows(b, e, F)
           /\ ~IsProductOp(F[s].op) => Holds(e, F[s]) /\ Shown(e, F[s])
<1>1. F[s].op.product \in Products /\ (IsProductOp(F[s].op) => F[s].image \in Image)
  BY DEF World, FeedOk, Family, Operation
<1>2. CASE IsProductOp(F[s].op)
  <2>1. ApplyChange(b, F[s]) = ApplyProduct(b, F[s].op.product, F[s].image)
    BY <1>2 DEF ApplyChange
  <2> QED BY <1>1, <1>2, <2>1, ProductApplied
<1>3. CASE ~IsProductOp(F[s].op)
  <2>1. ApplyChange(b, F[s]) = ApplyMove(b, F[s])
    BY <1>3 DEF ApplyChange
  <2> QED BY <1>3, <2>1, MoveApplied
<1> QED BY <1>2, <1>3
-----------------------------------------------------------------------------
(* The local consequence of an operation. *)

(* Movement m gets a delta and a status, and the balances follow. *)
Corrected(m, delta, status) == [m EXCEPT !.delta = delta, !.status = status]
Moved(b, m, delta, status, balance) ==
    [b EXCEPT !.moves = (b.moves \ {m}) \cup {Corrected(m, delta, status)}, !.balance = balance]

(* A movement gets its canonical delta or another status. *)
LEMMA MoveChanged ==
    ASSUME NEW own, NEW known, NEW F, NEW b, Good(b, own, known, Accepted(F)),
           NEW m \in b.moves, NEW delta \in Int, NEW status \in SyncStatus,
           status = "synced" => m.id \in Accepted(F),
           \A s \in DOMAIN F : F[s].op.id = m.id => delta = m.delta \/ delta = F[s].delta,
           NEW balance \in [Products -> Int],
           \A p \in Products :
              balance[p] = b.balance[p] + IF m.product = p THEN delta - m.delta ELSE 0
    PROVE  LET n == Corrected(m, delta, status)
               e == Moved(b, m, delta, status, balance)
           IN  /\ Good(e, own, known, Accepted(F)) /\ Follows(b, e, F)
               /\ n \in e.moves /\ e.queue = b.queue /\ e.conflicts = b.conflicts
               /\ e.rows = b.rows
<1> DEFINE n == Corrected(m, delta, status)
           moves == (b.moves \ {m}) \cup {n}
           e == Moved(b, m, delta, status, balance)
<1>1. b \in Database /\ b.moves \in SUBSET LocalMove /\ IsFiniteSet(b.moves) /\ m \in LocalMove
  BY DEF Good, GoodMoves, Database
<1>2. /\ n \in LocalMove /\ n.id = m.id /\ n.product = m.product /\ n.delta = delta
      /\ n.status = status
  BY <1>1 DEF LocalMove, Corrected
<1>3. \A x, y \in b.moves : x.id = y.id => x = y
  BY DEF Good, GoodMoves
<1>4. Genuine(n, known, Accepted(F))
  <2>1. PICK op \in known : ~IsProductOp(op) /\ m = NewMove(op, m.delta, m.status)
    BY DEF Good, GoodMoves, Genuine
  <2>2. n = NewMove(op, delta, status)
    <3>1. n = [id |-> n.id, product |-> n.product, kind |-> n.kind, delta |-> n.delta,
               counted |-> n.counted, at |-> n.at, status |-> n.status]
      <4> HIDE DEF n
      <4> QED BY <1>2 DEF LocalMove
    <3>2. /\ n.id = m.id /\ n.product = m.product /\ n.kind = m.kind /\ n.counted = m.counted
          /\ n.at = m.at
      BY <1>1 DEF LocalMove, Corrected
    <3>3. /\ m.id = op.id /\ m.product = op.product /\ m.kind = op.kind
          /\ m.counted = op.counted /\ m.at = op.at
      BY <2>1 DEF NewMove
    <3> HIDE DEF n
    <3> QED BY <1>2, <3>1, <3>2, <3>3 DEF NewMove
  <2> QED BY <1>2, <2>1, <2>2 DEF Genuine
<1> HIDE DEF n
<1>5. moves \in SUBSET LocalMove /\ IsFiniteSet(moves)
  <2>1. IsFiniteSet(b.moves \ {m})
    BY <1>1, FS_Subset
  <2> QED BY <1>1, <1>2, <2>1, FS_AddElement
<1>6. \A x \in moves : (x \in b.moves /\ x.id # m.id) \/ x = n
  BY <1>3
<1>7. n \notin b.moves \ {m}
  BY <1>2, <1>3
<1>8. n \in moves /\ \A x \in b.moves : x # m => x \in moves
  OBVIOUS
<1>9. \A p \in Products : balance[p] = Total(Of(moves, p))
  <2> TAKE p \in Products
  <2>1. b.balance[p] = Total(Of(b.moves, p))
    BY BalancesAreOf DEF Good
  <2> QED BY <1>1, <1>2, <1>7, <2>1, LedgerCorrects
<1>10. \A x, y \in moves : x.id = y.id => x = y
  BY <1>2, <1>3, <1>6
<1>11. \A x \in moves : Genuine(x, known, Accepted(F))
  BY <1>4, <1>6 DEF Good, GoodMoves
<1> HIDE DEF moves
<1>12. /\ e \in Database /\ e.moves = moves /\ e.balance = balance /\ e.queue = b.queue
       /\ e.conflicts = b.conflicts /\ e.rows = b.rows /\ e.cursor = b.cursor
  BY <1>1, <1>5 DEF Database, Moved, moves, n
<1> HIDE DEF e
<1>13. GoodMoves(e, known, Accepted(F)) /\ GoodBalance(e)
  BY <1>5, <1>9, <1>10, <1>11, <1>12, BalancesAreOf DEF GoodMoves
<1>14. KeepsHeld(b, e, F)
  <2>1. SUFFICES ASSUME NEW s \in DOMAIN F, NEW x \in b.moves, x.id = F[s].op.id,
                        x.delta = F[s].delta
                 PROVE  \E y \in e.moves : y.id = F[s].op.id /\ y.delta = F[s].delta
    BY DEF KeepsHeld, Holds
  <2> QED BY <1>2, <1>8, <1>12, <2>1
<1>15. Good(e, own, known, Accepted(F)) /\ Follows(b, e, F)
  BY <1>12, <1>13, <1>14, MovesApart
<1> QED BY <1>8, <1>12, <1>15 DEF e, moves, n

(* The movement of an operation is the one its id names. *)
LEMMA MineIsMine ==
    ASSUME NEW own, NEW known, Family(own, known), NEW acc, NEW b, GoodMoves(b, known, acc),
           NEW op \in known, ~IsProductOp(op), HasConsequence(b, op)
    PROVE  LET m == Mine(b, op.id) IN m \in b.moves /\ m.id = op.id /\ m.product = op.product
<1> DEFINE m == Mine(b, op.id)
<1>1. m \in b.moves /\ m.id = op.id
  BY DEF HasConsequence, Mine
<1> HIDE DEF m
<1>2. PICK other \in known : ~IsProductOp(other) /\ m = NewMove(other, m.delta, m.status)
  BY <1>1 DEF GoodMoves, Genuine
<1>3. other.id = op.id /\ m.product = other.product
  BY <1>1, <1>2 DEF NewMove
<1>4. other.product = op.product
  BY <1>3 DEF Family, Alike
<1> QED BY <1>1, <1>3, <1>4 DEF m

(* The row or movement of an operation gets a status. *)
LEMMA StatusSet ==
    ASSUME NEW own, NEW known, NEW F, World(own, known, F),
           NEW b, Good(b, own, known, Accepted(F)), NEW op \in own, NEW status \in SyncStatus,
           status = "synced" => op.id \in Accepted(F)
    PROVE  LET e == SetLocalStatus(b, op, status) IN
           /\ Good(e, own, known, Accepted(F)) /\ Follows(b, e, F)
           /\ e.queue = b.queue /\ e.conflicts = b.conflicts
<1> DEFINE e == SetLocalStatus(b, op, status)
<1>1. b \in Database /\ op \in known /\ op.product \in Products
  BY DEF Good, World, Family, Operation
<1>2. CASE ~HasConsequence(b, op)
  BY <1>2, FollowsItself DEF SetLocalStatus
<1>3. CASE HasConsequence(b, op) /\ IsProductOp(op)
  <2> DEFINE row == [b.rows[op.product] EXCEPT !.status = status]
  <2>1. b.rows[op.product] \in LocalRow
    BY <1>1, <1>3 DEF HasConsequence, Database
  <2>2. row \in LocalRow
    BY <2>1 DEF LocalRow
  <2>3. e = [b EXCEPT !.rows[op.product] = row]
    BY <1>1, <1>3 DEF SetLocalStatus, Database
  <2> HIDE DEF row, e
  <2> QED BY <1>1, <2>2, <2>3, RowWritten DEF e
<1>4. CASE HasConsequence(b, op) /\ ~IsProductOp(op)
  <2> DEFINE m == Mine(b, op.id)
             n == [m EXCEPT !.status = status]
  <2>1. m \in b.moves /\ m.id = op.id /\ m \in LocalMove
    BY <1>1, <1>4, MineIsMine DEF Good, World, Database
  <2>2. e = [b EXCEPT !.moves = (b.moves \ {m}) \cup {n}]
    BY <1>4 DEF SetLocalStatus
  <2> HIDE DEF m
  <2>3. n = Corrected(m, m.delta, status) /\ m.delta \in Int
    BY <2>1 DEF LocalMove, Corrected
  <2>4. b.balance \in [Products -> Int]
    BY <1>1 DEF Database
  <2>5. e = Moved(b, m, m.delta, status, b.balance)
    BY <1>1, <2>2, <2>3 DEF Database, Moved
  <2>6. \A p \in Products :
          b.balance[p] = b.balance[p] + IF m.product = p THEN m.delta - m.delta ELSE 0
    BY <2>3, <2>4
  <2> HIDE DEF e, n
  <2> QED BY <2>1, <2>3, <2>4, <2>5, <2>6, MoveChanged DEF e
<1> QED BY <1>2, <1>3, <1>4

(* The canonical state of an accepted operation. *)
LEMMA CanonicalApplied ==
    ASSUME NEW own, NEW known, NEW F, World(own, known, F),
           NEW b, Good(b, own, known, Accepted(F)), NEW op \in own,
           NEW s \in DOMAIN F, F[s].op.id = op.id, ApplyCanonical(b, op, F[s]) # None
    PROVE  LET e == ApplyCanonical(b, op, F[s]) IN
           /\ Good(e, own, known, Accepted(F)) /\ Follows(b, e, F)
           /\ e.queue = b.queue /\ e.conflicts = b.conflicts
           /\ ~IsProductOp(F[s].op) => Holds(e, F[s])
<1> DEFINE e == ApplyCanonical(b, op, F[s])
<1>1. /\ b \in Database /\ op \in known /\ op.product \in Products
      /\ F[s].op \in known /\ F[s] \in Change /\ op.id \in Accepted(F)
  BY DEF Good, World, Family, FeedOk, Operation, Accepted
<1>2. /\ IsProductOp(op) <=> IsProductOp(F[s].op)
      /\ IsProductOp(op) => F[s].image \in Image
  BY <1>1 DEF World, Family, FeedOk, Alike
<1>3. b.rows[op.product] # None
  BY DEF ApplyCanonical
<1>4. CASE IsProductOp(op)
  <2> DEFINE row == ToLocal(F[s].image, "synced")
  <2>1. HasConsequence(b, op)
    BY <1>3, <1>4 DEF HasConsequence
  <2>2. e = [b EXCEPT !.rows[op.product] = row]
    BY <1>3, <1>4, <2>1 DEF ApplyCanonical
  <2>3. row \in LocalRow
    BY <1>2, <1>4 DEF ToLocal, LocalRow, Image, SyncStatus
  <2> HIDE DEF row, e
  <2> QED BY <1>1, <1>2, <1>4, <2>2, <2>3, RowWritten DEF e
<1>5. CASE ~IsProductOp(op) /\ ~HasConsequence(b, op)
  <2> DEFINE m == NewMove(op, F[s].delta, "synced")
  <2>1. e = WithMove(b, m)
    BY <1>3, <1>5 DEF ApplyCanonical, InsertCanonical
  <2>2. /\ m \in LocalMove /\ Genuine(m, known, Accepted(F)) /\ m.id = F[s].op.id
        /\ m.delta = F[s].delta
    BY <1>1, <1>2, <1>5, Canonical
  <2>3. \A x \in b.moves : x.id # m.id
    BY <1>5, <2>2 DEF HasConsequence
  <2> HIDE DEF m, e
  <2>4. /\ Good(e, own, known, Accepted(F)) /\ Follows(b, e, F) /\ m \in e.moves
        /\ e.queue = b.queue /\ e.conflicts = b.conflicts
    BY <2>1, <2>2, <2>3, MoveAppended
  <2> QED BY <2>2, <2>4 DEF Holds, e
<1>6. CASE ~IsProductOp(op) /\ HasConsequence(b, op)
  <2> DEFINE m == Mine(b, op.id)
             n == Corrected(m, F[s].delta, "synced")
             balance == [b.balance EXCEPT ![op.product] = @ + F[s].delta - m.delta]
  <2>1. m \in b.moves /\ m.id = op.id /\ m.product = op.product /\ m \in LocalMove
    BY <1>1, <1>6, MineIsMine DEF Good, World, Database
  <2>2. F[s].delta \in Int /\ m.delta \in Int /\ b.balance \in [Products -> Int]
    BY <1>1, <2>1 DEF Change, LocalMove, Database
  <2>3. e = Moved(b, m, F[s].delta, "synced", balance)
    BY <1>1, <1>3, <1>6 DEF ApplyCanonical, Database, Moved, Corrected
  <2> HIDE DEF m
  <2>4. balance \in [Products -> Int]
    BY <1>1, <2>2
  <2>5. \A p \in Products :
          balance[p] = b.balance[p] + IF m.product = p THEN F[s].delta - m.delta ELSE 0
    BY <1>1, <2>1, <2>2
  <2>6. \A k \in DOMAIN F : F[k].op.id = m.id => F[s].delta = F[k].delta
    BY <2>1 DEF World, FeedOk
  <2>7. "synced" \in SyncStatus /\ n.id = F[s].op.id /\ n.delta = F[s].delta
    BY <2>1 DEF SyncStatus, LocalMove, Corrected
  <2> HIDE DEF balance, e, n
  <2>8. /\ Good(e, own, known, Accepted(F)) /\ Follows(b, e, F) /\ n \in e.moves
        /\ e.queue = b.queue /\ e.conflicts = b.conflicts
    BY <1>1, <2>1, <2>2, <2>3, <2>4, <2>5, <2>6, <2>7, MoveChanged DEF n
  <2> QED BY <2>7, <2>8 DEF Holds, e
<1> QED BY <1>4, <1>5, <1>6
-----------------------------------------------------------------------------
(* Conflicts and follow-ups. *)

(* Good, but for the follow-up with an id, which is not queued yet.         *)
GoodBut(b, own, known, acc, id) ==
    /\ b \in Database
    /\ GoodMoves(b, known, acc)
    /\ GoodBalance(b)
    /\ GoodQueue(b, own)
    /\ GoodConflicts(b, own, known)
    /\ \A c \in b.conflicts :
        c.resolution = "auto_merged" => Lives(b, NextId(c.op.id), acc) \/ NextId(c.op.id) = id
    /\ GoodLinks(b)

(* A good database is good but for any follow-up. *)
LEMMA GoodIsGoodBut ==
    ASSUME NEW b, NEW own, NEW known, NEW acc, Good(b, own, known, acc), NEW id
    PROVE  GoodBut(b, own, known, acc, id)
BY DEF Good, GoodBut, GoodMerges

(* Follow-ups of different operations have different ids. *)
LEMMA NextIdIsOne ==
    ASSUME NEW id \in OpId, NEW other \in OpId, NextId(id) = NextId(other)
    PROVE  id = other
<1>1. id = <<id[1], id[2]>> /\ other = <<other[1], other[2]>> /\ id[2] \in Nat /\ other[2] \in Nat
  BY DEF OpId
<1>2. id[1] = other[1] /\ id[2] + 1 = other[2] + 1
  BY DEF NextId
<1>3. id[2] = other[2]
  BY <1>1, <1>2
<1> QED BY <1>1, <1>2, <1>3

(* The id of a follow-up. *)
LEMMA NextIdType ==
    ASSUME NEW id \in OpId
    PROVE  NextId(id) \in OpId /\ NextId(id)[1] = id[1] /\ NextId(id)[2] = id[2] + 1 /\ NextId(id)[2] > 0
BY DEF NextId, OpId

(* A follow-up is not there before the conflict it follows from is settled. *)
LEMMA FollowUpIsNew ==
    ASSUME NEW own, NEW known, Family(own, known), NEW acc, NEW id \in OpId,
           NEW b, GoodBut(b, own, known, acc, NextId(id)),
           \A c \in b.conflicts : c.op.id = id => c.resolution \notin {"auto_merged", "resolved"}
    PROVE  NextId(id) \notin QueuedIds(b) /\ ~HasConflict(b, NextId(id))
<1>1. NextId(id)[2] > 0
  BY NextIdType
<1>2. ~Explained(b, NextId(id))
  <2>1. SUFFICES ASSUME NEW e \in b.conflicts, NextId(e.op.id) = NextId(id),
                        e.resolution \in {"auto_merged", "resolved"}
                 PROVE  FALSE
    BY <1>1 DEF Explained
  <2>2. e.op.id \in OpId
    BY DEF GoodBut, Database, Conflict, Operation
  <2>3. e.op.id = id
    BY <2>1, <2>2, NextIdIsOne
  <2> QED BY <2>1, <2>3
<1> QED BY <1>2 DEF GoodBut, GoodLinks, GoodConflicts, QueuedIds, HasConflict

(* An operation of the device that is new is queued. *)
LEMMA Enqueued ==
    ASSUME NEW own, NEW known, NEW F, Family(own, known), NEW next \in own,
           NEW b, GoodBut(b, own, known, Accepted(F), next.id),
           next.id \notin QueuedIds(b), ~HasConflict(b, next.id), Explained(b, next.id)
    PROVE  LET e == Enqueue(b, next) IN
           /\ Good(e, own, known, Accepted(F)) /\ Follows(b, e, F)
           /\ next.id \in QueuedIds(e) /\ QueuedIds(b) \subseteq QueuedIds(e)
           /\ e.rows = b.rows /\ e.moves = b.moves /\ e.conflicts = b.conflicts
<1> DEFINE e == Enqueue(b, next)
           new == [op |-> next, status |-> "queued"]
           q == Append(b.queue, new)
           L == Len(b.queue)
<1>1. b \in Database /\ b.queue \in Seq(QueueRow) /\ next \in Operation
  BY DEF GoodBut, Database, Family
<1>2. new \in QueueRow
  BY <1>1 DEF QueueRow
<1>3. /\ q \in Seq(QueueRow) /\ L \in Nat /\ DOMAIN b.queue = 1..L /\ DOMAIN q = 1..(L + 1)
      /\ q[L + 1] = new /\ \A n \in 1..L : q[n] = b.queue[n]
  <2> HIDE DEF new, QueueRow
  <2> QED BY <1>1, <1>2
<1>4. e = [b EXCEPT !.queue = q]
  BY DEF Enqueue
<1>5. \A n \in DOMAIN q :
         \/ n \in DOMAIN b.queue /\ q[n] = b.queue[n]
         \/ n = L + 1 /\ q[n] = new
  <2> HIDE DEF q, new, L
  <2> TAKE n \in DOMAIN q
  <2>1. n \in 1..(L + 1) /\ L \in Nat
    BY <1>3
  <2>2. n \in 1..L \/ n = L + 1
    BY ONLY <2>1
  <2>3. CASE n \in 1..L
    <3>1. q[n] = b.queue[n]
      BY <1>3, <2>3
    <3>2. n \in DOMAIN b.queue
      BY <1>3, <2>3
    <3> QED BY <3>1, <3>2
  <2>4. CASE n = L + 1
    BY <1>3, <2>4
  <2> QED BY <2>2, <2>3, <2>4
<1>6. new.op = next /\ new.status = "queued"
  OBVIOUS
<1> HIDE DEF q, e, new
<1>7. /\ e \in Database /\ e.queue = q /\ e.conflicts = b.conflicts /\ e.moves = b.moves
      /\ e.balance = b.balance /\ e.rows = b.rows /\ e.cursor = b.cursor
  BY <1>1, <1>3, <1>4 DEF Database
<1>8. L + 1 \in DOMAIN q /\ \A n \in DOMAIN b.queue : n \in DOMAIN q /\ q[n] = b.queue[n]
  BY <1>3
<1>9. next.id \in QueuedIds(e) /\ QueuedIds(b) \subseteq QueuedIds(e)
  BY <1>3, <1>6, <1>7, <1>8 DEF QueuedIds
<1>10. GoodQueue(e, own)
  <2>1. \A n \in DOMAIN q : q[n].op \in own
    BY <1>5, <1>6 DEF GoodBut, GoodQueue
  <2>2. \A n \in DOMAIN b.queue : b.queue[n].op.id # next.id
    BY DEF QueuedIds
  <2>3. ASSUME NEW n \in DOMAIN q, NEW k \in DOMAIN q, q[n].op.id = q[k].op.id PROVE n = k
    <3>1. CASE n \in DOMAIN b.queue /\ q[n] = b.queue[n]
      BY <1>5, <1>6, <2>2, <2>3, <3>1 DEF GoodBut, GoodQueue
    <3>2. CASE n = L + 1 /\ q[n] = new
      BY <1>5, <1>6, <2>2, <2>3, <3>2
    <3> QED BY <1>5, <3>1, <3>2
  <2> QED BY <1>7, <2>1, <2>3 DEF GoodQueue
<1>11. GoodMoves(e, known, Accepted(F)) /\ GoodConflicts(e, own, known) /\ GoodBalance(e)
  BY <1>7, SameMoves, SameConflicts DEF GoodBut, GoodBalance
<1>12. GoodMerges(e, Accepted(F))
  BY <1>7, <1>9 DEF GoodBut, GoodMerges, Lives
<1>13. GoodLinks(e)
  BY <1>5, <1>6, <1>7 DEF GoodBut, GoodLinks, HasConflict, Explained
<1>14. Follows(b, e, F)
  BY <1>7, <1>9, SameMoves, SameConflicts DEF Follows, KeepsQueued, KeepsHeld, KeepsShown
<1> QED BY <1>7, <1>9, <1>10, <1>11, <1>12, <1>13, <1>14 DEF Good, e

(* A rejected operation stays in the queue, blocked, with its conflict.     *)
Blocked(b, op, c) == WithConflict(Restatus(b, {op.id}, "inflight", "blocked"), c)

(* The rejected operation is blocked and its conflict is there. *)
LEMMA OperationBlocked ==
    ASSUME NEW own, NEW known, NEW F, Family(own, known), NEW op \in own,
           NEW b, Good(b, own, known, Accepted(F)), StatusOf(b, op.id) = {"inflight"},
           NEW c \in Conflict, c.op = op, Choosable(c, own)
    PROVE  LET e == Blocked(b, op, c) IN
           /\ GoodBut(e, own, known, Accepted(F), NextId(op.id)) /\ Follows(b, e, F)
           /\ c.resolution # "auto_merged" => Good(e, own, known, Accepted(F))
           /\ e.rows = b.rows /\ c \in e.conflicts
           /\ NextId(op.id) \notin QueuedIds(e) /\ ~HasConflict(e, NextId(op.id))
<1> DEFINE e == Blocked(b, op, c)
           q == [n \in DOMAIN b.queue |->
                    IF b.queue[n].op.id \in {op.id} /\ b.queue[n].status = "inflight"
                    THEN [b.queue[n] EXCEPT !.status = "blocked"] ELSE b.queue[n]]
           cs == {x \in b.conflicts : x.op.id # c.op.id} \cup {c}
<1>1. /\ b \in Database /\ b.queue \in Seq(QueueRow) /\ b.conflicts \in SUBSET Conflict
      /\ GoodQueue(b, own) /\ GoodConflicts(b, own, known) /\ GoodMerges(b, Accepted(F))
      /\ GoodLinks(b) /\ op \in known /\ op \in Operation /\ op.id \in OpId
  BY DEF Good, Database, Family, Operation
<1>2. PICK i \in DOMAIN b.queue :
         /\ b.queue[i].op.id = op.id /\ b.queue[i].status = "inflight"
         /\ \A k \in DOMAIN b.queue : b.queue[k].op.id = op.id => k = i
  BY <1>1 DEF StatusOf, GoodQueue
<1>3. ~HasConflict(b, op.id) /\ Explained(b, op.id)
  BY <1>1, <1>2 DEF GoodLinks
<1>4. ASSUME NEW n \in DOMAIN b.queue
      PROVE  /\ q[n] \in QueueRow /\ q[n].op = b.queue[n].op
             /\ q[n].status = IF n = i THEN "blocked" ELSE b.queue[n].status
  <2>1. b.queue[n] \in QueueRow
    BY <1>1
  <2> QED BY <1>2, <2>1 DEF QueueRow
<1>5. q \in Seq(QueueRow) /\ DOMAIN q = DOMAIN b.queue
  <2>1. DOMAIN q = DOMAIN b.queue /\ q = [n \in DOMAIN b.queue |-> q[n]]
    OBVIOUS
  <2> HIDE DEF q
  <2> QED BY <1>1, <1>4, <2>1, QueueMapped
<1>6. cs = b.conflicts \cup {c}
  BY <1>3 DEF HasConflict
<1>7. e = [b EXCEPT !.queue = q, !.conflicts = cs]
  BY <1>1 DEF Blocked, WithConflict, Restatus, Database
<1> HIDE DEF q, cs, e
<1>8. /\ e \in Database /\ e.queue = q /\ e.conflicts = cs /\ e.moves = b.moves
      /\ e.balance = b.balance /\ e.rows = b.rows /\ e.cursor = b.cursor
  BY <1>1, <1>5, <1>6, <1>7 DEF Database
<1>9. GoodQueue(e, own) /\ QueuedIds(e) = QueuedIds(b)
  BY <1>1, <1>4, <1>5, <1>8, RelabeledQueue
<1>10. \A id : Explained(b, id) => Explained(e, id)
  BY <1>6, <1>8 DEF Explained
<1>11. GoodConflicts(e, own, known)
  <2>1. \A x, y \in cs : x.op.id = y.op.id => x = y
    BY <1>1, <1>3, <1>6 DEF GoodConflicts, HasConflict
  <2>2. \A x \in cs : x.op \in known /\ Choosable(x, own) /\ Explained(e, x.op.id)
    BY <1>1, <1>3, <1>6, <1>10 DEF GoodConflicts
  <2> QED BY <1>8, <2>1, <2>2 DEF GoodConflicts
<1>12. GoodLinks(e)
  <2>1. ASSUME NEW n \in DOMAIN b.queue
        PROVE  /\ q[n].status = "blocked" <=> HasConflict(e, q[n].op.id)
               /\ Explained(e, q[n].op.id)
    <3>1. /\ b.queue[n].status = "blocked" <=> HasConflict(b, b.queue[n].op.id)
          /\ Explained(b, b.queue[n].op.id)
      BY <1>1 DEF GoodLinks
    <3>2. HasConflict(e, b.queue[n].op.id) <=> HasConflict(b, b.queue[n].op.id) \/ n = i
      BY <1>2, <1>6, <1>8 DEF HasConflict
    <3> QED BY <1>4, <1>10, <3>1, <3>2
  <2> QED BY <1>5, <1>8, <2>1 DEF GoodLinks
<1>13. \A x \in cs : x.resolution = "auto_merged" =>
          Lives(e, NextId(x.op.id), Accepted(F)) \/ (x = c /\ NextId(x.op.id) = NextId(op.id))
  BY <1>1, <1>6, <1>9 DEF GoodMerges, Lives
<1>14. GoodMoves(e, known, Accepted(F)) /\ GoodBalance(e)
  BY <1>8, SameMoves DEF Good, GoodBalance
<1>15. GoodBut(e, own, known, Accepted(F), NextId(op.id))
  BY <1>8, <1>9, <1>11, <1>12, <1>13, <1>14 DEF GoodBut
<1>16. c.resolution # "auto_merged" => Good(e, own, known, Accepted(F))
  BY <1>8, <1>9, <1>11, <1>12, <1>13, <1>14 DEF Good, GoodMerges
<1>17. Follows(b, e, F)
  <2>1. KeepsShown(b, e, F)
    BY <1>6, <1>8 DEF KeepsShown, Shown
  <2> QED BY <1>8, <1>9, <2>1, SameMoves DEF Follows, KeepsQueued, KeepsHeld
<1>18. NextId(op.id) \notin QueuedIds(b) /\ ~HasConflict(b, NextId(op.id))
  <2>1. \A x \in b.conflicts : x.op.id = op.id => x.resolution \notin {"auto_merged", "resolved"}
    BY <1>3 DEF HasConflict
  <2>2. GoodBut(b, own, known, Accepted(F), NextId(op.id))
    BY GoodIsGoodBut
  <2> QED BY <1>1, <2>1, <2>2, FollowUpIsNew
<1>19. NextId(op.id) # op.id
  <2>1. NextId(op.id)[2] = op.id[2] + 1 /\ op.id[2] \in Nat
    BY <1>1, NextIdType DEF OpId
  <2> QED BY <2>1
<1>20. NextId(op.id) \notin QueuedIds(e) /\ ~HasConflict(e, NextId(op.id)) /\ c \in e.conflicts
  BY <1>6, <1>8, <1>9, <1>18, <1>19 DEF HasConflict
<1> QED BY <1>8, <1>15, <1>16, <1>17, <1>20 DEF e

(* An edit on top of a canonical row, and the optimistic row it leaves.     *)
LEMMA FollowUpQueued ==
    ASSUME NEW own, NEW known, NEW F, Family(own, known), NEW op \in own, IsProductOp(op),
           NEW b, GoodBut(b, own, known, Accepted(F), NextId(op.id)),
           NextId(op.id) \notin QueuedIds(b), ~HasConflict(b, NextId(op.id)),
           Explained(b, NextId(op.id)), NEW fields \in Payload, NEW state \in Image
    PROVE  LET e == FollowUp(b, op, fields, state) IN
           Good(e, own, known, Accepted(F)) /\ Follows(b, e, F)
<1> DEFINE next == [op EXCEPT !.id = <<@[1], @[2] + 1>>, !.kind = "edit", !.base = state.version,
                              !.fields = fields, !.basis = state.fields]
           row == OptimisticRow(b, next)
           g == Enqueue(b, next)
           e == FollowUp(b, op, fields, state)
<1>1. op \in Operation /\ op.id \in OpId /\ op.product \in Products /\ b \in Database
  BY DEF Family, Operation, GoodBut
<1>2. state.version \in Nat \ {0} /\ state.fields \in Payload
  BY DEF Image
<1>3. /\ next \in Operation /\ next.id = NextId(op.id) /\ next.product = op.product
      /\ next.kind = "edit" /\ next.base = state.version /\ next.fields = fields
      /\ next.basis = state.fields
  <2>1. <<op.id[1], op.id[2] + 1>> \in OpId
    BY <1>1 DEF OpId
  <2> QED BY <1>1, <1>2, <2>1 DEF Operation, NextId, Kinds
<1> HIDE DEF next
<1>4. next \in own
  BY <1>2, <1>3 DEF Family, Continues
<1>5. row \in LocalRow
  BY <1>2, <1>3 DEF OptimisticRow, LocalRow, SyncStatus
<1>6. Good(g, own, known, Accepted(F)) /\ Follows(b, g, F)
  BY <1>3, <1>4, Enqueued
<1>7. e = [g EXCEPT !.rows[op.product] = row]
  BY <1>1, <1>3 DEF FollowUp, Enqueue, Database, next
<1> HIDE DEF e, g, row
<1>8. Good(e, own, known, Accepted(F)) /\ Follows(g, e, F)
  BY <1>1, <1>5, <1>6, <1>7, RowWritten
<1> QED BY <1>6, <1>8, FollowsOn DEF e

(* What is known of a verdict on an operation of a request. *)
OpFits(op) == op.kind \in {"create", "edit"} => op.fields \in Payload
ResultFits(op, r, F) ==
    /\ r \in Outcome
    /\ r.applied =>
        r.seq \in DOMAIN F /\ F[r.seq].op.id = op.id /\ r.displaced = F[r.seq].displaced
    /\ ~r.applied /\ r.reason = "version_conflict" => r.state \in Image /\ IsProductOp(op)
    /\ ~r.applied /\ r.reason = "barcode_conflict" => op.kind \in {"create", "edit"}

(* A merge is made of a verdict with a canonical row. *)
LEMMA MergeType ==
    ASSUME NEW b, NEW op, OpFits(op), NEW r \in Outcome, MergeOf(b, op, r) # None
    PROVE  MergeOf(b, op, r) \in Payload /\ r.state \in Image /\ IsProductOp(op)
<1>1. /\ op.kind = "edit" /\ r.state # None /\ r.state \in Image
      /\ MergeOf(b, op, r) = Merged(op.basis, op.fields, r.state.fields)
  BY DEF MergeOf, Outcome
<1>2. op.fields \in Payload /\ r.state.fields \in Payload
  BY <1>1 DEF OpFits, Image
<1>3. MergeOf(b, op, r)
        = [f \in Fields |-> IF f \in Changed(op.basis, op.fields) THEN op.fields[f]
                            ELSE r.state.fields[f]]
  BY <1>1 DEF Merged
<1>4. MergeOf(b, op, r) \in Payload
  BY <1>2, <1>3 DEF Payload
<1> QED BY <1>1, <1>4 DEF IsProductOp

(* A rejected operation is kept: blocked, merged, or met by a tombstone. *)
LEMMA Retained ==
    ASSUME NEW own, NEW known, NEW F, World(own, known, F), NEW op \in own, OpFits(op),
           NEW b, Good(b, own, known, Accepted(F)), StatusOf(b, op.id) = {"inflight"},
           NEW r, ResultFits(op, r, F), ~r.applied, Retain(b, op, r) # None
    PROVE  LET e == Retain(b, op, r) IN Good(e, own, known, Accepted(F)) /\ Follows(b, e, F)
<1> DEFINE merge == MergeOf(b, op, r)
           c == [op |-> op, reason |-> r.reason, server |-> r.state,
                 resolution |-> IF merge = None THEN "unresolved" ELSE "auto_merged"]
           kept == Blocked(b, op, c)
           marked == SetLocalStatus(kept, op, "conflict")
           e == Retain(b, op, r)
<1>1. op \in Operation /\ op.id \in OpId /\ op.product \in Products /\ r \in Outcome
  BY DEF World, Family, Operation, ResultFits
<1>2. /\ c \in Conflict /\ c.op = op
      /\ c.resolution = IF merge = None THEN "unresolved" ELSE "auto_merged"
  <2> HIDE DEF merge
  <2> QED BY <1>1 DEF Conflict, Outcome
<1>3. Choosable(c, own)
  BY <1>1, <1>2 DEF Choosable, ResultFits, OpFits
<1>4. e = IF merge # None THEN FollowUp(kept, op, merge, r.state)
          ELSE IF IsProductOp(op) /\ r.state # None /\ r.state.deleted
          THEN ApplyProduct(marked, op.product, r.state)
          ELSE marked
  BY DEF Retain, Blocked
<1> HIDE DEF c, e
<1>5. /\ GoodBut(kept, own, known, Accepted(F), NextId(op.id)) /\ Follows(b, kept, F)
      /\ c.resolution # "auto_merged" => Good(kept, own, known, Accepted(F))
      /\ c \in kept.conflicts
      /\ NextId(op.id) \notin QueuedIds(kept) /\ ~HasConflict(kept, NextId(op.id))
  BY <1>2, <1>3, OperationBlocked DEF World
<1> HIDE DEF kept, merge
<1>6. CASE merge # None
  <2>1. merge \in Payload /\ r.state \in Image /\ IsProductOp(op)
    BY <1>1, <1>6, MergeType DEF merge
  <2>2. Explained(kept, NextId(op.id))
    BY <1>2, <1>5, <1>6 DEF Explained
  <2>3. e = FollowUp(kept, op, merge, r.state)
    BY <1>4, <1>6
  <2>4. Good(e, own, known, Accepted(F)) /\ Follows(kept, e, F)
    BY <1>5, <2>1, <2>2, <2>3, FollowUpQueued DEF World
  <2> QED BY <1>5, <2>4, FollowsOn DEF e
<1>7. CASE merge = None
  <2>1. Good(kept, own, known, Accepted(F))
    BY <1>2, <1>5, <1>7
  <2>2. Good(marked, own, known, Accepted(F)) /\ Follows(kept, marked, F)
    <3>1. "conflict" \in SyncStatus /\ "conflict" # "synced"
      BY DEF SyncStatus
    <3> QED BY <2>1, <3>1, StatusSet
  <2> HIDE DEF marked
  <2>3. Good(e, own, known, Accepted(F)) /\ Follows(marked, e, F)
    <3>1. CASE IsProductOp(op) /\ r.state # None /\ r.state.deleted
      <4>1. e = ApplyProduct(marked, op.product, r.state) /\ r.state \in Image
        BY <1>1, <1>4, <1>7, <3>1 DEF Outcome
      <4>2. e # None
        BY DEF e
      <4> QED BY <1>1, <2>2, <4>1, <4>2, ProductApplied
    <3>2. CASE ~(IsProductOp(op) /\ r.state # None /\ r.state.deleted)
      <4>1. e = marked
        BY <1>4, <1>7, <3>2
      <4> QED BY <2>2, <4>1, FollowsItself
    <3> QED BY <3>1, <3>2
  <2>4. Follows(b, e, F)
    BY <1>5, <2>2, <2>3, FollowsOn
  <2> QED BY <2>3, <2>4 DEF e
<1> QED BY <1>6, <1>7

(* An accepted operation leaves the queue. *)
LEMMA Dequeued ==
    ASSUME NEW own, NEW known, NEW F, NEW b, Good(b, own, known, Accepted(F)),
           NEW id \in Accepted(F)
    PROVE  LET e == Dequeue(b, id) IN
           /\ Good(e, own, known, Accepted(F)) /\ Follows(b, e, F)
           /\ e.moves = b.moves /\ e.conflicts = b.conflicts
<1> DEFINE I == {n \in DOMAIN b.queue : b.queue[n].op.id # id}
           q == At(b.queue, I)
           e == Dequeue(b, id)
<1>1. b \in Database /\ b.queue \in Seq(QueueRow)
  BY DEF Good, Database
<1>2. I \in SUBSET DOMAIN b.queue
  OBVIOUS
<1>3. /\ q \in Seq(QueueRow)
      /\ \A m \in DOMAIN q : \E n \in I : q[m] = b.queue[n]
      /\ \A n \in I : \E m \in DOMAIN q : q[m] = b.queue[n]
      /\ \A m, k \in DOMAIN q : m # k =>
            \E i, j \in I : i # j /\ q[m] = b.queue[i] /\ q[k] = b.queue[j]
  <2>1. b.queue \in Seq(QueueRow)
    BY <1>1
  <2> DEFINE rows == b.queue
             T == QueueRow
  <2> HIDE DEF I, T, rows
  <2>2. rows \in Seq(T) /\ I \in SUBSET DOMAIN rows
    BY <1>2, <2>1 DEF rows, T
  <2>3. /\ At(rows, I) \in Seq(T)
        /\ \A m \in DOMAIN At(rows, I) : \E n \in I : At(rows, I)[m] = rows[n]
        /\ \A n \in I : \E m \in DOMAIN At(rows, I) : At(rows, I)[m] = rows[n]
        /\ \A m, k \in DOMAIN At(rows, I) : m # k =>
              \E i, j \in I : i # j /\ At(rows, I)[m] = rows[i] /\ At(rows, I)[k] = rows[j]
    BY <2>2, AtElements
  <2> QED BY <2>3 DEF rows, T
<1>4. e = [b EXCEPT !.queue = q]
  BY DEF Dequeue
<1>5. \A n \in I : n \in DOMAIN b.queue
  OBVIOUS
<1>6. \A n \in DOMAIN b.queue : n \in I \/ b.queue[n].op.id = id
  OBVIOUS
<1> HIDE DEF I, q, e
<1>7. /\ e \in Database /\ e.queue = q /\ e.conflicts = b.conflicts /\ e.moves = b.moves
      /\ e.balance = b.balance /\ e.rows = b.rows /\ e.cursor = b.cursor
  BY <1>1, <1>3, <1>4 DEF Database
<1>8. GoodQueue(e, own)
  <2>1. \A m \in DOMAIN q : q[m].op \in own
    BY <1>3, <1>5 DEF Good, GoodQueue
  <2>2. ASSUME NEW m \in DOMAIN q, NEW k \in DOMAIN q, q[m].op.id = q[k].op.id, m # k
        PROVE  FALSE
    <3>1. PICK i, j \in I : i # j /\ q[m] = b.queue[i] /\ q[k] = b.queue[j]
      BY <1>3, <2>2
    <3> QED BY <1>5, <2>2, <3>1 DEF Good, GoodQueue
  <2> QED BY <1>7, <2>1, <2>2 DEF GoodQueue
<1>9. QueuedIds(b) \subseteq QueuedIds(e) \cup {id}
  BY <1>3, <1>6, <1>7 DEF QueuedIds
<1>10. GoodMoves(e, known, Accepted(F)) /\ GoodConflicts(e, own, known) /\ GoodBalance(e)
  BY <1>7, SameMoves, SameConflicts DEF Good, GoodBalance
<1>11. GoodMerges(e, Accepted(F))
  BY <1>7, <1>9 DEF Good, GoodMerges, Lives
<1>12. GoodLinks(e)
  BY <1>3, <1>5, <1>7 DEF Good, GoodLinks, HasConflict, Explained
<1>13. Follows(b, e, F)
  BY <1>7, <1>9, SameMoves, SameConflicts DEF Follows, KeepsQueued, KeepsHeld, KeepsShown
<1> QED BY <1>7, <1>8, <1>10, <1>11, <1>12, <1>13 DEF Good, e

(* The page of a response holds changes of the feed. *)
PageOf(page, F) == \A s \in DOMAIN page : s \in DOMAIN F /\ page[s] = F[s]

(* What one result leaves: an accepted movement of the page is held with   *)
(* its canonical delta, and the stocktakes it displaced are shown.         *)
Recorded(e, r, page, F) ==
    r.applied =>
        /\ Shown(e, F[r.seq])
        /\ r.seq \in DOMAIN page /\ ~IsProductOp(F[r.seq].op) => Holds(e, F[r.seq])

(* What a result left stays. *)
LEMMA RecordedStays ==
    ASSUME NEW F, NEW b, NEW e, Follows(b, e, F), NEW op, NEW r, ResultFits(op, r, F), NEW page,
           Recorded(b, r, page, F)
    PROVE  Recorded(e, r, page, F)
BY DEF Follows, KeepsShown, KeepsHeld, Recorded, ResultFits

(* One result of a response. *)
LEMMA Settled ==
    ASSUME NEW own, NEW known, NEW F, World(own, known, F), NEW op \in own, OpFits(op),
           NEW b, Good(b, own, known, Accepted(F)),
           NEW r, ResultFits(op, r, F), NEW page, PageOf(page, F), Settle(b, op, r, page) # None
    PROVE  LET e == Settle(b, op, r, page) IN
           Good(e, own, known, Accepted(F)) /\ Follows(b, e, F) /\ Recorded(e, r, page, F)
<1> DEFINE e == Settle(b, op, r, page)
<1>1. StatusOf(b, op.id) = {"inflight"}
  BY DEF Settle
<1>2. CASE ~r.applied
  <2>1. e = Retain(b, op, r) /\ e # None
    BY <1>1, <1>2 DEF Settle, Indexed
  <2>2. Good(e, own, known, Accepted(F)) /\ Follows(b, e, F)
    <3> HIDE DEF e
    <3> QED BY <1>1, <1>2, <2>1, Retained
  <2> QED BY <1>2, <2>2 DEF Recorded
<1>3. CASE r.applied
  <2> DEFINE settled == IF r.seq \in DOMAIN page THEN ApplyCanonical(b, op, page[r.seq])
                        ELSE IF HasConsequence(b, op) THEN SetLocalStatus(b, op, "synced")
                        ELSE None
             shown == Displace(settled, r.displaced)
  <2>1. /\ r.seq \in DOMAIN F /\ F[r.seq].op.id = op.id /\ r.displaced = F[r.seq].displaced
        /\ op.id \in Accepted(F)
    BY <1>3 DEF ResultFits, Accepted
  <2>2. settled # None /\ e = Dequeue(shown, op.id)
    BY <1>1, <1>3 DEF Settle, Indexed
  <2>3. /\ Good(settled, own, known, Accepted(F)) /\ Follows(b, settled, F)
        /\ r.seq \in DOMAIN page /\ ~IsProductOp(F[r.seq].op) => Holds(settled, F[r.seq])
    <3>1. CASE r.seq \in DOMAIN page
      <4>1. settled = ApplyCanonical(b, op, F[r.seq])
        BY <3>1 DEF PageOf
      <4> HIDE DEF settled
      <4> QED BY <2>1, <2>2, <4>1, CanonicalApplied
    <3>2. CASE r.seq \notin DOMAIN page
      <4>1. settled = SetLocalStatus(b, op, "synced") /\ "synced" \in SyncStatus
        BY <2>2, <3>2 DEF SyncStatus
      <4> HIDE DEF settled
      <4> QED BY <2>1, <3>2, <4>1, StatusSet
    <3> QED BY <3>1, <3>2
  <2> HIDE DEF settled, e
  <2>4. Displaceable(r.displaced, F)
    BY <2>1 DEF World, FeedOk, Displaceable
  <2>5. /\ Good(shown, own, known, Accepted(F)) /\ Follows(settled, shown, F)
        /\ Shown(shown, F[r.seq])
    BY <2>1, <2>3, <2>4, Displaced DEF Shown
  <2> HIDE DEF shown
  <2>6. Good(e, own, known, Accepted(F)) /\ Follows(shown, e, F)
    BY <2>1, <2>2, <2>5, Dequeued
  <2>7. Recorded(e, r, page, F)
    BY <2>1, <2>3, <2>5, <2>6 DEF Recorded, Follows, KeepsShown, KeepsHeld
  <2>8. Follows(b, e, F)
    BY <2>3, <2>5, <2>6, FollowsOn
  <2> QED BY <2>6, <2>7, <2>8 DEF e
<1> QED BY <1>2, <1>3
-----------------------------------------------------------------------------
(* The results of a response and the changes of a page, one after the other. *)

GoodOrNone(own, known, acc) == {x \in Database \cup {None} : x # None => Good(x, own, known, acc)}

(* All results of a response. *)
LEMMA BatchReconciled ==
    ASSUME NEW own, NEW known, NEW F, World(own, known, F),
           NEW ops, NEW N \in Nat, DOMAIN ops = 1..N, NEW results,
           \A n \in 1..N : ops[n] \in own /\ OpFits(ops[n]) /\ ResultFits(ops[n], results[n], F),
           NEW page, PageOf(page, F),
           NEW b, Good(b, own, known, Accepted(F)), Reconcile(b, ops, results, page) # None
    PROVE  LET e == Reconcile(b, ops, results, page) IN
           /\ Good(e, own, known, Accepted(F)) /\ Follows(b, e, F)
           /\ \A n \in 1..N : Recorded(e, results[n], page, F)
<1> DEFINE V == GoodOrNone(own, known, Accepted(F))
           U == {x \in V : x # None} \cup {b, None}
<1>1. \A x \in U : x # None => Good(x, own, known, Accepted(F))
  BY DEF GoodOrNone
<1>2. \A x : Good(x, own, known, Accepted(F)) => x \in U
  BY DEF GoodOrNone, Good
<1>3. None \in U /\ b \in U
  OBVIOUS
<1> HIDE DEF V, U
<1>4. ASSUME NEW n \in 1..N, NEW x \in U, Settle(x, ops[n], results[n], page) # None
      PROVE  LET y == Settle(x, ops[n], results[n], page) IN
             /\ x # None /\ Good(x, own, known, Accepted(F))
             /\ Good(y, own, known, Accepted(F)) /\ Follows(x, y, F)
             /\ Recorded(y, results[n], page, F)
  <2>1. x # None
    BY <1>4 DEF Settle
  <2>2. Good(x, own, known, Accepted(F))
    BY <1>1, <2>1
  <2> QED BY <1>4, <2>1, <2>2, Settled
<1>5. SettlesWithin(U, N, ops, results, page)
  BY <1>2, <1>3, <1>4 DEF SettlesWithin
<1>6. PICK R :
         /\ R \in [0..N -> U]
         /\ R[0] = b
         /\ \A n \in 1..N : R[n] = Settle(R[n - 1], ops[n], results[n], page)
         /\ Reconcile(b, ops, results, page) = R[N]
  <2>1. PICK R : IsReconciliation(R, U, N, b, ops, results, page)
    BY <1>3, <1>5, ReconcileRuns
  <2> QED BY <2>1 DEF IsReconciliation
<1> DEFINE Fine(x, n) == x # None =>
               /\ Good(x, own, known, Accepted(F)) /\ Follows(b, x, F)
               /\ \A k \in 1..n : Recorded(x, results[k], page, F)
           P == {n \in 0..N : Fine(R[n], n)}
<1>7. 0 \in P
  <2>1. Fine(b, 0)
    BY FollowsItself
  <2> QED BY <1>6, <2>1
<1>8. ASSUME NEW n \in 1..N, n - 1 \in P PROVE n \in P
  <2>1. n - 1 \in 0..N /\ n \in 0..N /\ R[n - 1] \in U /\ Fine(R[n - 1], n - 1)
    BY <1>6, <1>8
  <2>2. SUFFICES ASSUME R[n] # None PROVE Fine(R[n], n)
    BY <2>1
  <2>3. R[n] = Settle(R[n - 1], ops[n], results[n], page)
    BY <1>6
  <2>4. /\ R[n - 1] # None /\ Good(R[n], own, known, Accepted(F)) /\ Follows(R[n - 1], R[n], F)
        /\ Recorded(R[n], results[n], page, F)
    BY <1>4, <2>1, <2>2, <2>3
  <2>5. Follows(b, R[n], F)
    BY <2>1, <2>4, FollowsOn
  <2>6. ASSUME NEW k \in 1..n PROVE Recorded(R[n], results[k], page, F)
    <3>1. CASE k = n
      BY <2>4, <3>1
    <3>2. CASE k # n
      <4>1. k \in 1..(n - 1) /\ k \in 1..N
        BY <3>2
      <4>2. Recorded(R[n - 1], results[k], page, F) /\ ResultFits(ops[k], results[k], F)
        BY <2>1, <2>4, <4>1
      <4> QED BY <2>4, <4>2, RecordedStays
    <3> QED BY <3>1, <3>2
  <2> QED BY <2>4, <2>5, <2>6
<1>9. 0..N \subseteq P
  <2> HIDE DEF P
  <2> QED BY <1>7, <1>8, RunInduction
<1>10. Fine(R[N], N)
  <2>1. N \in 0..N
    OBVIOUS
  <2> HIDE DEF Fine
  <2> QED BY <1>9, <2>1
<1> QED BY <1>6, <1>10

(* The changes of a page after `from`. *)
ChangesAfter(changes, from, N, F) ==
    /\ DOMAIN changes = 1..N
    /\ \A n \in 1..N : from + n \in DOMAIN F /\ changes[n] = F[from + n]

Written(e, c) == ~IsProductOp(c.op) => Holds(e, c) /\ Shown(e, c)

(* The product changes of a page, or its movements. *)
LEMMA KindApplied ==
    ASSUME NEW own, NEW known, NEW F, World(own, known, F), NEW N \in Nat, NEW from \in Nat,
           NEW changes, ChangesAfter(changes, from, N, F), NEW fresh, NEW products \in BOOLEAN,
           NEW b, Good(b, own, known, Accepted(F)), ApplyKind(b, changes, fresh, products) # None
    PROVE  LET e == ApplyKind(b, changes, fresh, products) IN
           /\ Good(e, own, known, Accepted(F)) /\ Follows(b, e, F)
           /\ ~products => \A n \in fresh \cap 1..N : Written(e, F[from + n])
<1> DEFINE V == GoodOrNone(own, known, Accepted(F))
           U == {x \in V : x # None} \cup {b, None}
<1>1. \A x \in U : x # None => Good(x, own, known, Accepted(F))
  BY DEF GoodOrNone
<1>2. \A x : Good(x, own, known, Accepted(F)) => x \in U
  BY DEF GoodOrNone, Good
<1>3. None \in U /\ b \in U
  OBVIOUS
<1> HIDE DEF V, U
<1>4. ASSUME NEW n \in 1..N, NEW x \in U, StepOf(x, n, changes, fresh, products) # None
      PROVE  LET y == StepOf(x, n, changes, fresh, products) IN
             /\ x # None /\ Good(x, own, known, Accepted(F))
             /\ Good(y, own, known, Accepted(F)) /\ Follows(x, y, F)
             /\ n \in fresh /\ ~products => Written(y, F[from + n])
  <2> DEFINE y == StepOf(x, n, changes, fresh, products)
  <2>1. from + n \in DOMAIN F /\ changes[n] = F[from + n]
    BY DEF ChangesAfter
  <2>2. CASE n \in fresh /\ IsProductOp(F[from + n].op) = products
    <3>1. y = ApplyChange(x, F[from + n])
      BY <2>1, <2>2 DEF StepOf
    <3>2. x # None
      BY <1>4, <3>1 DEF ApplyChange
    <3>3. Good(x, own, known, Accepted(F)) /\ y # None
      BY <1>1, <1>4, <3>2
    <3> HIDE DEF y
    <3>4. /\ Good(y, own, known, Accepted(F)) /\ Follows(x, y, F)
          /\ ~IsProductOp(F[from + n].op) => Holds(y, F[from + n]) /\ Shown(y, F[from + n])
      BY <2>1, <3>1, <3>3, ChangeApplied
    <3> QED BY <3>2, <3>3, <3>4 DEF Written, y
  <2>3. CASE ~(n \in fresh /\ IsProductOp(F[from + n].op) = products)
    <3>1. y = x
      BY <2>1, <2>3 DEF StepOf
    <3>2. n \in fresh /\ ~products => IsProductOp(F[from + n].op)
      BY <2>3 DEF IsProductOp
    <3>3. x # None /\ Good(x, own, known, Accepted(F))
      BY <1>1, <1>4, <3>1
    <3> QED BY <3>1, <3>2, <3>3, FollowsItself DEF Written
  <2> QED BY <2>2, <2>3
<1>5. AppliesWithin(U, N, changes, fresh, products)
  BY <1>2, <1>3, <1>4 DEF AppliesWithin
<1>6. PICK R :
         /\ R \in [0..N -> U]
         /\ R[0] = b
         /\ \A n \in 1..N : R[n] = StepOf(R[n - 1], n, changes, fresh, products)
         /\ ApplyKind(b, changes, fresh, products) = R[N]
  <2>1. DOMAIN changes = 1..N
    BY DEF ChangesAfter
  <2>2. PICK R : IsApplication(R, U, N, b, changes, fresh, products)
    BY <1>3, <1>5, <2>1, ApplyKindRuns
  <2> QED BY <2>2 DEF IsApplication
<1> DEFINE Fine(x, n) == x # None =>
               /\ Good(x, own, known, Accepted(F)) /\ Follows(b, x, F)
               /\ ~products => \A k \in fresh \cap 1..n : Written(x, F[from + k])
           P == {n \in 0..N : Fine(R[n], n)}
<1>7. 0 \in P
  <2>1. Fine(b, 0)
    BY FollowsItself
  <2> QED BY <1>6, <2>1
<1>8. ASSUME NEW n \in 1..N, n - 1 \in P PROVE n \in P
  <2>1. n - 1 \in 0..N /\ n \in 0..N /\ R[n - 1] \in U /\ Fine(R[n - 1], n - 1)
    BY <1>6, <1>8
  <2>2. SUFFICES ASSUME R[n] # None PROVE Fine(R[n], n)
    BY <2>1
  <2>3. R[n] = StepOf(R[n - 1], n, changes, fresh, products)
    BY <1>6
  <2>4. /\ R[n - 1] # None /\ Good(R[n], own, known, Accepted(F)) /\ Follows(R[n - 1], R[n], F)
        /\ n \in fresh /\ ~products => Written(R[n], F[from + n])
    BY <1>4, <2>1, <2>2, <2>3
  <2>5. Follows(b, R[n], F)
    BY <2>1, <2>4, FollowsOn
  <2>6. ASSUME NEW k \in fresh \cap 1..n, ~products PROVE Written(R[n], F[from + k])
    <3>1. CASE k = n
      BY <2>4, <2>6, <3>1
    <3>2. CASE k # n
      <4>1. k \in fresh \cap 1..(n - 1) /\ k \in 1..N
        BY <3>2
      <4>2. Written(R[n - 1], F[from + k]) /\ from + k \in DOMAIN F
        BY <2>1, <2>4, <2>6, <4>1 DEF ChangesAfter
      <4> QED BY <2>4, <4>2 DEF Written, Follows, KeepsHeld, KeepsShown
    <3> QED BY <3>1, <3>2
  <2> QED BY <2>4, <2>5, <2>6
<1>9. 0..N \subseteq P
  <2> HIDE DEF P
  <2> QED BY <1>7, <1>8, RunInduction
<1>10. Fine(R[N], N)
  <2>1. N \in 0..N
    OBVIOUS
  <2> HIDE DEF Fine
  <2> QED BY <1>9, <2>1
<1> QED BY <1>6, <1>10

(* A transaction that threw applies nothing more. *)
LEMMA NothingApplied ==
    ASSUME NEW N \in Nat, NEW changes, DOMAIN changes = 1..N, NEW fresh, NEW products \in BOOLEAN
    PROVE  ApplyKind(None, changes, fresh, products) = None
<1> DEFINE U == {None}
<1>1. AppliesWithin(U, N, changes, fresh, products)
  BY DEF AppliesWithin, StepOf, ApplyChange
<1>2. None \in U /\ \A x \in U : x = None
  OBVIOUS
<1> HIDE DEF U
<1>3. PICK R : IsApplication(R, U, N, None, changes, fresh, products)
  BY <1>1, <1>2, ApplyKindRuns
<1>4. N \in 0..N
  OBVIOUS
<1> QED BY <1>2, <1>3, <1>4 DEF IsApplication

(* The cursor moves. *)
LEMMA CursorMoved ==
    ASSUME NEW own, NEW known, NEW acc, NEW b, Good(b, own, known, acc), NEW last \in Nat
    PROVE  LET e == [b EXCEPT !.cursor = last] IN
           /\ Good(e, own, known, acc) /\ e.cursor = last
           /\ e.queue = b.queue /\ e.moves = b.moves /\ e.conflicts = b.conflicts
<1> DEFINE e == [b EXCEPT !.cursor = last]
<1>1. b \in Database
  BY DEF Good
<1>2. /\ e \in Database /\ e.cursor = last /\ e.queue = b.queue /\ e.moves = b.moves
      /\ e.conflicts = b.conflicts /\ e.balance = b.balance
  BY <1>1 DEF Database
<1> HIDE DEF e
<1>3. GoodMoves(e, known, acc) /\ GoodQueue(e, own) /\ GoodConflicts(e, own, known)
      /\ GoodLinks(e) /\ GoodMerges(e, acc) /\ GoodBalance(e)
  BY <1>2, SameMoves, SameQueue, SameConflicts, SameOutbox DEF Good, GoodBalance
<1> QED BY <1>2, <1>3 DEF Good, e

(* A page is applied. *)
LEMMA PageApplied ==
    ASSUME NEW own, NEW known, NEW F, World(own, known, F), NEW N \in Nat, NEW from \in Nat,
           NEW changes, ChangesAfter(changes, from, N, F), NEW fresh, NEW last \in Nat,
           NEW b, Good(b, own, known, Accepted(F)), ApplyPage(b, from, changes, fresh, last) # None
    PROVE  LET e == ApplyPage(b, from, changes, fresh, last) IN
           /\ Good(e, own, known, Accepted(F))
           /\ KeepsQueued(b, e, Accepted(F)) /\ KeepsHeld(b, e, F) /\ KeepsShown(b, e, F)
           /\ e.cursor = last
           /\ \A n \in fresh \cap 1..N : Written(e, F[from + n])
<1> DEFINE g == ApplyKind(b, changes, fresh, TRUE)
           h == ApplyKind(g, changes, fresh, FALSE)
           e == ApplyPage(b, from, changes, fresh, last)
<1>1. h # None /\ e = [h EXCEPT !.cursor = last]
  BY DEF ApplyPage
<1>2. CASE g = None
  BY <1>1, <1>2, NothingApplied DEF ChangesAfter
<1>3. CASE g # None
  <2> HIDE DEF e
  <2>1. Good(g, own, known, Accepted(F)) /\ Follows(b, g, F)
    BY <1>3, KindApplied
  <2> HIDE DEF g
  <2>2. /\ Good(h, own, known, Accepted(F)) /\ Follows(g, h, F)
        /\ \A n \in fresh \cap 1..N : Written(h, F[from + n])
    BY <1>1, <2>1, KindApplied
  <2> HIDE DEF h
  <2>3. Follows(b, h, F)
    BY <2>1, <2>2, FollowsOn
  <2>4. /\ Good(e, own, known, Accepted(F)) /\ e.cursor = last /\ e.queue = h.queue
        /\ e.moves = h.moves /\ e.conflicts = h.conflicts
    BY <1>1, <2>2, CursorMoved
  <2>5. QueuedIds(e) = QueuedIds(h) /\ \A c : (Holds(h, c) => Holds(e, c)) /\ (Shown(h, c) => Shown(e, c))
    BY <2>4 DEF QueuedIds, Holds, Shown
  <2>6. KeepsQueued(b, e, Accepted(F)) /\ KeepsHeld(b, e, F) /\ KeepsShown(b, e, F)
    BY <2>3, <2>5 DEF Follows, KeepsQueued, KeepsHeld, KeepsShown
  <2>7. \A n \in fresh \cap 1..N : Written(e, F[from + n])
    BY <2>2, <2>5 DEF Written
  <2> QED BY <2>4, <2>6, <2>7 DEF e
<1> QED BY <1>2, <1>3
-----------------------------------------------------------------------------
(* What the user does. *)

(* The operation of a mutation that the repository accepts.                 *)
LEMMA OperationOf ==
    ASSUME NEW b \in Database, NEW i \in Intent, i.kind = "count" => i.qty \in Nat, Mutable(b, i)
    PROVE  LET op == OperationFor(b, i) IN
           /\ op \in Operation /\ op.id = <<i.id, 0>> /\ op.kind = i.kind /\ op.product = i.product
           /\ op.at = i.at /\ op.counted = IF i.kind = "count" THEN i.qty ELSE 0
           /\ IsProductOp(op) <=> i.kind \in {"create", "edit", "delete"}
           /\ op.kind \in {"create", "edit"} => op.fields \in Payload
           /\ op.kind \in {"edit", "delete"} => op.base > 0 /\ op.basis \in Payload
           /\ op.kind \notin {"edit", "delete"} => op.base = 0
<1> DEFINE op == OperationFor(b, i)
           row == b.rows[i.product]
           fields == CASE i.kind = "edit" -> [row.fields EXCEPT ![i.field] = i.value]
                       [] i.kind = "create" ->
                             [f \in Fields |-> IF f \in Required \cup {i.field} THEN i.value ELSE Blank]
                       [] OTHER -> None
           delta == CASE i.kind = "move" -> i.qty
                      [] i.kind = "count" -> i.qty - b.balance[i.product]
                      [] OTHER -> 0
<1>1. /\ i.id \in Nat /\ i.kind \in Kinds /\ i.product \in Products /\ i.field \in Fields
      /\ i.value \in Values /\ i.qty \in Int /\ i.at \in Nat
      /\ b.balance[i.product] \in Int
  BY DEF Intent, Database
<1>2. i.kind \in {"edit", "delete"} => row \in LocalRow
  BY <1>1 DEF Mutable, Active, Database
<1>3. i.kind \in {"edit", "delete"} =>
         row.version \in Nat /\ row.version > 0 /\ row.fields \in Payload
  BY <1>2 DEF LocalRow
<1>4. CASE i.kind = "edit"
  <2>1. fields = [row.fields EXCEPT ![i.field] = i.value] /\ fields \in Payload /\ delta = 0
    BY <1>1, <1>3, <1>4 DEF Payload
  <2>2. op = [id |-> <<i.id, 0>>, kind |-> i.kind, product |-> i.product, base |-> row.version,
              fields |-> fields, basis |-> row.fields, delta |-> delta, counted |-> 0, at |-> i.at]
    BY <1>4 DEF OperationFor
  <2> HIDE DEF fields, delta, row
  <2> QED BY <1>1, <1>3, <1>4, <2>1, <2>2 DEF Operation, OpId, IsProductOp
<1>5. CASE i.kind = "create"
  <2>1. fields = [f \in Fields |-> IF f \in Required \cup {i.field} THEN i.value ELSE Blank]
        /\ delta = 0
    BY <1>5
  <2>2. fields \in Payload
    BY <1>1, <2>1, BlankIsAValue DEF Payload
  <2>3. op = [id |-> <<i.id, 0>>, kind |-> i.kind, product |-> i.product, base |-> 0,
              fields |-> fields, basis |-> None, delta |-> delta, counted |-> 0, at |-> i.at]
    BY <1>5 DEF OperationFor
  <2> HIDE DEF fields, delta, row
  <2> QED BY <1>1, <1>5, <2>1, <2>2, <2>3 DEF Operation, OpId, IsProductOp
<1>6. CASE i.kind = "delete"
  <2>1. op = [id |-> <<i.id, 0>>, kind |-> i.kind, product |-> i.product, base |-> row.version,
              fields |-> None, basis |-> row.fields, delta |-> 0, counted |-> 0, at |-> i.at]
    BY <1>6 DEF OperationFor
  <2> HIDE DEF row
  <2> QED BY <1>1, <1>3, <1>6, <2>1 DEF Operation, OpId, IsProductOp
<1>7. CASE i.kind = "move"
  <2>1. op = [id |-> <<i.id, 0>>, kind |-> i.kind, product |-> i.product, base |-> 0,
              fields |-> None, basis |-> None, delta |-> i.qty, counted |-> 0, at |-> i.at]
    BY <1>7 DEF OperationFor
  <2> QED BY <1>1, <1>7, <2>1 DEF Operation, OpId, IsProductOp
<1>8. CASE i.kind = "count"
  <2>1. op = [id |-> <<i.id, 0>>, kind |-> i.kind, product |-> i.product, base |-> 0,
              fields |-> None, basis |-> None, delta |-> i.qty - b.balance[i.product],
              counted |-> i.qty, at |-> i.at]
    BY <1>8 DEF OperationFor
  <2> QED BY <1>1, <1>8, <2>1 DEF Operation, OpId, IsProductOp
<1> QED BY <1>1, <1>4, <1>5, <1>6, <1>7, <1>8 DEF Kinds

(* A mutation writes its row or movement and queues its operation.          *)
LEMMA Mutated ==
    ASSUME NEW own, NEW known, NEW F, Family(own, known),
           NEW b, Good(b, own, known, Accepted(F)), NEW i \in Intent,
           i.kind = "count" => i.qty \in Nat, OperationFor(b, i) \in own,
           <<i.id, 0>> \notin QueuedIds(b), ~HasConflict(b, <<i.id, 0>>),
           \A m \in b.moves : m.id # <<i.id, 0>>, Mutate(b, i) # None
    PROVE  LET e == Mutate(b, i) IN
           /\ Good(e, own, known, Accepted(F)) /\ Follows(b, e, F)
           /\ <<i.id, 0>> \in QueuedIds(e)
<1> DEFINE op == OperationFor(b, i)
           written == IF IsProductOp(op)
                      THEN [b EXCEPT !.rows[op.product] = OptimisticRow(b, op)]
                      ELSE WithMove(b, NewMove(op, op.delta, "pending"))
           e == Mutate(b, i)
<1>1. Mutable(b, i) /\ e = Enqueue(written, op)
  BY DEF Mutate, Indexed
<1>2. b \in Database /\ i.product \in Products /\ op \in own /\ op \in known
  BY DEF Good, Intent, Family
<1>3. /\ op \in Operation /\ op.id = <<i.id, 0>> /\ op.kind = i.kind /\ op.product = i.product
      /\ op.kind \in {"create", "edit"} => op.fields \in Payload
  BY <1>1, <1>2, OperationOf
<1>4. op.kind = "delete" => b.rows[op.product] \in LocalRow
  BY <1>1, <1>2, <1>3 DEF Mutable, Active, Database
<1> HIDE DEF op, e
<1>5. /\ Good(written, own, known, Accepted(F)) /\ Follows(b, written, F)
      /\ written.queue = b.queue /\ written.conflicts = b.conflicts
  <2>1. CASE IsProductOp(op)
    <3> DEFINE row == OptimisticRow(b, op)
    <3>1. op.base + 1 \in Nat \ {0} /\ "pending" \in SyncStatus
      BY <1>3 DEF Operation, SyncStatus
    <3>2. (IF op.kind = "delete" THEN b.rows[op.product].fields ELSE op.fields) \in Payload
      BY <1>3, <1>4, <2>1 DEF LocalRow, IsProductOp
    <3>3. row \in LocalRow
      BY <3>1, <3>2 DEF OptimisticRow, LocalRow
    <3>4. written = [b EXCEPT !.rows[op.product] = row]
      BY <2>1
    <3> HIDE DEF row, written
    <3> QED BY <1>2, <1>3, <3>3, <3>4, RowWritten
  <2>2. CASE ~IsProductOp(op)
    <3> DEFINE m == NewMove(op, op.delta, "pending")
    <3>1. m \in LocalMove /\ m.id = op.id /\ m.status = "pending" /\ m.delta = op.delta
      <4>1. op.delta \in Int /\ "pending" \in SyncStatus
        BY <1>3 DEF Operation, SyncStatus
      <4>2. m \in LocalMove
        BY <1>3, <2>2, <4>1, NewMoveType
      <4> QED BY <4>2 DEF NewMove
    <3>2. m = NewMove(op, m.delta, m.status)
      BY <3>1
    <3> HIDE DEF m
    <3>3. Genuine(m, known, Accepted(F))
      BY <1>2, <2>2, <3>1, <3>2 DEF Genuine
    <3>4. \A x \in b.moves : x.id # m.id
      BY <1>3, <3>1
    <3>5. written = WithMove(b, m)
      BY <2>2 DEF m
    <3> HIDE DEF written
    <3> QED BY <3>1, <3>3, <3>4, <3>5, MoveAppended
  <2> QED BY <2>1, <2>2
<1> HIDE DEF written
<1>6. op.id \notin QueuedIds(written) /\ ~HasConflict(written, op.id) /\ Explained(written, op.id)
  <2>1. op.id[2] = 0
    BY <1>3
  <2> QED BY <1>3, <1>5, <2>1, SameQueue DEF HasConflict, Explained
<1>7. GoodBut(written, own, known, Accepted(F), op.id)
  BY <1>5, GoodIsGoodBut
<1>8. /\ Good(e, own, known, Accepted(F)) /\ Follows(written, e, F) /\ op.id \in QueuedIds(e)
  BY <1>1, <1>2, <1>6, <1>7, Enqueued
<1> QED BY <1>3, <1>5, <1>8, FollowsOn DEF e

(* A conflict is settled. *)
Settling(b, c, res) == WithConflict(b, [c EXCEPT !.resolution = res])

(* A conflict gets its resolution. *)
LEMMA Decided ==
    ASSUME NEW own, NEW known, NEW F, NEW b, Good(b, own, known, Accepted(F)),
           NEW c \in b.conflicts, c.resolution = "unresolved", NEW res \in {"resolved", "reviewed"}
    PROVE  LET e == Settling(b, c, res) IN
           /\ Good(e, own, known, Accepted(F)) /\ Follows(b, e, F)
           /\ e.queue = b.queue /\ e.rows = b.rows
           /\ \E n \in e.conflicts : n.op = c.op /\ n.resolution = res
           /\ \A id : HasConflict(e, id) <=> HasConflict(b, id)
<1> DEFINE n == [c EXCEPT !.resolution = res]
           cs == {x \in b.conflicts : x.op.id # n.op.id} \cup {n}
           e == Settling(b, c, res)
<1>1. /\ b \in Database /\ b.conflicts \in SUBSET Conflict /\ c \in Conflict
      /\ GoodConflicts(b, own, known) /\ GoodMerges(b, Accepted(F)) /\ GoodLinks(b)
  BY DEF Good, Database
<1>2. /\ n \in Conflict /\ n.op = c.op /\ n.reason = c.reason /\ n.server = c.server
      /\ n.resolution = res
  BY <1>1 DEF Conflict
<1>3. e = [b EXCEPT !.conflicts = cs]
  BY DEF WithConflict, Settling
<1>4. \A x \in cs : (x \in b.conflicts /\ x.op.id # c.op.id /\ x # c) \/ x = n
  BY <1>2
<1>5. n \in cs /\ \A x \in b.conflicts : x # c => x \in cs
  BY <1>1, <1>2 DEF GoodConflicts
<1>6. cs \in SUBSET Conflict
  BY <1>1, <1>2
<1> HIDE DEF n, cs, e
<1>7. /\ e \in Database /\ e.queue = b.queue /\ e.conflicts = cs /\ e.moves = b.moves
      /\ e.balance = b.balance /\ e.rows = b.rows /\ e.cursor = b.cursor
  BY <1>1, <1>3, <1>6 DEF Database
<1>8. \A id : HasConflict(e, id) <=> HasConflict(b, id)
  BY <1>2, <1>4, <1>5, <1>7 DEF HasConflict
<1>9. \A id : Explained(b, id) => Explained(e, id)
  BY <1>5, <1>7 DEF Explained
<1>10. GoodConflicts(e, own, known)
  <2>1. \A x, y \in cs : x.op.id = y.op.id => x = y
    BY <1>1, <1>2, <1>4 DEF GoodConflicts
  <2>2. \A x \in cs : x.op \in known /\ Choosable(x, own) /\ Explained(e, x.op.id)
    <3>1. Choosable(n, own)
      BY <1>1, <1>2 DEF GoodConflicts, Choosable
    <3> QED BY <1>1, <1>2, <1>4, <1>9, <3>1 DEF GoodConflicts
  <2> QED BY <1>7, <2>1, <2>2 DEF GoodConflicts
<1>11. QueuedIds(e) = QueuedIds(b) /\ GoodQueue(e, own)
  BY <1>7, SameQueue DEF Good
<1>12. GoodMerges(e, Accepted(F))
  BY <1>1, <1>2, <1>4, <1>7, <1>11 DEF GoodMerges, Lives
<1>13. GoodLinks(e)
  BY <1>1, <1>7, <1>8, <1>9 DEF GoodLinks
<1>14. GoodMoves(e, known, Accepted(F)) /\ GoodBalance(e)
  BY <1>7, SameMoves DEF Good, GoodBalance
<1>15. KeepsShown(b, e, F)
  <2>1. SUFFICES ASSUME NEW s \in DOMAIN F, NEW op \in F[s].displaced, NEW k \in b.conflicts,
                        k.op = op, k.reason = "stocktake_displaced"
                 PROVE  \E x \in e.conflicts : x.op = op /\ x.reason = "stocktake_displaced"
    BY DEF KeepsShown, Shown
  <2> QED BY <1>2, <1>5, <1>7, <2>1
<1>16. Follows(b, e, F)
  BY <1>7, <1>11, <1>15, SameMoves DEF Follows, KeepsQueued, KeepsHeld
<1>17. Good(e, own, known, Accepted(F))
  BY <1>7, <1>10, <1>11, <1>12, <1>13, <1>14 DEF Good
<1>18. n \in e.conflicts
  BY <1>5, <1>7
<1> QED BY <1>2, <1>7, <1>8, <1>16, <1>17, <1>18 DEF e

(* The operation that a choice queues. *)
LEMMA RetryContinues ==
    ASSUME NEW own, NEW known, Family(own, known), NEW c \in Conflict, Choosable(c, own),
           c.op \in known, NEW choice \in Offers(c), choice # "reviewed"
    PROVE  LET next == RetryOf(c, choice) IN
           /\ c.op \in own /\ IsProductOp(c.op) /\ Continues(next, c.op)
           /\ next.fields \in Payload \cup {None}
<1> DEFINE next == RetryOf(c, choice)
<1>1. /\ c.op \in Operation /\ c.op.id \in OpId /\ c.op.fields \in Payload \cup {None}
      /\ <<c.op.id[1], c.op.id[2] + 1>> \in OpId
  BY DEF Family, Operation, OpId
<1>2. CASE c.reason = "version_conflict"
  <2>1. choice \in {"local", "server"}
    BY <1>2 DEF Offers
  <2>2. /\ c.op \in own /\ IsProductOp(c.op) /\ c.server.version \in Nat
        /\ c.server.fields \in Payload
    BY <1>2 DEF Choosable, Image
  <2>3. Selected(c, choice) \in Payload \cup {None}
    BY <1>1, <2>1, <2>2 DEF Selected
  <2>4. next = [[c.op EXCEPT !.id = <<@[1], @[2] + 1>>, !.fields = Selected(c, choice)]
                   EXCEPT !.kind = "edit", !.base = c.server.version, !.basis = c.server.fields]
    BY <2>1 DEF RetryOf
  <2> DEFINE first == [c.op EXCEPT !.id = <<@[1], @[2] + 1>>, !.fields = Selected(c, choice)]
  <2>5. /\ first \in Operation /\ first.id = NextId(c.op.id) /\ first.product = c.op.product
        /\ first.fields = Selected(c, choice)
    BY <1>1, <2>3 DEF Operation, NextId
  <2>6. next = [first EXCEPT !.kind = "edit", !.base = c.server.version, !.basis = c.server.fields]
    BY <2>4
  <2> HIDE DEF first, next
  <2>7. next \in Operation
    BY <2>2, <2>5, <2>6 DEF Operation, Kinds
  <2>8. /\ next.id = first.id /\ next.product = first.product /\ next.fields = first.fields
        /\ next.kind = "edit" /\ next.basis = c.server.fields
    BY <2>5, <2>6 DEF Operation
  <2> QED BY <2>2, <2>3, <2>5, <2>7, <2>8 DEF Continues, next
<1>3. CASE c.reason = "barcode_conflict"
  <2>1. choice = "unbarcoded"
    BY <1>3 DEF Offers
  <2>2. c.op \in own /\ c.op.kind \in {"create", "edit"} /\ c.op.fields \in Payload
    BY <1>3 DEF Choosable
  <2>3. Selected(c, choice) = [c.op.fields EXCEPT ![Barcode] = Blank]
    BY <2>1 DEF Selected
  <2>4. Selected(c, choice) \in Payload
    BY <2>2, <2>3, BlankIsAValue DEF Payload
  <2>5. next = [c.op EXCEPT !.id = <<@[1], @[2] + 1>>, !.fields = Selected(c, choice)]
    BY <2>1 DEF RetryOf
  <2>6. /\ next \in Operation /\ next.id = NextId(c.op.id) /\ next.product = c.op.product
        /\ next.kind = c.op.kind /\ next.basis = c.op.basis /\ next.base = c.op.base
        /\ next.fields = Selected(c, choice)
    BY <1>1, <2>4, <2>5 DEF Operation, NextId
  <2>7. (next.kind = "create" => next.base = 0) /\ (next.kind = "edit" => next.basis \in Payload)
    BY <2>6 DEF Family
  <2> QED BY <2>2, <2>4, <2>6, <2>7 DEF Continues, IsProductOp
<1>4. c.reason \in {"version_conflict", "barcode_conflict"}
  BY DEF Offers
<1> QED BY <1>2, <1>3, <1>4

(* A choice of the user on a conflict. *)
LEMMA Resolved ==
    ASSUME NEW own, NEW known, NEW F, Family(own, known),
           NEW b, Good(b, own, known, Accepted(F)),
           NEW c \in b.conflicts, c.resolution = "unresolved", NEW choice \in Offers(c),
           Resolve(b, c, choice) # None
    PROVE  LET e == Resolve(b, c, choice) IN
           Good(e, own, known, Accepted(F)) /\ Follows(b, e, F)
<1> DEFINE res == IF choice = "reviewed" THEN "reviewed" ELSE "resolved"
           decided == Settling(b, c, res)
           next == RetryOf(c, choice)
           row == b.rows[c.op.product]
           new == ResolvedRow(row, next.fields, c.server)
           e == Resolve(b, c, choice)
<1>1. /\ b \in Database /\ c \in Conflict /\ c.op \in known /\ c.op.product \in Products
      /\ c.op.id \in OpId /\ GoodConflicts(b, own, known) /\ Choosable(c, own)
  BY DEF Good, GoodConflicts, Family, Operation, Database
<1>2. /\ Good(decided, own, known, Accepted(F)) /\ Follows(b, decided, F)
      /\ decided.queue = b.queue /\ decided.rows = b.rows
      /\ \E n \in decided.conflicts : n.op = c.op /\ n.resolution = res
      /\ \A id : HasConflict(decided, id) <=> HasConflict(b, id)
  <2>1. res \in {"resolved", "reviewed"}
    OBVIOUS
  <2> HIDE DEF res
  <2> QED BY <2>1, Decided
<1>3. CASE choice = "reviewed"
  <2>1. e = decided
    BY <1>3 DEF Resolve, Settling
  <2> HIDE DEF e, decided
  <2> QED BY <1>2, <2>1 DEF e
<1>4. CASE choice # "reviewed"
  <2>1. /\ row # None
        /\ e = Enqueue([decided EXCEPT !.rows[c.op.product] = new], next)
    BY <1>4 DEF Resolve, Indexed, Settling
  <2>2. /\ c.op \in own /\ IsProductOp(c.op) /\ Continues(next, c.op)
        /\ next.fields \in Payload \cup {None}
    BY <1>1, <1>4, RetryContinues
  <2>3. next \in own /\ next.id = NextId(c.op.id)
    BY <2>2 DEF Family, Continues
  <2> HIDE DEF next
  <2>4. new \in LocalRow
    <3>1. row \in LocalRow /\ c.server \in Image \cup {None}
      BY <1>1, <2>1 DEF Database, Conflict
    <3>2. (IF c.server = None THEN row.version ELSE c.server.version) + 1 \in Nat \ {0}
      BY <3>1 DEF LocalRow, Image
    <3>3. [f \in Fields |->
              IF next.fields # None /\ (f \in Required => next.fields[f] # Blank) THEN next.fields[f]
              ELSE IF f \in Required THEN row.fields[f] ELSE Blank] \in Payload
      BY <2>2, <3>1, BlankIsAValue DEF Payload, LocalRow
    <3>4. "pending" \in SyncStatus
      BY DEF SyncStatus
    <3> HIDE DEF row
    <3> QED BY <3>1, <3>2, <3>3, <3>4 DEF ResolvedRow, LocalRow
  <2> DEFINE g == [decided EXCEPT !.rows[c.op.product] = new]
  <2> HIDE DEF new, row, decided, e
  <2>5. /\ Good(g, own, known, Accepted(F)) /\ Follows(decided, g, F)
        /\ g.queue = decided.queue /\ g.conflicts = decided.conflicts
    BY <1>1, <1>2, <2>4, RowWritten
  <2>6. NextId(c.op.id) \notin QueuedIds(b) /\ ~HasConflict(b, NextId(c.op.id))
    <3>1. \A x \in b.conflicts : x.op.id = c.op.id => x.resolution \notin {"auto_merged", "resolved"}
      BY <1>1 DEF GoodConflicts
    <3>2. GoodBut(b, own, known, Accepted(F), NextId(c.op.id))
      BY GoodIsGoodBut
    <3> QED BY <1>1, <3>1, <3>2, FollowUpIsNew
  <2>7. e = Enqueue(g, next)
    BY <2>1
  <2> HIDE DEF g
  <2>8. next.id \notin QueuedIds(g) /\ ~HasConflict(g, next.id)
    <3>1. QueuedIds(g) = QueuedIds(b)
      BY <1>2, <2>5, SameQueue
    <3>2. HasConflict(g, next.id) <=> HasConflict(b, next.id)
      BY <1>2, <2>5 DEF HasConflict
    <3> QED BY <2>3, <2>6, <3>1, <3>2
  <2>9. Explained(g, next.id)
    BY <1>2, <1>4, <2>3, <2>5 DEF Explained
  <2>10. GoodBut(g, own, known, Accepted(F), next.id)
    BY <2>5, GoodIsGoodBut
  <2>11. Good(e, own, known, Accepted(F)) /\ Follows(g, e, F)
    BY <2>3, <2>7, <2>8, <2>9, <2>10, Enqueued
  <2> QED BY <1>2, <2>5, <2>11, FollowsOn DEF e
<1> QED BY <1>3, <1>4
-----------------------------------------------------------------------------
(* The ledger, as devices store it. *)
LedgerOf(F) ==
    {NewMove(F[s].op, F[s].delta, "synced") : s \in {k \in DOMAIN F : ~IsProductOp(F[k].op)}}

(* The canonical ledger is finite, and its movements are genuine. *)
LEMMA LedgerOfFeed ==
    ASSUME NEW own, NEW known, NEW F, World(own, known, F)
    PROVE  /\ LedgerOf(F) \in SUBSET LocalMove /\ IsFiniteSet(LedgerOf(F))
           /\ \A m, n \in LedgerOf(F) : m.id = n.id => m = n
           /\ \A m \in LedgerOf(F) : Genuine(m, known, Accepted(F))
           /\ \A s \in DOMAIN F : ~IsProductOp(F[s].op) =>
                \E m \in LedgerOf(F) : m.id = F[s].op.id /\ m.delta = F[s].delta
<1> DEFINE I == {k \in DOMAIN F : ~IsProductOp(F[k].op)}
           move(s) == NewMove(F[s].op, F[s].delta, "synced")
<1>1. \A s \in I : s \in DOMAIN F /\ ~IsProductOp(F[s].op) /\ F[s].op \in known
  BY DEF World, FeedOk
<1>2. ASSUME NEW s \in I
      PROVE  /\ move(s) \in LocalMove /\ Genuine(move(s), known, Accepted(F))
             /\ move(s).id = F[s].op.id /\ move(s).delta = F[s].delta
  <2> HIDE DEF move, I
  <2> QED BY <1>1, Canonical DEF move
<1>3. IsFiniteSet(I)
  <2>1. IsFiniteSet(1..Len(F)) /\ I \in SUBSET (1..Len(F))
    BY FS_Interval DEF World, FeedOk
  <2> QED BY <2>1, FS_Subset
<1>4. LedgerOf(F) = {move(s) : s \in I}
  BY DEF LedgerOf
<1>5. \A s \in DOMAIN F : ~IsProductOp(F[s].op) => s \in I
  OBVIOUS
<1> HIDE DEF move, I
<1>6. IsFiniteSet(LedgerOf(F))
  <2> DEFINE f == [s \in I |-> move(s)]
  <2>1. f \in Surjection(I, LedgerOf(F))
    BY <1>4 DEF Surjection
  <2> HIDE DEF f
  <2> QED BY <1>3, <2>1, FS_Surjection
<1>7. \A m \in LedgerOf(F) : \E s \in I : m = move(s)
  BY <1>4
<1>8. \A s \in I : move(s) \in LedgerOf(F)
  BY <1>4
<1>9. \A s, k \in I : F[s].op.id = F[k].op.id => s = k
  BY <1>1 DEF World, FeedOk
<1> QED BY <1>2, <1>5, <1>6, <1>7, <1>8, <1>9

(* A snapshot of the ledger is installed. *)
LEMMA Installed ==
    ASSUME NEW own, NEW known, NEW F, World(own, known, F),
           NEW b, Good(b, own, known, Accepted(F)), NEW snapshot,
           snapshot.products \in [Products -> Image \cup {None}], snapshot.moves = LedgerOf(F),
           snapshot.balances \in [Products -> Int], snapshot.cursor \in Nat,
           \A p \in Products : snapshot.balances[p] = Total(Of(LedgerOf(F), p))
    PROVE  LET e == Install(b, snapshot) IN
           /\ Good(e, own, known, Accepted(F))
           /\ KeepsQueued(b, e, Accepted(F)) /\ KeepsShown(b, e, F)
           /\ \A s \in DOMAIN F : ~IsProductOp(F[s].op) => Holds(e, F[s])
           /\ e.cursor = snapshot.cursor
<1> DEFINE e == Install(b, snapshot)
           rows == [p \in Products |-> IF snapshot.products[p] = None THEN None
                                       ELSE ToLocal(snapshot.products[p], "synced")]
           ledger == LedgerOf(F)
<1>1. b \in Database
  BY DEF Good
<1>2. rows \in [Products -> LocalRow \cup {None}]
  <2>1. \A p \in Products : snapshot.products[p] # None => snapshot.products[p] \in Image
    OBVIOUS
  <2>2. \A image \in Image : ToLocal(image, "synced") \in LocalRow
    BY DEF Image, ToLocal, LocalRow, SyncStatus
  <2> QED BY <2>1, <2>2
<1>3. /\ ledger \in SUBSET LocalMove /\ IsFiniteSet(ledger)
      /\ \A m, n \in ledger : m.id = n.id => m = n
      /\ \A m \in ledger : Genuine(m, known, Accepted(F))
      /\ \A s \in DOMAIN F : ~IsProductOp(F[s].op) =>
            \E m \in ledger : m.id = F[s].op.id /\ m.delta = F[s].delta
  BY LedgerOfFeed
<1>4. e = [b EXCEPT !.rows = rows, !.moves = ledger, !.balance = snapshot.balances,
                    !.cursor = snapshot.cursor]
  BY DEF Install
<1> HIDE DEF e, rows, ledger
<1>5. /\ e \in Database /\ e.queue = b.queue /\ e.conflicts = b.conflicts /\ e.moves = ledger
      /\ e.balance = snapshot.balances /\ e.cursor = snapshot.cursor
  BY <1>1, <1>2, <1>3, <1>4 DEF Database
<1>6. GoodMoves(e, known, Accepted(F))
  BY <1>3, <1>5 DEF GoodMoves
<1>7. GoodBalance(e)
  BY <1>5, BalancesAreOf DEF ledger
<1>8. GoodQueue(e, own) /\ GoodConflicts(e, own, known) /\ GoodLinks(e)
      /\ GoodMerges(e, Accepted(F))
  BY <1>5, SameQueue, SameConflicts, SameOutbox DEF Good
<1>9. KeepsQueued(b, e, Accepted(F)) /\ KeepsShown(b, e, F)
  BY <1>5, SameQueue, SameConflicts DEF KeepsQueued, KeepsShown
<1>10. \A s \in DOMAIN F : ~IsProductOp(F[s].op) => Holds(e, F[s])
  BY <1>3, <1>5 DEF Holds
<1> QED BY <1>5, <1>6, <1>7, <1>8, <1>9, <1>10 DEF Good, e
-----------------------------------------------------------------------------
(* More operations are known, more are accepted. *)
LEMMA GoodGrows ==
    ASSUME NEW own, NEW known, NEW acc, NEW own2, NEW known2, NEW acc2,
           own \subseteq own2, known \subseteq known2, acc \subseteq acc2,
           NEW b, Good(b, own, known, acc)
    PROVE  Good(b, own2, known2, acc2)
<1>1. GoodMoves(b, known2, acc2)
  BY DEF Good, GoodMoves, Genuine
<1>2. GoodQueue(b, own2)
  BY DEF Good, GoodQueue
<1>3. GoodConflicts(b, own2, known2)
  BY DEF Good, GoodConflicts, Choosable
<1>4. GoodMerges(b, acc2)
  BY DEF Good, GoodMerges, Lives
<1> QED BY <1>1, <1>2, <1>3, <1>4 DEF Good

(* The operations that are claimed. *)
LEMMA DueOperations ==
    ASSUME NEW own, NEW b \in Database, GoodQueue(b, own), NEW limit \in Nat
    PROVE  LET due == Due(b, limit) IN
           /\ due \in Seq(Operation) /\ Len(due) <= limit
           /\ \A n \in DOMAIN due : due[n] \in own
           /\ \A n, k \in DOMAIN due : due[n].id = due[k].id => n = k
<1> DEFINE I == {n \in DOMAIN b.queue : b.queue[n].status = "queued"}
           q == At(b.queue, I)
           L == IF Len(q) < limit THEN Len(q) ELSE limit
           due == Due(b, limit)
<1>1. b.queue \in Seq(QueueRow) /\ I \in SUBSET DOMAIN b.queue
  BY DEF Database
<1>2. \A n \in I : n \in DOMAIN b.queue
  OBVIOUS
<1>3. due = [n \in 1..L |-> q[n].op]
  BY DEF Due
<1> HIDE DEF I, q
<1>4. /\ q \in Seq(QueueRow)
      /\ \A m \in DOMAIN q : \E n \in I : q[m] = b.queue[n]
      /\ \A m, k \in DOMAIN q : m # k =>
            \E i, j \in I : i # j /\ q[m] = b.queue[i] /\ q[k] = b.queue[j]
  <2> DEFINE rows == b.queue
             T == QueueRow
  <2> HIDE DEF T, rows
  <2>2. rows \in Seq(T) /\ I \in SUBSET DOMAIN rows
    BY <1>1 DEF rows, T
  <2>3. /\ At(rows, I) \in Seq(T)
        /\ \A m \in DOMAIN At(rows, I) : \E n \in I : At(rows, I)[m] = rows[n]
        /\ \A m, k \in DOMAIN At(rows, I) : m # k =>
              \E i, j \in I : i # j /\ At(rows, I)[m] = rows[i] /\ At(rows, I)[k] = rows[j]
    BY <2>2, AtElements
  <2> QED BY <2>3 DEF rows, T, q
<1>5. Len(q) \in Nat /\ DOMAIN q = 1..Len(q) /\ L \in Nat /\ L <= limit /\ L <= Len(q)
  BY <1>4
<1> HIDE DEF L, due
<1>6. ASSUME NEW n \in 1..L
      PROVE  n \in DOMAIN q /\ q[n].op \in Operation /\ q[n].op \in own
  <2>1. n \in DOMAIN q
    BY <1>5
  <2>2. q[n].op \in Operation
    <3>1. q[n] \in QueueRow
      BY <1>4, <2>1
    <3> QED BY <3>1 DEF QueueRow
  <2>3. q[n].op \in own
    BY <1>2, <1>4, <2>1 DEF GoodQueue
  <2> QED BY <2>1, <2>2, <2>3
<1>7. DOMAIN due = 1..L /\ \A n \in 1..L : due[n] = q[n].op
  BY <1>3
<1>8. due \in Seq(Operation) /\ Len(due) = L
  BY <1>3, <1>5, <1>6
<1>9. ASSUME NEW n \in 1..L, NEW k \in 1..L, q[n].op.id = q[k].op.id, n # k PROVE FALSE
  <2>1. PICK i, j \in I : i # j /\ q[n] = b.queue[i] /\ q[k] = b.queue[j]
    BY <1>4, <1>6, <1>9
  <2> QED BY <1>2, <1>9, <2>1 DEF GoodQueue
<1> QED BY <1>5, <1>6, <1>7, <1>8, <1>9 DEF due
-----------------------------------------------------------------------------
(* TOMBSTONES                                                               *)
(*                                                                         *)
(* E is the set of pairs <<p, n>> such that product p is deleted by change  *)
(* n of the feed, or before it.                                            *)

(* A tombstone that has a stamp was written by then. *)
RowFits(p, row, E) == row # None /\ row.deleted /\ row.stamp \in Nat => <<p, row.stamp>> \in E

Gone(b, p) == b.rows[p] # None /\ b.rows[p].deleted

(* All tombstones of database b were, and the products in G are gone.       *)
Tombed(b, E, G) == (\A p \in Products : RowFits(p, b.rows[p], E)) /\ \A p \in G : Gone(b, p)

(* What a verdict on an operation of product p holds. *)
VerdictTombs(p, r, E) == r.state # None /\ r.state.deleted => RowFits(p, r.state, E)

(* What the changes of a page hold: nothing of a product that is gone.      *)
PageTombs(page, E, G) ==
    \A s \in DOMAIN page : IsProductOp(page[s].op) =>
        RowFits(page[s].op.product, page[s].image, E) /\ page[s].op.product \notin G

(* The same rows, the same tombstones. *)
LEMMA RowsStand ==
    ASSUME NEW E, NEW G, NEW b, Tombed(b, E, G), NEW e, e.rows = b.rows
    PROVE  Tombed(e, E, G)
BY DEF Tombed, Gone

(* A row is replaced, for a product that is gone by another tombstone.      *)
LEMMA RowReplaced ==
    ASSUME NEW E, NEW G, NEW b \in Database, Tombed(b, E, G), NEW p \in Products,
           NEW row \in LocalRow, RowFits(p, row, E), p \in G => row.deleted,
           NEW e, e.rows = [b.rows EXCEPT ![p] = row]
    PROVE  Tombed(e, E, G)
<1>1. \A q : e.rows[q] = IF q = p /\ q \in Products THEN row ELSE b.rows[q]
  BY DEF Database
<1>2. row # None
  BY NoneIsNoData
<1> QED BY <1>1, <1>2 DEF Tombed, Gone

(* A canonical image as a row. *)
LEMMA ImageFits ==
    ASSUME NEW E, NEW p, NEW image \in Image, RowFits(p, image, E) \/ ~image.deleted,
           NEW status \in SyncStatus
    PROVE  LET row == ToLocal(image, status) IN
           row \in LocalRow /\ RowFits(p, row, E) /\ (row.deleted <=> image.deleted)
<1> DEFINE row == ToLocal(image, status)
<1>1. row \in LocalRow /\ row.deleted = image.deleted /\ row.stamp = image.stamp
  BY DEF ToLocal, LocalRow, Image
<1>2. image # None
  BY NoneIsNoData
<1> QED BY <1>1, <1>2 DEF RowFits

(* A product change, or a tombstone of a verdict, restores nothing.         *)
LEMMA ProductKeepsTombs ==
    ASSUME NEW E, NEW G, NEW b \in Database, Tombed(b, E, G), NEW p \in Products,
           NEW image \in Image, RowFits(p, image, E), ApplyProduct(b, p, image) # None
    PROVE  Tombed(ApplyProduct(b, p, image), E, G)
<1> DEFINE e == ApplyProduct(b, p, image)
           old == b.rows[p]
<1>1. CASE e = b
  BY <1>1
<1>2. CASE e # b
  <2>1. e = StoreProduct(b, p, image) /\ (old # None /\ old.deleted => image.deleted)
    BY <1>2 DEF ApplyProduct
  <2>2. PICK status \in SyncStatus : e.rows = [b.rows EXCEPT ![p] = ToLocal(image, status)]
    <3>1. CASE old = None
      <4>1. e = [b EXCEPT !.rows[p] = ToLocal(image, "synced"), !.balance[p] = Total(MovesOf(b, p))]
        BY <2>1, <3>1 DEF StoreProduct
      <4>2. e.rows = [b.rows EXCEPT ![p] = ToLocal(image, "synced")] /\ "synced" \in SyncStatus
        BY <4>1 DEF Database, SyncStatus
      <4> QED BY <4>2
    <3>2. CASE old # None
      <4>1. e = [b EXCEPT !.rows[p] = ToLocal(image, old.status)]
        BY <2>1, <3>2 DEF StoreProduct
      <4>2. old.status \in SyncStatus
        BY <3>2 DEF Database, LocalRow
      <4>3. e.rows = [b.rows EXCEPT ![p] = ToLocal(image, old.status)]
        BY <4>1 DEF Database
      <4> QED BY <4>2, <4>3
    <3> QED BY <3>1, <3>2
  <2> DEFINE row == ToLocal(image, status)
  <2>3. row \in LocalRow /\ RowFits(p, row, E) /\ (row.deleted <=> image.deleted)
    BY ImageFits
  <2>4. p \in G => row.deleted
    BY <2>1, <2>3 DEF Tombed, Gone
  <2> HIDE DEF row, e
  <2> QED BY <2>2, <2>3, <2>4, RowReplaced DEF row, e
<1> QED BY <1>1, <1>2

(* A status restores nothing. *)
LEMMA StatusKeepsTombs ==
    ASSUME NEW E, NEW G, NEW b \in Database, Tombed(b, E, G), NEW op \in Operation,
           NEW status \in SyncStatus
    PROVE  Tombed(SetLocalStatus(b, op, status), E, G)
<1> DEFINE e == SetLocalStatus(b, op, status)
           old == b.rows[op.product]
           row == [old EXCEPT !.status = status]
<1>1. CASE HasConsequence(b, op) /\ IsProductOp(op)
  <2>1. op.product \in Products /\ old \in LocalRow /\ old # None
    BY <1>1 DEF HasConsequence, Database, Operation
  <2>2. row \in LocalRow /\ row.deleted = old.deleted /\ row.stamp = old.stamp
    BY <2>1 DEF LocalRow
  <2>3. e.rows = [b.rows EXCEPT ![op.product] = row]
    BY <1>1, <2>1 DEF SetLocalStatus, Database
  <2>4. RowFits(op.product, row, E) /\ (op.product \in G => row.deleted)
    BY <2>1, <2>2 DEF Tombed, RowFits, Gone
  <2> HIDE DEF e, row
  <2> QED BY <2>1, <2>2, <2>3, <2>4, RowReplaced DEF e
<1>2. CASE ~(HasConsequence(b, op) /\ IsProductOp(op))
  <2>1. e.rows = b.rows
    BY <1>2 DEF SetLocalStatus, Database
  <2> QED BY <2>1, RowsStand
<1> QED BY <1>1, <1>2

(* Nor does the canonical state of an own operation in a page that has      *)
(* nothing of what is gone.                                                *)
LEMMA CanonicalKeepsTombs ==
    ASSUME NEW E, NEW G, NEW b \in Database, Tombed(b, E, G), NEW op \in Operation,
           NEW c, IsProductOp(op) =>
                c.image \in Image /\ RowFits(op.product, c.image, E) /\ op.product \notin G,
           ApplyCanonical(b, op, c) # None
    PROVE  Tombed(ApplyCanonical(b, op, c), E, G)
<1> DEFINE e == ApplyCanonical(b, op, c)
<1>1. op.product \in Products /\ b.rows[op.product] # None
  BY DEF Operation, ApplyCanonical
<1>2. CASE IsProductOp(op)
  <2> DEFINE row == ToLocal(c.image, "synced")
  <2>1. e.rows = [b.rows EXCEPT ![op.product] = row]
    BY <1>1, <1>2 DEF ApplyCanonical, HasConsequence, Database
  <2>2. row \in LocalRow /\ RowFits(op.product, row, E)
    BY <1>2, ImageFits DEF SyncStatus
  <2> HIDE DEF row, e
  <2> QED BY <1>1, <1>2, <2>1, <2>2, RowReplaced DEF e
<1>3. CASE ~IsProductOp(op)
  <2>1. e.rows = b.rows
    BY <1>1, <1>3 DEF ApplyCanonical, InsertCanonical, WithMove, Database
  <2> QED BY <2>1, RowsStand
<1> QED BY <1>2, <1>3

(* Nor does a rejected operation: only an active row is merged.             *)
LEMMA RetainKeepsTombs ==
    ASSUME NEW own, NEW known, NEW F, World(own, known, F), NEW op \in own, OpFits(op),
           NEW b, Good(b, own, known, Accepted(F)), StatusOf(b, op.id) = {"inflight"},
           NEW r, ResultFits(op, r, F), ~r.applied, Retain(b, op, r) # None,
           NEW E, NEW G, Tombed(b, E, G), VerdictTombs(op.product, r, E)
    PROVE  Tombed(Retain(b, op, r), E, G)
<1> DEFINE merge == MergeOf(b, op, r)
           c == [op |-> op, reason |-> r.reason, server |-> r.state,
                 resolution |-> IF merge = None THEN "unresolved" ELSE "auto_merged"]
           kept == Blocked(b, op, c)
           marked == SetLocalStatus(kept, op, "conflict")
           e == Retain(b, op, r)
<1>1. /\ op \in Operation /\ op.id \in OpId /\ op.product \in Products /\ r \in Outcome
      /\ b \in Database
  BY DEF World, Family, Operation, ResultFits, Good
<1>2. /\ c \in Conflict /\ c.op = op
      /\ c.resolution = IF merge = None THEN "unresolved" ELSE "auto_merged"
  <2> HIDE DEF merge
  <2> QED BY <1>1 DEF Conflict, Outcome
<1>3. Choosable(c, own)
  BY <1>1, <1>2 DEF Choosable, ResultFits, OpFits
<1>4. e = IF merge # None THEN FollowUp(kept, op, merge, r.state)
          ELSE IF IsProductOp(op) /\ r.state # None /\ r.state.deleted
          THEN ApplyProduct(marked, op.product, r.state)
          ELSE marked
  BY DEF Retain, Blocked
<1>5. kept.rows = b.rows
  BY <1>1 DEF Blocked, WithConflict, Restatus, Database
<1>6. e # None
  OBVIOUS
<1> HIDE DEF c, e
<1>7. kept \in Database
  BY <1>2, <1>3, OperationBlocked DEF World, GoodBut
<1>8. Tombed(kept, E, G)
  BY <1>5, RowsStand
<1>9. merge # None => Active(b, op.product)
  BY DEF MergeOf
<1> HIDE DEF kept
<1>10. CASE merge # None
  <2> DEFINE next == [op EXCEPT !.id = <<@[1], @[2] + 1>>, !.kind = "edit", !.base = r.state.version,
                                !.fields = merge, !.basis = r.state.fields]
             row == OptimisticRow(kept, next)
  <2>1. merge \in Payload /\ r.state \in Image
    BY <1>1, <1>10, MergeType
  <2> HIDE DEF merge
  <2>2. r.state.version + 1 \in Nat \ {0} /\ "pending" \in SyncStatus
    BY <2>1 DEF Image, SyncStatus
  <2>3. next.product = op.product /\ next.kind = "edit" /\ next.base = r.state.version
        /\ next.fields = merge
    BY <1>1 DEF Operation
  <2>4. e.rows = [kept.rows EXCEPT ![op.product] = row]
    BY <1>1, <1>4, <1>7, <1>10, <2>3 DEF FollowUp, Enqueue, Database
  <2> HIDE DEF next
  <2>5. row \in LocalRow /\ ~row.deleted
    BY <2>1, <2>2, <2>3 DEF OptimisticRow, LocalRow
  <2>6. op.product \notin G
    BY <1>5, <1>9, <1>10 DEF Active, Tombed, Gone
  <2>7. RowFits(op.product, row, E)
    BY <2>5 DEF RowFits
  <2> HIDE DEF row
  <2> QED BY <1>1, <1>7, <1>8, <2>4, <2>5, <2>6, <2>7, RowReplaced DEF e
<1>11. CASE merge = None
  <2>1. "conflict" \in SyncStatus
    BY DEF SyncStatus
  <2>2. Tombed(marked, E, G)
    BY <1>1, <1>7, <1>8, <2>1, StatusKeepsTombs
  <2>3. marked \in Database
    <3>1. Good(kept, own, known, Accepted(F))
      <4>1. c.resolution # "auto_merged"
        BY <1>2, <1>11
      <4> QED BY <1>2, <1>3, <4>1, OperationBlocked DEF World, kept
    <3>2. Good(marked, own, known, Accepted(F))
      <4>1. "conflict" # "synced"
        OBVIOUS
      <4> QED BY <2>1, <3>1, <4>1, StatusSet
    <3> QED BY <3>2 DEF Good
  <2> HIDE DEF marked
  <2>4. CASE IsProductOp(op) /\ r.state # None /\ r.state.deleted
    <3>1. e = ApplyProduct(marked, op.product, r.state) /\ r.state \in Image
      BY <1>1, <1>4, <1>11, <2>4 DEF Outcome
    <3>2. RowFits(op.product, r.state, E)
      BY <2>4 DEF VerdictTombs
    <3>3. ApplyProduct(marked, op.product, r.state) # None
      BY <1>6, <3>1
    <3>4. Tombed(e, E, G)
      BY <1>1, <2>2, <2>3, <3>1, <3>2, <3>3, ProductKeepsTombs
    <3> QED BY <3>4 DEF e
  <2>5. CASE ~(IsProductOp(op) /\ r.state # None /\ r.state.deleted)
    <3>1. e = marked
      BY <1>4, <1>11, <2>5
    <3> QED BY <2>2, <3>1 DEF e
  <2> QED BY <2>4, <2>5
<1> QED BY <1>10, <1>11

(* A result of a response restores nothing. *)
LEMMA SettleKeepsTombs ==
    ASSUME NEW own, NEW known, NEW F, World(own, known, F), NEW op \in own, OpFits(op),
           NEW b, Good(b, own, known, Accepted(F)),
           NEW r, ResultFits(op, r, F), NEW page, PageOf(page, F), Settle(b, op, r, page) # None,
           NEW E, NEW G, Tombed(b, E, G), VerdictTombs(op.product, r, E), PageTombs(page, E, G)
    PROVE  Tombed(Settle(b, op, r, page), E, G)
<1> DEFINE e == Settle(b, op, r, page)
<1>1. StatusOf(b, op.id) = {"inflight"}
  BY DEF Settle
<1>2. CASE ~r.applied
  <2>1. e = Retain(b, op, r) /\ e # None
    BY <1>1, <1>2 DEF Settle, Indexed
  <2>2. Tombed(e, E, G)
    <3> HIDE DEF e
    <3> QED BY <1>1, <1>2, <2>1, RetainKeepsTombs
  <2> QED BY <2>2
<1>3. CASE r.applied
  <2> DEFINE settled == IF r.seq \in DOMAIN page THEN ApplyCanonical(b, op, page[r.seq])
                        ELSE IF HasConsequence(b, op) THEN SetLocalStatus(b, op, "synced")
                        ELSE None
             shown == Displace(settled, r.displaced)
  <2>1. /\ r.seq \in DOMAIN F /\ F[r.seq].op.id = op.id /\ r.displaced = F[r.seq].displaced
        /\ op.id \in Accepted(F) /\ op \in Operation
    BY <1>3 DEF ResultFits, Accepted, World, Family
  <2>2. settled # None /\ e = Dequeue(shown, op.id)
    BY <1>1, <1>3 DEF Settle, Indexed
  <2>3. b \in Database
    BY DEF Good
  <2>4. Good(settled, own, known, Accepted(F)) /\ Tombed(settled, E, G)
    <3>1. CASE r.seq \in DOMAIN page
      <4> DEFINE c == F[r.seq]
      <4>1. settled = ApplyCanonical(b, op, c) /\ page[r.seq] = c
        BY <3>1 DEF PageOf
      <4>2. Alike(c.op, op) /\ (IsProductOp(c.op) => c.image \in Image)
        <5>1. c.op \in known /\ op \in known /\ c.op.id = op.id
          BY <2>1 DEF World, Family, FeedOk
        <5> QED BY <2>1, <5>1 DEF World, Family, FeedOk
      <4>3. IsProductOp(op) =>
               c.image \in Image /\ RowFits(op.product, c.image, E) /\ op.product \notin G
        BY <3>1, <4>1, <4>2 DEF Alike, PageTombs
      <4> HIDE DEF settled, c
      <4>4. Tombed(settled, E, G)
        BY <2>1, <2>2, <2>3, <4>1, <4>3, CanonicalKeepsTombs
      <4>5. Good(settled, own, known, Accepted(F))
        BY <2>1, <2>2, <4>1, CanonicalApplied DEF c
      <4> QED BY <4>4, <4>5
    <3>2. CASE r.seq \notin DOMAIN page
      <4>1. settled = SetLocalStatus(b, op, "synced") /\ "synced" \in SyncStatus
        BY <2>2, <3>2 DEF SyncStatus
      <4> HIDE DEF settled
      <4> QED BY <2>1, <2>3, <4>1, StatusSet, StatusKeepsTombs
    <3> QED BY <3>1, <3>2
  <2> HIDE DEF settled, e
  <2>5. Displaceable(r.displaced, F)
    BY <2>1 DEF World, FeedOk, Displaceable
  <2>6. shown \in Database /\ shown.rows = settled.rows
    BY <2>4, <2>5, Displaced DEF Good
  <2> HIDE DEF shown
  <2>7. e.rows = settled.rows
    BY <2>2, <2>6 DEF Dequeue, Database
  <2> QED BY <2>4, <2>7, RowsStand DEF e
<1> QED BY <1>2, <1>3

(* Nor do all the results of a response. *)
LEMMA BatchKeepsTombs ==
    ASSUME NEW own, NEW known, NEW F, World(own, known, F),
           NEW ops, NEW N \in Nat, DOMAIN ops = 1..N, NEW results,
           \A n \in 1..N : ops[n] \in own /\ OpFits(ops[n]) /\ ResultFits(ops[n], results[n], F),
           NEW page, PageOf(page, F),
           NEW b, Good(b, own, known, Accepted(F)), Reconcile(b, ops, results, page) # None,
           NEW E, NEW G, Tombed(b, E, G), PageTombs(page, E, G),
           \A n \in 1..N : VerdictTombs(ops[n].product, results[n], E)
    PROVE  Tombed(Reconcile(b, ops, results, page), E, G)
<1> DEFINE U == {x \in Database \cup {None} :
                    x # None => Good(x, own, known, Accepted(F)) /\ Tombed(x, E, G)} \cup {b}
<1>1. \A x \in U : x # None => Good(x, own, known, Accepted(F)) /\ Tombed(x, E, G)
  OBVIOUS
<1>2. \A x : Good(x, own, known, Accepted(F)) /\ Tombed(x, E, G) => x \in U
  BY DEF Good
<1>3. None \in U /\ b \in U
  OBVIOUS
<1> HIDE DEF U
<1>4. ASSUME NEW n \in 1..N, NEW x \in U, Settle(x, ops[n], results[n], page) # None
      PROVE  Settle(x, ops[n], results[n], page) \in U
  <2>1. x # None
    BY <1>4 DEF Settle
  <2>2. Good(x, own, known, Accepted(F)) /\ Tombed(x, E, G)
    BY <1>1, <2>1
  <2> DEFINE y == Settle(x, ops[n], results[n], page)
  <2>3. Good(y, own, known, Accepted(F))
    BY <1>4, <2>2, Settled
  <2>4. Tombed(y, E, G)
    BY <1>4, <2>2, SettleKeepsTombs
  <2> QED BY <1>2, <2>3, <2>4
<1>5. SettlesWithin(U, N, ops, results, page)
  BY <1>3, <1>4 DEF SettlesWithin
<1>6. PICK R : IsReconciliation(R, U, N, b, ops, results, page)
  BY <1>3, <1>5, ReconcileRuns
<1>7. N \in 0..N
  OBVIOUS
<1> QED BY <1>1, <1>6, <1>7 DEF IsReconciliation

(* One change of a page restores nothing. *)
LEMMA ChangeKeepsTombs ==
    ASSUME NEW own, NEW known, NEW F, World(own, known, F),
           NEW b, Good(b, own, known, Accepted(F)), NEW s \in DOMAIN F, ApplyChange(b, F[s]) # None,
           NEW E, NEW G, Tombed(b, E, G),
           IsProductOp(F[s].op) => RowFits(F[s].op.product, F[s].image, E)
    PROVE  Tombed(ApplyChange(b, F[s]), E, G)
<1> DEFINE c == F[s]
           e == ApplyChange(b, c)
<1>1. /\ c.op \in Operation /\ c.op.product \in Products /\ (IsProductOp(c.op) => c.image \in Image)
      /\ b \in Database
  BY DEF World, FeedOk, Family, Operation, Good
<1>2. CASE IsProductOp(c.op)
  <2>1. e = ApplyProduct(b, c.op.product, c.image)
    BY <1>2 DEF ApplyChange
  <2> HIDE DEF e, c
  <2>2. e # None /\ RowFits(c.op.product, c.image, E)
    BY <1>2 DEF e, c
  <2>3. Tombed(e, E, G)
    BY <1>1, <1>2, <2>1, <2>2, ProductKeepsTombs
  <2> QED BY <2>3 DEF e, c
<1>3. CASE ~IsProductOp(c.op)
  <2>1. e = ApplyMove(b, c) /\ e # None
    BY <1>3 DEF ApplyChange
  <2>2. e = InsertRemote(b, c) \/ e = Displace(b, c.displaced)
    BY <2>1 DEF ApplyMove
  <2>3. e.rows = b.rows
    BY <1>1, <2>2 DEF InsertRemote, Displace, WithMove, Database
  <2> QED BY <2>3, RowsStand
<1> QED BY <1>2, <1>3

(* What the changes of a list hold. *)
ListTombs(changes, N, E) ==
    \A n \in 1..N : IsProductOp(changes[n].op) => RowFits(changes[n].op.product, changes[n].image, E)

(* Nor do the product changes of a page, or its movements. *)
LEMMA KindKeepsTombs ==
    ASSUME NEW own, NEW known, NEW F, World(own, known, F), NEW N \in Nat, NEW from \in Nat,
           NEW changes, ChangesAfter(changes, from, N, F), NEW fresh, NEW products \in BOOLEAN,
           NEW b, Good(b, own, known, Accepted(F)), ApplyKind(b, changes, fresh, products) # None,
           NEW E, NEW G, Tombed(b, E, G), ListTombs(changes, N, E)
    PROVE  Tombed(ApplyKind(b, changes, fresh, products), E, G)
<1> DEFINE U == {x \in Database \cup {None} :
                    x # None => Good(x, own, known, Accepted(F)) /\ Tombed(x, E, G)} \cup {b}
<1>1. \A x \in U : x # None => Good(x, own, known, Accepted(F)) /\ Tombed(x, E, G)
  OBVIOUS
<1>2. \A x : Good(x, own, known, Accepted(F)) /\ Tombed(x, E, G) => x \in U
  BY DEF Good
<1>3. None \in U /\ b \in U
  OBVIOUS
<1> HIDE DEF U
<1>4. ASSUME NEW n \in 1..N, NEW x \in U PROVE StepOf(x, n, changes, fresh, products) \in U
  <2> DEFINE y == StepOf(x, n, changes, fresh, products)
  <2>1. from + n \in DOMAIN F /\ changes[n] = F[from + n]
    BY DEF ChangesAfter
  <2>2. CASE y = x \/ y = None
    BY <1>3, <2>2
  <2>3. CASE y # x /\ y # None
    <3>1. y = ApplyChange(x, F[from + n])
      BY <2>1, <2>3 DEF StepOf
    <3>2. x # None
      BY <2>3, <3>1 DEF ApplyChange
    <3>3. Good(x, own, known, Accepted(F)) /\ Tombed(x, E, G)
      BY <1>1, <3>2
    <3> HIDE DEF y
    <3>4. Good(y, own, known, Accepted(F))
      BY <2>1, <2>3, <3>1, <3>3, ChangeApplied
    <3>5. IsProductOp(F[from + n].op) => RowFits(F[from + n].op.product, F[from + n].image, E)
      BY <2>1 DEF ListTombs
    <3>6. Tombed(y, E, G)
      BY <2>1, <2>3, <3>1, <3>3, <3>5, ChangeKeepsTombs
    <3> QED BY <1>2, <3>4, <3>6 DEF y
  <2> QED BY <2>2, <2>3
<1>5. AppliesWithin(U, N, changes, fresh, products)
  BY <1>4 DEF AppliesWithin
<1>6. PICK R : IsApplication(R, U, N, b, changes, fresh, products)
  BY <1>3, <1>5, ApplyKindRuns DEF ChangesAfter
<1>7. N \in 0..N
  OBVIOUS
<1> QED BY <1>1, <1>6, <1>7 DEF IsApplication

(* Nor does a page. *)
LEMMA PageKeepsTombs ==
    ASSUME NEW own, NEW known, NEW F, World(own, known, F), NEW N \in Nat, NEW from \in Nat,
           NEW changes, ChangesAfter(changes, from, N, F), NEW fresh, NEW last \in Nat,
           NEW b, Good(b, own, known, Accepted(F)), ApplyPage(b, from, changes, fresh, last) # None,
           NEW E, NEW G, Tombed(b, E, G), ListTombs(changes, N, E)
    PROVE  Tombed(ApplyPage(b, from, changes, fresh, last), E, G)
<1> DEFINE g == ApplyKind(b, changes, fresh, TRUE)
           h == ApplyKind(g, changes, fresh, FALSE)
           e == ApplyPage(b, from, changes, fresh, last)
<1>1. h # None /\ e = [h EXCEPT !.cursor = last]
  BY DEF ApplyPage
<1>2. CASE g = None
  BY <1>1, <1>2, NothingApplied DEF ChangesAfter
<1>3. CASE g # None
  <2> HIDE DEF e
  <2>1. Good(g, own, known, Accepted(F)) /\ Tombed(g, E, G)
    BY <1>3, KindApplied, KindKeepsTombs
  <2> HIDE DEF g
  <2>2. Good(h, own, known, Accepted(F)) /\ Tombed(h, E, G)
    BY <1>1, <2>1, KindApplied, KindKeepsTombs
  <2> HIDE DEF h
  <2>3. e.rows = h.rows
    BY <1>1, <2>2 DEF Good, Database
  <2> QED BY <2>2, <2>3, RowsStand DEF e
<1> QED BY <1>2, <1>3
-----------------------------------------------------------------------------
(* Only an active product can be mutated. *)
LEMMA MutateKeepsTombs ==
    ASSUME NEW b \in Database, NEW i \in Intent, i.kind = "count" => i.qty \in Nat,
           Mutate(b, i) # None, NEW E, NEW G, Tombed(b, E, G)
    PROVE  Tombed(Mutate(b, i), E, G)
<1> DEFINE op == OperationFor(b, i)
           row == OptimisticRow(b, op)
           e == Mutate(b, i)
<1>1. /\ Mutable(b, i)
      /\ e = Enqueue(IF IsProductOp(op) THEN [b EXCEPT !.rows[op.product] = row]
                     ELSE WithMove(b, NewMove(op, op.delta, "pending")), op)
  BY DEF Mutate, Indexed
<1>2. /\ op \in Operation /\ op.product = i.product /\ i.product \in Products /\ op.kind = i.kind
      /\ op.kind \in {"create", "edit"} => op.fields \in Payload
      /\ IsProductOp(op) <=> i.kind \in {"create", "edit", "delete"}
  BY <1>1, OperationOf DEF Intent
<1>3. op.kind = "delete" => b.rows[op.product] \in LocalRow
  BY <1>1, <1>2 DEF Mutable, Active, Database
<1> HIDE DEF op, e
<1>4. CASE IsProductOp(op)
  <2>1. row \in LocalRow /\ RowFits(op.product, row, E)
    <3>1. op.base + 1 \in Nat \ {0} /\ "pending" \in SyncStatus
      BY <1>2 DEF Operation, SyncStatus
    <3>2. (IF op.kind = "delete" THEN b.rows[op.product].fields ELSE op.fields) \in Payload
      BY <1>2, <1>3, <1>4 DEF LocalRow, IsProductOp
    <3>3. row \in LocalRow /\ row.stamp = None
      BY <3>1, <3>2 DEF OptimisticRow, LocalRow
    <3> QED BY <3>3, NoneIsNoData DEF RowFits
  <2>2. op.product \notin G
    <3>1. b.rows[op.product] = None \/ Active(b, op.product)
      BY <1>1, <1>2 DEF Mutable
    <3> QED BY <3>1 DEF Active, Tombed, Gone
  <2> HIDE DEF row
  <2>3. e.rows = [b.rows EXCEPT ![op.product] = row]
    BY <1>1, <1>4 DEF Enqueue, Database
  <2> QED BY <1>2, <2>1, <2>2, <2>3, RowReplaced DEF e
<1>5. CASE ~IsProductOp(op)
  <2>1. e.rows = b.rows
    BY <1>1, <1>5 DEF Enqueue, WithMove, Database
  <2> QED BY <2>1, RowsStand DEF e
<1> QED BY <1>4, <1>5

(* A resolution changes one product at most; a review changes none.         *)
LEMMA ResolveKeepsTombs ==
    ASSUME NEW own, NEW known, NEW F, Family(own, known),
           NEW b, Good(b, own, known, Accepted(F)),
           NEW c \in b.conflicts, c.resolution = "unresolved", NEW choice \in Offers(c),
           Resolve(b, c, choice) # None, NEW E, NEW G, Tombed(b, E, G),
           choice # "reviewed" => c.op.product \notin G
    PROVE  Tombed(Resolve(b, c, choice), E, G)
<1> DEFINE decided == Settling(b, c, IF choice = "reviewed" THEN "reviewed" ELSE "resolved")
           next == RetryOf(c, choice)
           row == b.rows[c.op.product]
           new == ResolvedRow(row, next.fields, c.server)
           e == Resolve(b, c, choice)
<1>1. /\ b \in Database /\ c \in Conflict /\ c.op \in known /\ c.op.product \in Products
      /\ Choosable(c, own)
  BY DEF Good, GoodConflicts, Family, Operation, Database
<1>2. decided.rows = b.rows
  BY <1>1 DEF Settling, WithConflict, Database
<1>3. CASE choice = "reviewed"
  <2>1. e = decided
    BY <1>3 DEF Resolve, Settling
  <2> QED BY <1>2, <2>1, RowsStand
<1>4. CASE choice # "reviewed"
  <2>1. /\ row # None
        /\ e = Enqueue([decided EXCEPT !.rows[c.op.product] = new], next)
    BY <1>4 DEF Resolve, Indexed, Settling
  <2>2. next.fields \in Payload \cup {None}
    BY <1>1, <1>4, RetryContinues
  <2> HIDE DEF next
  <2>3. new \in LocalRow /\ ~new.deleted
    <3>1. row \in LocalRow /\ c.server \in Image \cup {None}
      BY <1>1, <2>1 DEF Database, Conflict
    <3>2. (IF c.server = None THEN row.version ELSE c.server.version) + 1 \in Nat \ {0}
      BY <3>1 DEF LocalRow, Image
    <3>3. [f \in Fields |->
              IF next.fields # None /\ (f \in Required => next.fields[f] # Blank) THEN next.fields[f]
              ELSE IF f \in Required THEN row.fields[f] ELSE Blank] \in Payload
      BY <2>2, <3>1, BlankIsAValue DEF Payload, LocalRow
    <3>4. "pending" \in SyncStatus
      BY DEF SyncStatus
    <3> HIDE DEF row
    <3> QED BY <3>1, <3>2, <3>3, <3>4 DEF ResolvedRow, LocalRow
  <2>4. RowFits(c.op.product, new, E)
    BY <2>3 DEF RowFits
  <2> HIDE DEF new, row, e
  <2>5. e.rows = [b.rows EXCEPT ![c.op.product] = new]
    <3>1. decided \in [rows : [Products -> LocalRow \cup {None}], moves : SUBSET LocalMove,
                       balance : [Products -> Int], queue : Seq(QueueRow),
                       conflicts : {decided.conflicts}, cursor : Nat]
      BY <1>1 DEF Settling, WithConflict, Database
    <3> HIDE DEF decided
    <3> QED BY <1>2, <2>1, <3>1 DEF Enqueue
  <2> QED BY <1>1, <1>4, <2>3, <2>4, <2>5, RowReplaced DEF e
<1> QED BY <1>3, <1>4

(* A snapshot has the tombstones of the catalog. *)
LEMMA InstallKeepsTombs ==
    ASSUME NEW b \in Database, NEW snapshot, snapshot.products \in [Products -> Image \cup {None}],
           NEW E, \A p \in Products : RowFits(p, snapshot.products[p], E),
           NEW G \in SUBSET Products,
           \A p \in G : snapshot.products[p] # None /\ snapshot.products[p].deleted
    PROVE  Tombed(Install(b, snapshot), E, G)
<1> DEFINE e == Install(b, snapshot)
<1>1. \A p \in Products : e.rows[p] = IF snapshot.products[p] = None THEN None
                                      ELSE ToLocal(snapshot.products[p], "synced")
  BY DEF Install, Database
<1> HIDE DEF e
<1>2. ASSUME NEW p \in Products, snapshot.products[p] # None
      PROVE  /\ e.rows[p] \in LocalRow /\ RowFits(p, e.rows[p], E)
             /\ e.rows[p].deleted <=> snapshot.products[p].deleted
  <2>1. snapshot.products[p] \in Image /\ "synced" \in SyncStatus
    BY <1>2 DEF SyncStatus
  <2> QED BY <1>1, <1>2, <2>1, ImageFits
<1>3. \A p \in Products : RowFits(p, e.rows[p], E)
  BY <1>1, <1>2 DEF RowFits
<1>4. \A p \in G : Gone(e, p)
  BY <1>2, NoneIsNoData DEF Gone
<1> QED BY <1>3, <1>4 DEF Tombed, e
=============================================================================
