----------------------- MODULE SyncTransactionsProofs -----------------------
(***************************************************************************)
(* Proofs about SyncTransactions, for every set of operations, workers,    *)
(* products, accounts and replicas.                                        *)
(***************************************************************************)
EXTENDS SyncTransactions, Sequences, TLAPS

(* The fields of an operation. *)
LEMMA OpFields ==
    ASSUME NEW o \in Ops
    PROVE  /\ o.account \in Accounts
           /\ o.kind \in {"upsert", "delete", "move"}
           /\ o.product \in Products
           /\ o.base \in Nat
           /\ o.delta \in Int
BY OpsAssumption DEF Operation

(* An edit, a delete and a movement turn a row into a row. *)
LEMMA ChangedRowIsRow ==
    ASSUME NEW row \in Row
    PROVE  /\ [row EXCEPT !.version = @ + 1] \in Row
           /\ [row EXCEPT !.version = @ + 1, !.deleted = TRUE] \in Row
           /\ \A delta \in Int : [row EXCEPT !.qty = @ + delta] \in Row
<1>1. row.version \in Nat /\ row.qty \in Int
  BY DEF Row
<1>2. row.version + 1 \in Nat
  BY <1>1
<1>3. [row EXCEPT !.version = row.version + 1] \in Row
  BY <1>2 DEF Row
<1>4. [row EXCEPT !.version = row.version + 1, !.deleted = TRUE] \in Row
  BY <1>2 DEF Row
<1>5. ASSUME NEW delta \in Int PROVE [row EXCEPT !.qty = row.qty + delta] \in Row
  <2>1. row.qty + delta \in Int
    BY <1>1
  <2> QED BY <2>1 DEF Row
<1> QED BY <1>3, <1>4, <1>5

(* The locals of a transaction that has a job. *)
HasJob == \A w \in Workers : pc[w] # "idle" => job[w] \in Ops

(* A transaction that allocated a sequence or is about to holds a row. *)
HasDraft ==
    \A w \in Workers :
        pc[w] = "sequence" \/ (pc[w] = "finalize" /\ verdict[w] = "applied")
            => draft[w] \in Row

(* A transaction is rejected in its last step only. *)
AppliedUntilRejected ==
    \A w \in Workers : pc[w] # "finalize" => verdict[w] = "applied"

TypeInv == TypeOK /\ HasJob /\ HasDraft /\ AppliedUntilRejected

(* Whatever the mutation drafts is a row. *)
LEMMA DraftIsRow ==
    ASSUME TypeInv, NEW w \in Workers, NEW p \in Products, NEW row \in Row,
           pc[w] = "mutate", Write(w, p, row)
    PROVE  TypeInv'
BY DEF TypeInv, TypeOK, HasJob, HasDraft, AppliedUntilRejected, Write, Steps, tables, replicas

LEMMA RejectKeepsTypes ==
    ASSUME TypeInv, NEW w \in Workers, NEW reason, pc[w] # "idle", Reject(w, reason)
    PROVE  TypeInv'
BY DEF TypeInv, TypeOK, HasJob, HasDraft, AppliedUntilRejected, Reject, Rejections, Verdicts,
       Steps, tables, locks, replicas

LEMMA MissKeepsTypes ==
    ASSUME TypeInv, NEW w \in Workers, pc[w] = "mutate", Miss(w)
    PROVE  TypeInv'
BY DEF TypeInv, TypeOK, HasJob, HasDraft, AppliedUntilRejected, Miss,
       Steps, tables, locks, replicas

LEMMA ResetKeepsTypes ==
    ASSUME TypeInv, NEW w \in Workers, Reset(w), UNCHANGED replicas,
           catalog' \in [Products -> Row \cup {None}],
           outcomes' \in [Ops -> Outcome \cup {None}],
           changeLog' \subseteq Change,
           lastSeq' \in Nat,
           keyLock' \in [Ops -> Workers \cup {None}],
           rowLock' \in [Products -> Workers \cup {None}],
           seqLock' \in Workers \cup {None}
    PROVE  TypeInv'
BY DEF TypeInv, TypeOK, HasJob, HasDraft, AppliedUntilRejected, Reset, Verdicts, Steps, replicas

LEMMA ReleaseKeepsTypes ==
    ASSUME TypeInv, NEW w \in Workers, Release(w)
    PROVE  /\ keyLock' \in [Ops -> Workers \cup {None}]
           /\ rowLock' \in [Products -> Workers \cup {None}]
           /\ seqLock' \in Workers \cup {None}
BY DEF TypeInv, TypeOK, Release

LEMMA RollbackKeepsTypes ==
    ASSUME TypeInv, NEW w \in Workers, Rollback(w)
    PROVE  TypeInv'
<1>1. Reset(w) /\ Release(w) /\ UNCHANGED tables /\ UNCHANGED replicas
  BY DEF Rollback
<1> QED
  BY <1>1, ResetKeepsTypes, ReleaseKeepsTypes DEF TypeInv, TypeOK, tables

LEMMA InitTypes == Init => TypeInv
BY ReaderAssumption, NoneAssumption
   DEF Init, TypeInv, TypeOK, HasJob, HasDraft, AppliedUntilRejected, NoView, Verdicts, Steps

LEMMA NextTypes == TypeInv /\ [Next]_vars => TypeInv'
<1> SUFFICES ASSUME TypeInv, [Next]_vars PROVE TypeInv'
  OBVIOUS
<1>1. ASSUME NEW w \in Workers, NEW o \in Ops, Begin(w, o) PROVE TypeInv'
  BY <1>1 DEF Begin, TypeInv, TypeOK, HasJob, HasDraft, AppliedUntilRejected, Steps,
              tables, locks, replicas
<1>2. ASSUME NEW w \in Workers, Reserve(w) PROVE TypeInv'
  <2>1. job[w] \in Ops
    BY <1>2 DEF Reserve, TypeInv, HasJob
  <2>2. CASE outcomes[job[w]] # None
    BY <1>2, <2>2, ResetKeepsTypes DEF Reserve, TypeInv, TypeOK, tables, locks
  <2>3. CASE outcomes[job[w]] = None
    BY <1>2, <2>1, <2>3
    DEF Reserve, TypeInv, TypeOK, HasJob, HasDraft, AppliedUntilRejected, Steps, tables, replicas
  <2> QED BY <2>2, <2>3
<1>3. ASSUME NEW w \in Workers, Lookup(w) PROVE TypeInv'
  <2>1. pc[w] = "lookup" /\ job[w] \in Ops
    BY <1>3 DEF Lookup, TypeInv, HasJob
  <2>2. ASSUME NEW reason, Reject(w, reason) PROVE TypeInv'
    BY <2>1, <2>2, RejectKeepsTypes
  <2>3. CASE pc' = [pc EXCEPT ![w] = "mutate"]
    <3>1. /\ lookup' = [lookup EXCEPT ![w] = catalog[job[w].product]]
          /\ UNCHANGED <<tables, locks, job, draft, verdict, seq, replicas>>
      <4>1. pc'[w] # "finalize"
        BY <2>1, <2>3 DEF TypeInv, TypeOK
      <4>2. \A reason : ~Reject(w, reason)
        BY <4>1 DEF Reject, TypeInv, TypeOK
      <4> QED BY <1>3, <4>2 DEF Lookup
    <3>2. catalog[job[w].product] \in Row \cup {None}
      BY <2>1, OpFields DEF TypeInv, TypeOK
    <3> QED
      BY <2>1, <2>3, <3>1, <3>2
      DEF TypeInv, TypeOK, HasJob, HasDraft, AppliedUntilRejected, Steps, tables, locks, replicas
  <2> QED BY <1>3, <2>2, <2>3 DEF Lookup
<1>4. ASSUME NEW w \in Workers, CreateProduct(w) PROVE TypeInv'
  <2> DEFINE o == job[w]
             row == [owner |-> o.account, version |-> 1, deleted |-> FALSE, qty |-> 0]
  <2>1. pc[w] = "mutate" /\ o \in Ops
    BY <1>4 DEF CreateProduct, TypeInv, HasJob
  <2>2. row \in Row /\ o.product \in Products
    BY <2>1, OpFields DEF Row
  <2>3. CASE catalog[o.product] = None
    <3>1. Write(w, o.product, row)
      BY <1>4, <2>3 DEF CreateProduct
    <3> QED BY <2>1, <2>2, <3>1, DraftIsRow
  <2>4. CASE catalog[o.product] # None
    BY <1>4, <2>1, <2>4
    DEF CreateProduct, TypeInv, TypeOK, HasJob, HasDraft, AppliedUntilRejected, Steps,
        tables, locks, replicas
  <2> QED BY <2>3, <2>4
<1>5. ASSUME NEW w \in Workers, UpdateProduct(w) PROVE TypeInv'
  <2> DEFINE o == job[w]
             row == [catalog[o.product] EXCEPT !.version = @ + 1]
  <2>1. pc[w] = "mutate" /\ o \in Ops /\ o.product \in Products
    BY <1>5, OpFields DEF UpdateProduct, TypeInv, HasJob
  <2>2. CASE EditMatches(o)
    <3>1. row \in Row
      BY <2>1, <2>2, ChangedRowIsRow DEF EditMatches, Active, TypeInv, TypeOK
    <3>2. Write(w, o.product, row)
      BY <1>5, <2>2 DEF UpdateProduct
    <3> QED BY <2>1, <3>1, <3>2, DraftIsRow
  <2>3. CASE ~EditMatches(o)
    BY <1>5, <2>1, <2>3, MissKeepsTypes DEF UpdateProduct
  <2> QED BY <2>2, <2>3
<1>6. ASSUME NEW w \in Workers, SoftDeleteProduct(w) PROVE TypeInv'
  <2> DEFINE o == job[w]
             row == [catalog[o.product] EXCEPT !.version = @ + 1, !.deleted = TRUE]
  <2>1. pc[w] = "mutate" /\ o \in Ops /\ o.product \in Products
    BY <1>6, OpFields DEF SoftDeleteProduct, TypeInv, HasJob
  <2>2. CASE o.base = 0
    BY <1>6, <2>1, <2>2, RejectKeepsTypes DEF SoftDeleteProduct
  <2>3. CASE o.base # 0 /\ DeleteMatches(o)
    <3>1. row \in Row
      BY <2>1, <2>3, ChangedRowIsRow DEF DeleteMatches, Active, TypeInv, TypeOK
    <3>2. Write(w, o.product, row)
      BY <1>6, <2>3 DEF SoftDeleteProduct
    <3> QED BY <2>1, <3>1, <3>2, DraftIsRow
  <2>4. CASE o.base # 0 /\ ~DeleteMatches(o)
    BY <1>6, <2>1, <2>4, MissKeepsTypes DEF SoftDeleteProduct
  <2> QED BY <2>2, <2>3, <2>4
<1>7. ASSUME NEW w \in Workers, AppendMovement(w) PROVE TypeInv'
  <2> DEFINE o == job[w]
             row == [catalog[o.product] EXCEPT !.qty = @ + o.delta]
  <2>1. pc[w] = "mutate" /\ o \in Ops /\ o.product \in Products /\ o.delta \in Int
    BY <1>7, OpFields DEF AppendMovement, TypeInv, HasJob
  <2>2. CASE Active(o.product, o.account)
    <3>1. row \in Row
      BY <2>1, <2>2, ChangedRowIsRow DEF Active, TypeInv, TypeOK
    <3>2. Write(w, o.product, row)
      BY <1>7, <2>2 DEF AppendMovement
    <3> QED BY <2>1, <3>1, <3>2, DraftIsRow
  <2>3. CASE ~Active(o.product, o.account)
    BY <1>7, <2>1, <2>3, MissKeepsTypes DEF AppendMovement
  <2> QED BY <2>2, <2>3
<1>8. ASSUME NEW w \in Workers, Classify(w) PROVE TypeInv'
  <2>1. PICK reason : Reject(w, reason)
    BY <1>8 DEF Classify
  <2> QED BY <1>8, <2>1, RejectKeepsTypes DEF Classify
<1>9. ASSUME NEW w \in Workers, AllocateSequence(w) PROVE TypeInv'
  BY <1>9 DEF AllocateSequence, NextSeq, TypeInv, TypeOK, HasJob, HasDraft,
              AppliedUntilRejected, Steps, tables, replicas
<1>10. ASSUME NEW w \in Workers, Commit(w) PROVE TypeInv'
  <2> DEFINE o == job[w]
             stored == [verdict |-> verdict[w], seq |-> seq[w]]
             change == [seq |-> seq[w], op |-> o, row |-> draft[w]]
  <2>1. o \in Ops /\ o.product \in Products /\ seq[w] \in Nat /\ Reset(w) /\ UNCHANGED replicas
    BY <1>10, OpFields DEF Commit, TypeInv, TypeOK, HasJob
  <2>2. outcomes' \in [Ops -> Outcome \cup {None}]
    <3>1. stored \in Outcome
      BY <2>1 DEF Outcome, TypeInv, TypeOK
    <3>2. outcomes' = [outcomes EXCEPT ![o] = stored]
      BY <1>10 DEF Commit
    <3> QED BY <2>1, <3>1, <3>2 DEF TypeInv, TypeOK
  <2>3. /\ catalog' \in [Products -> Row \cup {None}]
        /\ changeLog' \subseteq Change
        /\ lastSeq' \in Nat
    <3>1. CASE verdict[w] = "applied"
      <4>1. draft[w] \in Row
        BY <1>10, <3>1 DEF Commit, TypeInv, HasDraft
      <4>2. change \in Change
        BY <2>1, <4>1 DEF Change
      <4>3. /\ catalog' = [catalog EXCEPT ![o.product] = draft[w]]
            /\ changeLog' = changeLog \cup {change}
            /\ lastSeq' = seq[w]
        BY <1>10, <3>1 DEF Commit
      <4> QED BY <2>1, <4>1, <4>2, <4>3 DEF TypeInv, TypeOK
    <3>2. CASE verdict[w] # "applied"
      BY <1>10, <3>2 DEF Commit, TypeInv, TypeOK
    <3> QED BY <3>1, <3>2
  <2>4. Release(w)
    BY <1>10 DEF Commit
  <2> HIDE DEF o, stored, change
  <2> QED
    BY <2>1, <2>2, <2>3, <2>4, ResetKeepsTypes, ReleaseKeepsTypes
<1>11. ASSUME NEW w \in Workers, Fail(w) \/ Abort(w) PROVE TypeInv'
  BY <1>11, RollbackKeepsTypes DEF Fail, Abort
<1>12. ASSUME NEW r \in Readers, SnapshotOpen(r) PROVE TypeInv'
  <2>1. [changes |-> changeLog, last |-> lastSeq] \in [changes : SUBSET Change, last : Nat]
    BY DEF TypeInv, TypeOK
  <2> QED
    BY <1>12, <2>1 DEF SnapshotOpen, TypeInv, TypeOK, HasJob, HasDraft, AppliedUntilRejected,
                 tables, locks, txn
<1>13. ASSUME NEW r \in Readers, SnapshotRead(r) PROVE TypeInv'
  <2>1. /\ view[r].last \in Nat
        /\ {c.seq : c \in {x \in view[r].changes : x.op.account = AccountOf[r]}} \subseteq Nat
        /\ NoView \in [changes : SUBSET Change, last : Nat]
    BY DEF TypeInv, TypeOK, Change, NoView
  <2> QED
    BY <1>13, <2>1 DEF SnapshotRead, TypeInv, TypeOK, HasJob, HasDraft, AppliedUntilRejected,
                 tables, locks, txn
<1>14. ASSUME NEW r \in Readers, Pull(r) PROVE TypeInv'
  <2> DEFINE S == After(AccountOf[r], cursor[r])
  <2>1. S \subseteq Nat
    BY DEF After, TypeInv, TypeOK, Change
  <2>2. PICK n \in S : /\ cursor' = [cursor EXCEPT ![r] = n]
                       /\ held' = [held EXCEPT ![r] = @ \cup {s \in S : s <= n}]
    BY <1>14 DEF Pull
  <2> HIDE DEF S
  <2> QED
    BY <1>14, <2>1, <2>2 DEF Pull, TypeInv, TypeOK, HasJob, HasDraft, AppliedUntilRejected,
                 tables, locks, txn
<1>15. ASSUME UNCHANGED vars PROVE TypeInv'
  BY <1>15 DEF TypeInv, TypeOK, HasJob, HasDraft, AppliedUntilRejected,
               vars, tables, locks, txn, replicas
<1> QED
  BY <1>1, <1>2, <1>3, <1>4, <1>5, <1>6, <1>7, <1>8, <1>9, <1>10, <1>11, <1>12, <1>13,
     <1>14, <1>15 DEF Next, Worker

(* TypeOK holds in every reachable state: no statement stores a value of   *)
(* the wrong kind, whichever transactions, aborts and replicas interleave. *)
THEOREM TypeCorrect == Spec => []TypeOK
<1>1. Spec => []TypeInv
  BY InitTypes, NextTypes, PTL DEF Spec
<1>2. TypeInv => TypeOK
  BY DEF TypeInv
<1> QED BY <1>1, <1>2, PTL
-----------------------------------------------------------------------------
(* Every step is one of three kinds: a statement inside a transaction or its *)
(* rollback, a commit, or a step of a replica.                             *)
LEMMA StepKinds ==
    ASSUME [Next]_vars
    PROVE  \/ UNCHANGED <<tables, replicas>>
           \/ \E w \in Workers : Commit(w)
           \/ \E r \in Readers : SnapshotOpen(r) \/ SnapshotRead(r) \/ Pull(r)
<1>1. ASSUME NEW w \in Workers, Worker(w), ~Commit(w) PROVE UNCHANGED <<tables, replicas>>
  <2>1. ASSUME NEW reason, Reject(w, reason) PROVE UNCHANGED <<tables, replicas>>
    BY <2>1 DEF Reject
  <2>2. ASSUME NEW p, NEW row, Write(w, p, row) PROVE UNCHANGED <<tables, replicas>>
    BY <2>2 DEF Write
  <2>3. ASSUME Miss(w) PROVE UNCHANGED <<tables, replicas>>
    BY <2>3 DEF Miss
  <2>4. ASSUME Reserve(w) \/ AllocateSequence(w) \/ Fail(w) PROVE UNCHANGED <<tables, replicas>>
    BY <2>4 DEF Reserve, AllocateSequence, Fail, Rollback
  <2>5. ASSUME Lookup(w) \/ Classify(w) PROVE UNCHANGED <<tables, replicas>>
    BY <2>1, <2>5 DEF Lookup, Classify
  <2>6. ASSUME CreateProduct(w) \/ UpdateProduct(w) \/ SoftDeleteProduct(w) \/ AppendMovement(w)
        PROVE  UNCHANGED <<tables, replicas>>
    BY <2>1, <2>2, <2>3, <2>6 DEF CreateProduct, UpdateProduct, SoftDeleteProduct, AppendMovement
  <2> QED BY <1>1, <2>4, <2>5, <2>6 DEF Worker
<1>2. ASSUME NEW w \in Workers, NEW o \in Ops, Begin(w, o) PROVE UNCHANGED <<tables, replicas>>
  BY <1>2 DEF Begin
<1>3. ASSUME NEW w \in Workers, Abort(w) PROVE UNCHANGED <<tables, replicas>>
  BY <1>3 DEF Abort, Rollback
<1>4. ASSUME UNCHANGED vars PROVE UNCHANGED <<tables, replicas>>
  BY <1>4 DEF vars
<1> QED BY <1>1, <1>2, <1>3, <1>4 DEF Next
-----------------------------------------------------------------------------
(* Who holds which lock, by the step the transaction is at. *)
KeyHeld(w) == pc[w] \in {"lookup", "mutate", "classify", "doomed", "sequence", "finalize"}
CounterHeld(w) == pc[w] = "finalize" /\ verdict[w] = "applied"
RowHeld(w) == pc[w] = "sequence" \/ CounterHeld(w)

LockInv ==
    /\ \A w \in Workers, o \in Ops : keyLock[o] = w <=> KeyHeld(w) /\ job[w] = o
    /\ \A o \in Ops : keyLock[o] # None => outcomes[o] = None
    /\ \A w \in Workers : seqLock = w <=> CounterHeld(w)
    /\ \A w \in Workers : CounterHeld(w) => seq[w] = lastSeq + 1
    /\ \A w \in Workers : RowHeld(w) => rowLock[job[w].product] = w

LEMMA InitLocks == Init => LockInv
BY NoneAssumption DEF Init, LockInv, KeyHeld, CounterHeld, RowHeld

LEMMA WriteKeepsLocks ==
    ASSUME TypeInv, LockInv, NEW w \in Workers, NEW row, pc[w] = "mutate",
           Write(w, job[w].product, row)
    PROVE  LockInv'
<1>1. job[w] \in Ops /\ job[w].product \in Products
  BY OpFields DEF TypeInv, HasJob
<1>2. \A v \in Workers : v # w => pc'[v] = pc[v]
  BY DEF Write, TypeInv, TypeOK
<1>3. pc'[w] = "sequence"
  BY DEF Write, TypeInv, TypeOK
<1>4. \A v \in Workers : v # w /\ RowHeld(v) => rowLock[job[v].product] = v
  BY DEF LockInv
<1> QED
  BY <1>1, <1>2, <1>3, <1>4, NoneAssumption
  DEF Write, TypeInv, TypeOK, LockInv, KeyHeld, CounterHeld, RowHeld, tables

LEMMA RejectKeepsLocks ==
    ASSUME TypeInv, LockInv, NEW w \in Workers, NEW reason,
           pc[w] \in {"lookup", "mutate", "classify"}, Reject(w, reason)
    PROVE  LockInv'
BY DEF Reject, Rejections, TypeInv, TypeOK, LockInv, KeyHeld, CounterHeld, RowHeld, tables, locks

LEMMA MissKeepsLocks ==
    ASSUME TypeInv, LockInv, NEW w \in Workers, pc[w] = "mutate", Miss(w)
    PROVE  LockInv'
BY DEF Miss, TypeInv, TypeOK, LockInv, KeyHeld, CounterHeld, RowHeld, tables, locks

(* The end of a transaction: every other transaction keeps its locks. *)
LEMMA ReleaseKeepsLocks ==
    ASSUME TypeInv, LockInv, NEW w \in Workers, Release(w), Reset(w)
    PROVE  /\ \A v \in Workers, o \in Ops : keyLock'[o] = v <=> (KeyHeld(v) /\ job[v] = o)'
           /\ \A o \in Ops : keyLock'[o] # None => keyLock[o] # None
           /\ \A v \in Workers : seqLock' = v <=> CounterHeld(v)'
           /\ \A v \in Workers : v # w => /\ CounterHeld(v)' = CounterHeld(v)
                                          /\ seq'[v] = seq[v]
           /\ ~CounterHeld(w)'
           /\ \A v \in Workers : RowHeld(v)' => rowLock'[job'[v].product] = v
<1>1. /\ pc'[w] = "idle"
      /\ \A v \in Workers : v # w => /\ pc'[v] = pc[v] /\ job'[v] = job[v]
                                     /\ verdict'[v] = verdict[v] /\ seq'[v] = seq[v]
  BY DEF Reset, TypeInv, TypeOK
<1>2. \A v \in Workers : RowHeld(v) => job[v].product \in Products
  BY OpFields DEF RowHeld, CounterHeld, TypeInv, HasJob
<1>3. ~KeyHeld(w)' /\ ~CounterHeld(w)' /\ ~RowHeld(w)'
  BY <1>1 DEF KeyHeld, CounterHeld, RowHeld
<1>4. \A v \in Workers : v # w => /\ KeyHeld(v)' = KeyHeld(v)
                                  /\ CounterHeld(v)' = CounterHeld(v)
                                  /\ RowHeld(v)' = RowHeld(v)
  BY <1>1 DEF KeyHeld, CounterHeld, RowHeld
<1>5. \A v \in Workers, o \in Ops : keyLock'[o] = v <=> (KeyHeld(v) /\ job[v] = o)'
  BY <1>1, <1>3, <1>4, NoneAssumption DEF Release, LockInv
<1>6. \A o \in Ops : keyLock'[o] # None => keyLock[o] # None
  BY DEF Release
<1>7. \A v \in Workers : seqLock' = v <=> CounterHeld(v)'
  BY <1>3, <1>4, NoneAssumption DEF Release, LockInv
<1>8. \A v \in Workers : RowHeld(v)' => rowLock'[job'[v].product] = v
  BY <1>1, <1>2, <1>3, <1>4 DEF Release, LockInv
<1> QED BY <1>1, <1>3, <1>4, <1>5, <1>6, <1>7, <1>8

LEMMA RollbackKeepsLocks ==
    ASSUME TypeInv, LockInv, NEW w \in Workers, Rollback(w)
    PROVE  LockInv'
<1>1. Release(w) /\ Reset(w) /\ outcomes' = outcomes /\ lastSeq' = lastSeq
  BY DEF Rollback, tables
<1> QED BY <1>1, ReleaseKeepsLocks DEF LockInv

LEMMA CommitKeepsLocks ==
    ASSUME TypeInv, LockInv, NEW w \in Workers, Commit(w)
    PROVE  LockInv'
<1>1. Release(w) /\ Reset(w) /\ pc[w] = "finalize" /\ job[w] \in Ops
  BY DEF Commit, TypeInv, HasJob
<1>2. \A o \in Ops : o # job[w] => outcomes'[o] = outcomes[o]
  BY <1>1 DEF Commit, TypeInv, TypeOK
<1>3. keyLock[job[w]] = w /\ keyLock'[job[w]] = None
  BY <1>1 DEF LockInv, KeyHeld, Release
<1>4. \A o \in Ops : keyLock'[o] # None => outcomes'[o] = None
  BY <1>1, <1>2, <1>3, ReleaseKeepsLocks DEF LockInv
<1>5. \A v \in Workers : CounterHeld(v)' => seq'[v] = lastSeq' + 1
  <2>1. SUFFICES ASSUME NEW v \in Workers, CounterHeld(v)' PROVE seq'[v] = lastSeq' + 1
    OBVIOUS
  <2>2. v # w /\ CounterHeld(v) /\ seq'[v] = seq[v]
    BY <1>1, <2>1, ReleaseKeepsLocks
  <2>3. verdict[w] # "applied"
    BY <1>1, <2>2 DEF LockInv, CounterHeld
  <2> QED BY <2>2, <2>3 DEF Commit, LockInv
<1> QED BY <1>1, <1>4, <1>5, ReleaseKeepsLocks DEF LockInv

LEMMA NextLocks == TypeInv /\ LockInv /\ [Next]_vars => LockInv'
<1> SUFFICES ASSUME TypeInv, LockInv, [Next]_vars PROVE LockInv'
  OBVIOUS
<1>1. ASSUME NEW w \in Workers, NEW o \in Ops, Begin(w, o) PROVE LockInv'
  BY <1>1 DEF Begin, TypeInv, TypeOK, LockInv, KeyHeld, CounterHeld, RowHeld, tables, locks
<1>2. ASSUME NEW w \in Workers, Reserve(w) PROVE LockInv'
  <2>1. job[w] \in Ops /\ pc[w] = "reserve" /\ keyLock[job[w]] = None
    BY <1>2 DEF Reserve, TypeInv, HasJob
  <2>2. CASE outcomes[job[w]] # None
    <3>1. Reset(w) /\ UNCHANGED tables /\ UNCHANGED locks
      BY <1>2, <2>2 DEF Reserve
    <3>2. /\ ~KeyHeld(w) /\ ~CounterHeld(w) /\ ~RowHeld(w)
          /\ ~KeyHeld(w)' /\ ~CounterHeld(w)' /\ ~RowHeld(w)'
      BY <2>1, <3>1 DEF Reset, TypeInv, TypeOK, KeyHeld, CounterHeld, RowHeld
    <3>3. \A v \in Workers : v # w => /\ KeyHeld(v)' = KeyHeld(v)
                                      /\ CounterHeld(v)' = CounterHeld(v)
                                      /\ RowHeld(v)' = RowHeld(v)
                                      /\ job'[v] = job[v] /\ seq'[v] = seq[v]
      BY <3>1 DEF Reset, TypeInv, TypeOK, KeyHeld, CounterHeld, RowHeld
    <3> QED BY <3>1, <3>2, <3>3 DEF LockInv, tables, locks
  <2>3. CASE outcomes[job[w]] = None
    BY <1>2, <2>1, <2>3, NoneAssumption
    DEF Reserve, TypeInv, TypeOK, LockInv, KeyHeld, CounterHeld, RowHeld, tables
  <2> QED BY <2>2, <2>3
<1>3. ASSUME NEW w \in Workers, Lookup(w) PROVE LockInv'
  <2>1. CASE \E reason : Reject(w, reason)
    BY <1>3, <2>1, RejectKeepsLocks DEF Lookup
  <2>2. CASE ~\E reason : Reject(w, reason)
    BY <1>3, <2>2 DEF Lookup, TypeInv, TypeOK, LockInv, KeyHeld, CounterHeld, RowHeld,
                      tables, locks
  <2> QED BY <2>1, <2>2
<1>4. ASSUME NEW w \in Workers, CreateProduct(w) PROVE LockInv'
  <2>1. CASE catalog[job[w].product] = None
    BY <1>4, <2>1, WriteKeepsLocks DEF CreateProduct
  <2>2. CASE catalog[job[w].product] # None
    BY <1>4, <2>2 DEF CreateProduct, TypeInv, TypeOK, LockInv, KeyHeld, CounterHeld, RowHeld,
                      tables, locks
  <2> QED BY <2>1, <2>2
<1>5. ASSUME NEW w \in Workers, UpdateProduct(w) PROVE LockInv'
  BY <1>5, WriteKeepsLocks, MissKeepsLocks DEF UpdateProduct
<1>6. ASSUME NEW w \in Workers, SoftDeleteProduct(w) PROVE LockInv'
  BY <1>6, WriteKeepsLocks, MissKeepsLocks, RejectKeepsLocks DEF SoftDeleteProduct
<1>7. ASSUME NEW w \in Workers, AppendMovement(w) PROVE LockInv'
  BY <1>7, WriteKeepsLocks, MissKeepsLocks DEF AppendMovement
<1>8. ASSUME NEW w \in Workers, Classify(w) PROVE LockInv'
  <2>1. PICK reason : Reject(w, reason)
    BY <1>8 DEF Classify
  <2> QED BY <1>8, <2>1, RejectKeepsLocks DEF Classify
<1>9. ASSUME NEW w \in Workers, AllocateSequence(w) PROVE LockInv'
  <2>1. verdict[w] = "applied"
    BY <1>9 DEF AllocateSequence, TypeInv, AppliedUntilRejected
  <2> QED
    BY <1>9, <2>1, NoneAssumption
    DEF AllocateSequence, NextSeq, TypeInv, TypeOK, LockInv, KeyHeld, CounterHeld, RowHeld, tables
<1>10. ASSUME NEW w \in Workers, Commit(w) PROVE LockInv'
  BY <1>10, CommitKeepsLocks
<1>11. ASSUME NEW w \in Workers, Fail(w) \/ Abort(w) PROVE LockInv'
  BY <1>11, RollbackKeepsLocks DEF Fail, Abort
<1>12. ASSUME NEW r \in Readers, SnapshotOpen(r) \/ SnapshotRead(r) \/ Pull(r) PROVE LockInv'
  BY <1>12 DEF SnapshotOpen, SnapshotRead, Pull, LockInv, KeyHeld, CounterHeld, RowHeld,
               tables, locks, txn
<1>13. ASSUME UNCHANGED vars PROVE LockInv'
  BY <1>13 DEF LockInv, KeyHeld, CounterHeld, RowHeld, vars, tables, locks, txn
<1> QED
  BY <1>1, <1>2, <1>3, <1>4, <1>5, <1>6, <1>7, <1>8, <1>9, <1>10, <1>11, <1>12, <1>13
  DEF Next, Worker
-----------------------------------------------------------------------------
(* The feed, the outcomes and the replicas. *)

(* The invariant everything below is read off. *)
ReplicasWithinFeed ==
    /\ \A r \in Readers : cursor[r] <= lastSeq
    /\ \A r \in Readers : phase[r] = "snapshot" =>
            /\ view[r].last <= lastSeq
            /\ view[r].changes = {c \in changeLog : c.seq <= view[r].last}

IInv ==
    /\ TypeInv
    /\ LockInv
    /\ FeedIsContiguous
    /\ AppliedExactlyOnce
    /\ ReplicasWithinFeed
    /\ NothingSkipped

(* What an accepting commit adds: one change, right after the last one. *)
LEMMA CommitAppends ==
    ASSUME TypeInv, LockInv, NEW w \in Workers, Commit(w), verdict[w] = "applied"
    PROVE  /\ changeLog' = changeLog \cup
                {[seq |-> lastSeq + 1, op |-> job[w], row |-> draft[w]]}
           /\ lastSeq' = lastSeq + 1
           /\ [seq |-> lastSeq + 1, op |-> job[w], row |-> draft[w]] \in Change
           /\ catalog' = [catalog EXCEPT ![job[w].product] = draft[w]]
<1>1. pc[w] = "finalize" /\ job[w] \in Ops /\ draft[w] \in Row
  BY DEF Commit, TypeInv, HasJob, HasDraft
<1>2. seq[w] = lastSeq + 1
  BY <1>1 DEF LockInv, CounterHeld
<1>3. lastSeq + 1 \in Nat
  BY DEF TypeInv, TypeOK
<1> QED BY <1>1, <1>2, <1>3 DEF Commit, Change

LEMMA CommitKeepsFeed ==
    ASSUME TypeInv, LockInv, FeedIsContiguous, NEW w \in Workers, Commit(w)
    PROVE  FeedIsContiguous'
<1>1. CASE verdict[w] = "applied"
  <2> DEFINE change == [seq |-> lastSeq + 1, op |-> job[w], row |-> draft[w]]
  <2>1. /\ changeLog' = changeLog \cup {change}
        /\ lastSeq' = lastSeq + 1
        /\ change.seq = lastSeq + 1
    BY <1>1, CommitAppends
  <2>2. lastSeq \in Nat /\ 1..(lastSeq + 1) = (1..lastSeq) \cup {lastSeq + 1}
    BY DEF TypeInv, TypeOK
  <2>3. \A c \in changeLog : c.seq \in 1..lastSeq
    BY DEF FeedIsContiguous
  <2> HIDE DEF change
  <2>4. {c.seq : c \in changeLog'} = 1..lastSeq'
    BY <2>1, <2>2 DEF FeedIsContiguous
  <2>5. \A c, d \in changeLog' : c.seq = d.seq => c = d
    BY <2>1, <2>2, <2>3 DEF FeedIsContiguous
  <2> QED BY <2>4, <2>5 DEF FeedIsContiguous
<1>2. CASE verdict[w] # "applied"
  BY <1>2 DEF Commit, FeedIsContiguous
<1> QED BY <1>1, <1>2

LEMMA CommitKeepsOnce ==
    ASSUME TypeInv, LockInv, AppliedExactlyOnce, NEW w \in Workers, Commit(w)
    PROVE  AppliedExactlyOnce'
<1> DEFINE mine(o) == {c \in changeLog : c.op = o}
           stored == [verdict |-> verdict[w], seq |-> seq[w]]
<1>1. PICK k \in Ops : k = job[w]
  BY DEF Commit, TypeInv, HasJob
<1>2. stored \in Outcome /\ pc[w] = "finalize"
  BY DEF Commit, TypeInv, TypeOK, Outcome
<1>3. outcomes[k] = None /\ mine(k) = {}
  BY <1>1, <1>2, NoneAssumption DEF LockInv, KeyHeld, AppliedExactlyOnce
<1>4. /\ \A o \in Ops \ {k} : outcomes'[o] = outcomes[o]
      /\ outcomes'[k] = stored
      /\ stored # None
  BY <1>1, <1>2, NoneAssumption DEF Commit, TypeInv, TypeOK
<1>5. stored.verdict = verdict[w] /\ stored.seq = seq[w]
  OBVIOUS
<1>6. CASE verdict[w] = "applied"
  <2> DEFINE change == [seq |-> seq[w], op |-> k, row |-> draft[w]]
  <2>1. changeLog' = changeLog \cup {change} /\ change.op = k /\ change.seq = stored.seq
    BY <1>1, <1>6 DEF Commit
  <2> HIDE DEF change, stored
  <2>2. ASSUME NEW o \in Ops \ {k}
        PROVE  IF outcomes'[o] # None /\ outcomes'[o].verdict = "applied"
               THEN \E c \in mine(o)' : mine(o)' = {c} /\ c.seq = outcomes'[o].seq
               ELSE mine(o)' = {}
    <3>1. mine(o)' = mine(o)
      BY <2>1
    <3> QED BY <1>4, <3>1 DEF AppliedExactlyOnce
  <2>3. mine(k)' = {change}
    BY <1>3, <2>1
  <2>4. \E c \in mine(k)' : mine(k)' = {c} /\ c.seq = outcomes'[k].seq
    BY <1>4, <2>1, <2>3
  <2> QED BY <1>4, <1>5, <1>6, <2>2, <2>4 DEF AppliedExactlyOnce
<1>7. CASE verdict[w] # "applied"
  <2>1. changeLog' = changeLog
    BY <1>7 DEF Commit
  <2> HIDE DEF stored
  <2>2. ASSUME NEW o \in Ops \ {k}
        PROVE  IF outcomes'[o] # None /\ outcomes'[o].verdict = "applied"
               THEN \E c \in mine(o)' : mine(o)' = {c} /\ c.seq = outcomes'[o].seq
               ELSE mine(o)' = {}
    BY <1>4, <2>1 DEF AppliedExactlyOnce
  <2>3. mine(k)' = {} /\ outcomes'[k].verdict # "applied"
    BY <1>3, <1>4, <1>5, <1>7, <2>1
  <2> QED BY <2>2, <2>3 DEF AppliedExactlyOnce
<1> QED BY <1>6, <1>7

(* A commit adds nothing at or below a position already handed out. *)
LEMMA CommitKeepsReplicas ==
    ASSUME TypeInv, LockInv, FeedIsContiguous, ReplicasWithinFeed, NothingSkipped,
           NEW w \in Workers, Commit(w)
    PROVE  ReplicasWithinFeed' /\ NothingSkipped'
<1>1. /\ phase' = phase /\ view' = view /\ cursor' = cursor /\ held' = held
      /\ lastSeq \in Nat
      /\ \A r \in Readers : cursor[r] \in Nat /\ view[r].last \in Nat
  BY DEF Commit, replicas, TypeInv, TypeOK
<1>2. \A n \in Nat : n <= lastSeq => {c \in changeLog' : c.seq <= n} = {c \in changeLog : c.seq <= n}
  <2>1. CASE verdict[w] = "applied"
    <3> DEFINE change == [seq |-> lastSeq + 1, op |-> job[w], row |-> draft[w]]
    <3>1. changeLog' = changeLog \cup {change} /\ change.seq = lastSeq + 1
      BY <2>1, CommitAppends
    <3> HIDE DEF change
    <3> QED BY <1>1, <3>1
  <2>2. CASE verdict[w] # "applied"
    BY <2>2 DEF Commit
  <2> QED BY <2>1, <2>2
<1>3. lastSeq' \in Nat /\ lastSeq <= lastSeq'
  <2>1. CASE verdict[w] = "applied"
    <3>1. lastSeq' = lastSeq + 1
      BY <2>1, CommitAppends
    <3> QED BY <1>1, <3>1
  <2>2. CASE verdict[w] # "applied"
    BY <1>1, <2>2 DEF Commit
  <2> QED BY <2>1, <2>2
<1>4. ReplicasWithinFeed'
  BY <1>1, <1>2, <1>3 DEF ReplicasWithinFeed
<1>5. ASSUME NEW r \in Readers
      PROVE  {x \in changeLog' : x.op.account = AccountOf[r] /\ x.seq <= cursor[r]}
             = {x \in changeLog : x.op.account = AccountOf[r] /\ x.seq <= cursor[r]}
  <2>1. {c \in changeLog' : c.seq <= cursor[r]} = {c \in changeLog : c.seq <= cursor[r]}
    BY <1>1, <1>2 DEF ReplicasWithinFeed
  <2> QED BY <2>1
<1>6. NothingSkipped'
  BY <1>1, <1>5 DEF NothingSkipped
<1> QED BY <1>4, <1>6

LEMMA ReplicaStepKeepsReplicas ==
    ASSUME TypeInv, FeedIsContiguous, ReplicasWithinFeed, NothingSkipped,
           NEW r \in Readers, SnapshotOpen(r) \/ SnapshotRead(r) \/ Pull(r)
    PROVE  ReplicasWithinFeed' /\ NothingSkipped'
<1> DEFINE seqs(C) == {c.seq : c \in C}
           upTo(a, n) == {x \in changeLog : x.op.account = a /\ x.seq <= n}
<1>1. changeLog' = changeLog /\ lastSeq' = lastSeq /\ lastSeq \in Nat
  BY DEF SnapshotOpen, SnapshotRead, Pull, tables, TypeInv, TypeOK
<1>2. \A c \in changeLog : c.seq \in Nat /\ c.seq <= lastSeq
  BY DEF FeedIsContiguous, TypeInv, TypeOK, Change
<1>3. \A q \in Readers : held[q] = seqs(upTo(AccountOf[q], cursor[q]))
  BY DEF NothingSkipped
<1>4. CASE SnapshotOpen(r)
  <2>1. changeLog = {c \in changeLog : c.seq <= lastSeq}
    BY <1>2
  <2>2. cursor' = cursor /\ held' = held
    BY <1>4 DEF SnapshotOpen
  <2>3. NothingSkipped'
    BY <1>1, <2>2 DEF NothingSkipped
  <2>4. ReplicasWithinFeed'
    BY <1>1, <1>4, <2>1, <2>2 DEF SnapshotOpen, ReplicasWithinFeed, TypeInv, TypeOK
  <2> QED BY <2>3, <2>4
<1>5. CASE SnapshotRead(r)
  <2>1. /\ view[r].last <= lastSeq
        /\ view[r].changes = {c \in changeLog : c.seq <= view[r].last}
    BY <1>5 DEF SnapshotRead, ReplicasWithinFeed
  <2>2. {x \in view[r].changes : x.op.account = AccountOf[r]} = upTo(AccountOf[r], view[r].last)
    BY <2>1
  <2>3. cursor'[r] = view[r].last /\ held'[r] = seqs(upTo(AccountOf[r], view[r].last))
    BY <1>5, <2>2 DEF SnapshotRead, TypeInv, TypeOK
  <2>4. \A q \in Readers : q # r => cursor'[q] = cursor[q] /\ held'[q] = held[q]
    BY <1>5 DEF SnapshotRead, TypeInv, TypeOK
  <2>5. \A q \in Readers : held'[q] = seqs(upTo(AccountOf[q], cursor'[q]))
    BY <1>3, <2>3, <2>4
  <2>6. NothingSkipped'
    BY <1>1, <2>5 DEF NothingSkipped
  <2>7. ReplicasWithinFeed'
    BY <1>1, <1>5, <2>1, <2>3, <2>4 DEF SnapshotRead, ReplicasWithinFeed, TypeInv, TypeOK
  <2> QED BY <2>6, <2>7
<1>6. CASE Pull(r)
  <2> DEFINE a == AccountOf[r]
             S == After(a, cursor[r])
  <2>1. PICK n \in S : /\ cursor' = [cursor EXCEPT ![r] = n]
                       /\ held' = [held EXCEPT ![r] = @ \cup {s \in S : s <= n}]
    BY <1>6 DEF Pull
  <2>2. n \in Nat /\ n > cursor[r] /\ n <= lastSeq /\ cursor[r] \in Nat
    BY <1>2, <2>1 DEF After, TypeInv, TypeOK
  <2>3. {s \in S : s <= n} = seqs({x \in changeLog : /\ x.op.account = a
                                                     /\ x.seq > cursor[r] /\ x.seq <= n})
    BY DEF After
  <2>4. upTo(a, n) = upTo(a, cursor[r]) \cup
            {x \in changeLog : x.op.account = a /\ x.seq > cursor[r] /\ x.seq <= n}
    BY <1>2, <2>2
  <2>5. cursor'[r] = n /\ held'[r] = seqs(upTo(a, n))
    <3>1. cursor'[r] = n /\ held'[r] = held[r] \cup {s \in S : s <= n}
      BY <2>1 DEF TypeInv, TypeOK
    <3> QED BY <1>3, <2>3, <2>4, <3>1
  <2>6. \A q \in Readers : q # r => cursor'[q] = cursor[q] /\ held'[q] = held[q]
    BY <2>1 DEF TypeInv, TypeOK
  <2>7. \A q \in Readers : held'[q] = seqs(upTo(AccountOf[q], cursor'[q]))
    BY <1>3, <2>5, <2>6
  <2>8. NothingSkipped'
    BY <1>1, <2>7 DEF NothingSkipped
  <2>9. phase' = phase /\ view' = view
    BY <1>6 DEF Pull
  <2>10. ReplicasWithinFeed'
    BY <1>1, <2>2, <2>5, <2>6, <2>9 DEF ReplicasWithinFeed
  <2> QED BY <2>8, <2>10
<1> QED BY <1>4, <1>5, <1>6

LEMMA InitIInv == Init => IInv
<1> SUFFICES ASSUME Init PROVE IInv
  OBVIOUS
<1>1. TypeInv /\ LockInv
  BY InitTypes, InitLocks
<1>2. FeedIsContiguous
  BY DEF Init, FeedIsContiguous
<1>3. AppliedExactlyOnce
  BY DEF Init, AppliedExactlyOnce
<1>4. ReplicasWithinFeed /\ NothingSkipped
  BY DEF Init, ReplicasWithinFeed, NothingSkipped
<1> QED BY <1>1, <1>2, <1>3, <1>4 DEF IInv

LEMMA NextIInv == IInv /\ [Next]_vars => IInv'
<1> SUFFICES ASSUME IInv, [Next]_vars PROVE IInv'
  OBVIOUS
<1>1. TypeInv' /\ LockInv'
  BY NextTypes, NextLocks DEF IInv
<1>2. CASE UNCHANGED <<tables, replicas>>
  BY <1>1, <1>2 DEF IInv, FeedIsContiguous, AppliedExactlyOnce, ReplicasWithinFeed,
                    NothingSkipped, tables, replicas
<1>3. ASSUME NEW w \in Workers, Commit(w) PROVE IInv'
  BY <1>1, <1>3, CommitKeepsFeed, CommitKeepsOnce, CommitKeepsReplicas DEF IInv
<1>4. ASSUME NEW r \in Readers, SnapshotOpen(r) \/ SnapshotRead(r) \/ Pull(r) PROVE IInv'
  <2>1. FeedIsContiguous' /\ AppliedExactlyOnce'
    BY <1>4 DEF IInv, SnapshotOpen, SnapshotRead, Pull, tables, FeedIsContiguous,
                AppliedExactlyOnce
  <2> QED BY <1>1, <1>4, <2>1, ReplicaStepKeepsReplicas DEF IInv
<1> QED BY <1>2, <1>3, <1>4, StepKinds

LEMMA Invariance == Spec => []IInv
BY InitIInv, NextIInv, PTL DEF Spec

(* The committed sequences have no gap and no duplicate, for any number of *)
(* concurrent transactions that commit or roll back: the counter row stays *)
(* locked from AllocateChangeSequence to the commit.                       *)
THEOREM Contiguous == Spec => []FeedIsContiguous
<1>1. IInv => FeedIsContiguous
  BY DEF IInv
<1> QED BY <1>1, Invariance, PTL

(* An operation delivered any number of times is applied at most once: the *)
(* reservation of the idempotency key excludes every other delivery until  *)
(* the outcome is committed with the mutation.                             *)
THEOREM ExactlyOnce == Spec => []AppliedExactlyOnce
<1>1. IInv => AppliedExactlyOnce
  BY DEF IInv
<1> QED BY <1>1, Invariance, PTL

(* No replica ever misses a change: nothing commits at or below a cursor   *)
(* that a snapshot or a page has handed out.                               *)
THEOREM NoneSkipped == Spec => []NothingSkipped
<1>1. IInv => NothingSkipped
  BY DEF IInv
<1> QED BY <1>1, Invariance, PTL
-----------------------------------------------------------------------------
(* SERIALIZABILITY AND REFINEMENT                                           *)
(*                                                                         *)
(* The transactions are serializable in feed order, and they implement     *)
(* OperationLog.                                                           *)

(* What a transaction that holds its row is going to publish: the effect of *)
(* its operation on the row that is still the committed one.               *)
DraftIsEffect ==
    \A w \in Workers : RowHeld(w) =>
        /\ Permitted(job[w], catalog[job[w].product])
        /\ draft[w] = Effect(job[w], catalog[job[w].product])

SerialInv == DraftIsEffect /\ FeedIsSerial /\ CatalogIsFeedTail

(* Only an upsert without a base version goes on to insert.                *)
CreatesAreNew ==
    \A w \in Workers :
        pc[w] = "mutate" /\ job[w].kind = "upsert" /\ lookup[w] = None => job[w].base = 0

LEMMA NextCreates == TypeInv /\ CreatesAreNew /\ [Next]_vars => CreatesAreNew'
<1> SUFFICES ASSUME TypeInv, CreatesAreNew, [Next]_vars PROVE CreatesAreNew'
  OBVIOUS
<1> USE DEF CreatesAreNew, TypeInv, TypeOK
<1>1. ASSUME NEW w \in Workers, pc'[w] # "mutate",
             \A v \in Workers : v # w => /\ pc'[v] = pc[v] /\ job'[v] = job[v]
                                         /\ lookup'[v] = lookup[v]
      PROVE  CreatesAreNew'
  BY <1>1
<1>2. ASSUME NEW w \in Workers, NEW reason, Reject(w, reason) PROVE CreatesAreNew'
  BY <1>1, <1>2 DEF Reject
<1>3. ASSUME NEW w \in Workers, NEW p, NEW row, Write(w, p, row) PROVE CreatesAreNew'
  BY <1>1, <1>3 DEF Write
<1>4. ASSUME NEW w \in Workers, Miss(w) PROVE CreatesAreNew'
  BY <1>1, <1>4 DEF Miss
<1>5. ASSUME NEW w \in Workers, Reset(w) PROVE CreatesAreNew'
  BY <1>1, <1>5 DEF Reset
<1>6. ASSUME NEW w \in Workers, NEW o \in Ops, Begin(w, o) PROVE CreatesAreNew'
  BY <1>1, <1>6 DEF Begin
<1>7. ASSUME NEW w \in Workers, Reserve(w) PROVE CreatesAreNew'
  BY <1>5, <1>7 DEF Reserve
<1>8. ASSUME NEW w \in Workers, Lookup(w) PROVE CreatesAreNew'
  <2>1. CASE \E reason : Reject(w, reason)
    BY <1>2, <2>1
  <2>2. CASE ~\E reason : Reject(w, reason)
    BY <1>8, <2>2, NoneAssumption DEF Lookup, Active
  <2> QED BY <2>1, <2>2
<1>9. ASSUME NEW w \in Workers, CreateProduct(w) PROVE CreatesAreNew'
  <2>1. CASE catalog[job[w].product] = None
    BY <1>3, <1>9, <2>1 DEF CreateProduct
  <2>2. CASE catalog[job[w].product] # None
    BY <1>1, <1>9, <2>2 DEF CreateProduct
  <2> QED BY <2>1, <2>2
<1>10. ASSUME NEW w \in Workers,
              UpdateProduct(w) \/ SoftDeleteProduct(w) \/ AppendMovement(w)
       PROVE  CreatesAreNew'
  BY <1>2, <1>3, <1>4, <1>10 DEF UpdateProduct, SoftDeleteProduct, AppendMovement
<1>11. ASSUME NEW w \in Workers, Classify(w) PROVE CreatesAreNew'
  BY <1>2, <1>11 DEF Classify
<1>12. ASSUME NEW w \in Workers, AllocateSequence(w) PROVE CreatesAreNew'
  BY <1>1, <1>12 DEF AllocateSequence
<1>13. ASSUME NEW w \in Workers, Commit(w) \/ Fail(w) \/ Abort(w) PROVE CreatesAreNew'
  BY <1>5, <1>13 DEF Commit, Fail, Abort, Rollback
<1>14. ASSUME UNCHANGED txn PROVE CreatesAreNew'
  BY <1>14 DEF txn
<1>15. ASSUME NEW r \in Readers, SnapshotOpen(r) \/ SnapshotRead(r) \/ Pull(r)
       PROVE  UNCHANGED txn
  BY <1>15 DEF SnapshotOpen, SnapshotRead, Pull
<1>16. ASSUME UNCHANGED vars PROVE UNCHANGED txn
  BY <1>16 DEF vars
<1> QED
  BY <1>6, <1>7, <1>8, <1>9, <1>10, <1>11, <1>12, <1>13, <1>14, <1>15, <1>16 DEF Next, Worker

(* A statement that writes drafts the effect of an operation it may apply. *)
LEMMA WriteKeepsDrafts ==
    ASSUME TypeInv, DraftIsEffect, NEW w \in Workers, NEW row, pc[w] = "mutate",
           Write(w, job[w].product, row),
           Permitted(job[w], catalog[job[w].product]),
           row = Effect(job[w], catalog[job[w].product])
    PROVE  DraftIsEffect'
<1>1. catalog' = catalog /\ job' = job /\ verdict' = verdict /\ draft'[w] = row
  BY DEF Write, tables, TypeInv, TypeOK
<1>2. \A v \in Workers : v # w => RowHeld(v)' = RowHeld(v) /\ draft'[v] = draft[v]
  BY DEF Write, RowHeld, CounterHeld, TypeInv, TypeOK
<1>3. ASSUME NEW v \in Workers, RowHeld(v)'
      PROVE  /\ Permitted(job[v], catalog[job[v].product])'
             /\ draft'[v] = Effect(job[v], catalog[job[v].product])'
  <2>1. CASE v = w
    BY <1>1, <2>1
  <2>2. CASE v # w
    BY <1>1, <1>2, <1>3, <2>2 DEF DraftIsEffect
  <2> QED BY <2>1, <2>2
<1> QED BY <1>3 DEF DraftIsEffect

(* A step of w that takes no row and leaves the catalog alone. *)
LEMMA OtherStepsKeepDrafts ==
    ASSUME TypeInv, DraftIsEffect, NEW w \in Workers,
           catalog' = catalog,
           \A v \in Workers : v # w => /\ pc'[v] = pc[v] /\ verdict'[v] = verdict[v]
                                       /\ job'[v] = job[v] /\ draft'[v] = draft[v],
           RowHeld(w)' => RowHeld(w) /\ job'[w] = job[w] /\ draft'[w] = draft[w]
    PROVE  DraftIsEffect'
<1>1. ASSUME NEW v \in Workers, RowHeld(v)'
      PROVE  RowHeld(v) /\ job'[v] = job[v] /\ draft'[v] = draft[v]
  BY <1>1 DEF RowHeld, CounterHeld
<1> QED BY <1>1 DEF DraftIsEffect

LEMMA RejectKeepsDrafts ==
    ASSUME TypeInv, DraftIsEffect, NEW w \in Workers, NEW reason, Reject(w, reason)
    PROVE  DraftIsEffect'
<1>1. ~RowHeld(w)'
  BY DEF Reject, Rejections, RowHeld, CounterHeld, TypeInv, TypeOK
<1> QED BY <1>1, OtherStepsKeepDrafts DEF Reject, tables, TypeInv, TypeOK

LEMMA MissKeepsDrafts ==
    ASSUME TypeInv, DraftIsEffect, NEW w \in Workers, Miss(w)
    PROVE  DraftIsEffect'
<1>1. ~RowHeld(w)'
  BY DEF Miss, RowHeld, CounterHeld, TypeInv, TypeOK
<1> QED BY <1>1, OtherStepsKeepDrafts DEF Miss, tables, TypeInv, TypeOK

LEMMA RollbackKeepsDrafts ==
    ASSUME TypeInv, DraftIsEffect, NEW w \in Workers, Rollback(w)
    PROVE  DraftIsEffect'
<1>1. ~RowHeld(w)'
  BY DEF Rollback, Reset, RowHeld, CounterHeld, TypeInv, TypeOK
<1> QED BY <1>1, OtherStepsKeepDrafts DEF Rollback, Reset, tables, TypeInv, TypeOK

(* Nobody else's committed row changes under a transaction that holds it.  *)
LEMMA CommitKeepsDrafts ==
    ASSUME TypeInv, LockInv, DraftIsEffect, NEW w \in Workers, Commit(w)
    PROVE  DraftIsEffect'
<1>1. pc[w] = "finalize" /\ job[w] \in Ops /\ Reset(w)
  BY DEF Commit, TypeInv, HasJob
<1>2. ~RowHeld(w)'
  BY <1>1 DEF Reset, RowHeld, CounterHeld, TypeInv, TypeOK
<1>3. ASSUME NEW v \in Workers, RowHeld(v)'
      PROVE  /\ RowHeld(v) /\ job'[v] = job[v] /\ draft'[v] = draft[v]
             /\ catalog'[job[v].product] = catalog[job[v].product]
  <2>1. v # w /\ RowHeld(v) /\ job'[v] = job[v] /\ draft'[v] = draft[v]
    BY <1>1, <1>2, <1>3 DEF Reset, RowHeld, CounterHeld, TypeInv, TypeOK
  <2>2. CASE verdict[w] = "applied"
    <3>1. RowHeld(w)
      BY <1>1, <2>2 DEF RowHeld, CounterHeld
    <3>2. job[v].product # job[w].product
      BY <2>1, <3>1 DEF LockInv
    <3>3. catalog' = [catalog EXCEPT ![job[w].product] = draft[w]]
      BY <2>2 DEF Commit
    <3> QED BY <2>1, <3>2, <3>3 DEF TypeInv, TypeOK
  <2>3. CASE verdict[w] # "applied"
    BY <2>1, <2>3 DEF Commit
  <2> QED BY <2>1, <2>2, <2>3
<1> QED BY <1>3 DEF DraftIsEffect

LEMMA NextDrafts ==
    TypeInv /\ LockInv /\ CreatesAreNew /\ DraftIsEffect /\ [Next]_vars => DraftIsEffect'
<1> SUFFICES ASSUME TypeInv, LockInv, CreatesAreNew, DraftIsEffect, [Next]_vars PROVE DraftIsEffect'
  OBVIOUS
<1>1. ASSUME NEW w \in Workers, NEW o \in Ops, Begin(w, o) PROVE DraftIsEffect'
  <2>1. ~RowHeld(w)'
    BY <1>1 DEF Begin, RowHeld, CounterHeld, TypeInv, TypeOK
  <2> QED BY <1>1, <2>1, OtherStepsKeepDrafts DEF Begin, tables, TypeInv, TypeOK
<1>2. ASSUME NEW w \in Workers, Reserve(w) PROVE DraftIsEffect'
  <2>1. ~RowHeld(w)'
    BY <1>2 DEF Reserve, Reset, RowHeld, CounterHeld, TypeInv, TypeOK
  <2> QED BY <1>2, <2>1, OtherStepsKeepDrafts DEF Reserve, Reset, tables, TypeInv, TypeOK
<1>3. ASSUME NEW w \in Workers, Lookup(w) PROVE DraftIsEffect'
  <2>1. CASE \E reason : Reject(w, reason)
    BY <2>1, RejectKeepsDrafts
  <2>2. CASE ~\E reason : Reject(w, reason)
    <3>1. ~RowHeld(w)'
      BY <1>3, <2>2 DEF Lookup, RowHeld, CounterHeld, TypeInv, TypeOK
    <3> QED BY <1>3, <2>2, <3>1, OtherStepsKeepDrafts DEF Lookup, tables, TypeInv, TypeOK
  <2> QED BY <2>1, <2>2
<1>4. ASSUME NEW w \in Workers, CreateProduct(w) PROVE DraftIsEffect'
  <2>1. CASE catalog[job[w].product] # None
    <3>1. ~RowHeld(w)'
      BY <1>4, <2>1 DEF CreateProduct, RowHeld, CounterHeld, TypeInv, TypeOK
    <3> QED BY <1>4, <2>1, <3>1, OtherStepsKeepDrafts DEF CreateProduct, tables, TypeInv, TypeOK
  <2>2. CASE catalog[job[w].product] = None
    <3>1. Permitted(job[w], catalog[job[w].product])
      BY <1>4, <2>2 DEF CreateProduct, Permitted, CreatesAreNew
    <3> QED BY <1>4, <2>2, <3>1, WriteKeepsDrafts DEF CreateProduct, Effect
  <2> QED BY <2>1, <2>2
<1>5. ASSUME NEW w \in Workers, UpdateProduct(w) PROVE DraftIsEffect'
  <2>1. CASE ~EditMatches(job[w])
    BY <1>5, <2>1, MissKeepsDrafts DEF UpdateProduct
  <2>2. CASE EditMatches(job[w])
    <3>1. Permitted(job[w], catalog[job[w].product])
      BY <1>5, <2>2 DEF UpdateProduct, EditMatches, Active, Permitted
    <3>2. Effect(job[w], catalog[job[w].product])
          = [catalog[job[w].product] EXCEPT !.version = @ + 1]
      BY <1>5, <2>2 DEF UpdateProduct, EditMatches, Active, Effect
    <3> QED BY <1>5, <2>2, <3>1, <3>2, WriteKeepsDrafts DEF UpdateProduct
  <2> QED BY <2>1, <2>2
<1>6. ASSUME NEW w \in Workers, SoftDeleteProduct(w) PROVE DraftIsEffect'
  <2>1. CASE job[w].base = 0
    BY <1>6, <2>1, RejectKeepsDrafts DEF SoftDeleteProduct
  <2>2. CASE job[w].base # 0 /\ ~DeleteMatches(job[w])
    BY <1>6, <2>2, MissKeepsDrafts DEF SoftDeleteProduct
  <2>3. CASE job[w].base # 0 /\ DeleteMatches(job[w])
    <3>1. Permitted(job[w], catalog[job[w].product])
      BY <1>6, <2>3 DEF SoftDeleteProduct, DeleteMatches, Active, Permitted
    <3>2. Effect(job[w], catalog[job[w].product])
          = [catalog[job[w].product] EXCEPT !.version = @ + 1, !.deleted = TRUE]
      BY <1>6 DEF SoftDeleteProduct, Effect
    <3> QED BY <1>6, <2>3, <3>1, <3>2, WriteKeepsDrafts DEF SoftDeleteProduct
  <2> QED BY <2>1, <2>2, <2>3
<1>7. ASSUME NEW w \in Workers, AppendMovement(w) PROVE DraftIsEffect'
  <2>1. CASE ~Active(job[w].product, job[w].account)
    BY <1>7, <2>1, MissKeepsDrafts DEF AppendMovement
  <2>2. CASE Active(job[w].product, job[w].account)
    <3>1. Permitted(job[w], catalog[job[w].product])
      BY <1>7, <2>2 DEF AppendMovement, Active, Permitted
    <3>2. Effect(job[w], catalog[job[w].product])
          = [catalog[job[w].product] EXCEPT !.qty = @ + job[w].delta]
      BY <1>7 DEF AppendMovement, Effect
    <3> QED BY <1>7, <2>2, <3>1, <3>2, WriteKeepsDrafts DEF AppendMovement
  <2> QED BY <2>1, <2>2
<1>8. ASSUME NEW w \in Workers, Classify(w) PROVE DraftIsEffect'
  BY <1>8, RejectKeepsDrafts DEF Classify
<1>9. ASSUME NEW w \in Workers, AllocateSequence(w) PROVE DraftIsEffect'
  <2>1. RowHeld(w)
    BY <1>9 DEF AllocateSequence, RowHeld
  <2> QED BY <1>9, <2>1, OtherStepsKeepDrafts DEF AllocateSequence, tables, TypeInv, TypeOK
<1>10. ASSUME NEW w \in Workers, Commit(w) PROVE DraftIsEffect'
  BY <1>10, CommitKeepsDrafts
<1>11. ASSUME NEW w \in Workers, Fail(w) \/ Abort(w) PROVE DraftIsEffect'
  BY <1>11, RollbackKeepsDrafts DEF Fail, Abort
<1>12. ASSUME UNCHANGED txn, UNCHANGED tables PROVE DraftIsEffect'
  BY <1>12 DEF DraftIsEffect, RowHeld, CounterHeld, txn, tables
<1>13. ASSUME NEW r \in Readers, SnapshotOpen(r) \/ SnapshotRead(r) \/ Pull(r)
       PROVE  UNCHANGED txn /\ UNCHANGED tables
  BY <1>13 DEF SnapshotOpen, SnapshotRead, Pull
<1>14. ASSUME UNCHANGED vars PROVE UNCHANGED txn /\ UNCHANGED tables
  BY <1>14 DEF vars
<1> QED
  BY <1>1, <1>2, <1>3, <1>4, <1>5, <1>6, <1>7, <1>8, <1>9, <1>10, <1>11, <1>12, <1>13, <1>14
  DEF Next, Worker
-----------------------------------------------------------------------------
(* Appending to the feed leaves its past alone and adds one row at its end. *)
LEMMA RowAtAppend ==
    ASSUME NEW L, NEW n \in Nat, \A d \in L : d.seq \in Nat /\ d.seq <= n,
           NEW c, c.seq = n + 1
    PROVE  /\ \A p : \A m \in Nat : m <= n => RowAt(L \cup {c}, p, m) = RowAt(L, p, m)
           /\ RowAt(L \cup {c}, c.op.product, n + 1) = c.row
           /\ \A p : p # c.op.product => RowAt(L \cup {c}, p, n + 1) = RowAt(L, p, n)
<1> DEFINE S(K, p, m) == {d \in K : d.op.product = p /\ d.seq <= m}
<1>1. ASSUME NEW p, NEW m \in Nat, m <= n
      PROVE  RowAt(L \cup {c}, p, m) = RowAt(L, p, m)
  <2>1. S(L \cup {c}, p, m) = S(L, p, m)
    BY <1>1
  <2> QED BY <2>1 DEF RowAt
<1>2. ASSUME NEW p, p # c.op.product
      PROVE  RowAt(L \cup {c}, p, n + 1) = RowAt(L, p, n)
  <2>1. S(L \cup {c}, p, n + 1) = S(L, p, n)
    BY <1>2
  <2> QED BY <2>1 DEF RowAt
<1>3. RowAt(L \cup {c}, c.op.product, n + 1) = c.row
  <2> DEFINE T == S(L \cup {c}, c.op.product, n + 1)
  <2>1. c \in T
    OBVIOUS
  <2>2. \A d \in T : d # c => d.seq <= n /\ d.seq \in Nat
    OBVIOUS
  <2>3. \A d \in T : d.seq <= c.seq
    BY <2>2
  <2>4. \A d \in T : (\A e \in T : e.seq <= d.seq) => d = c
    BY <2>1, <2>2
  <2>5. RowAt(L \cup {c}, c.op.product, n + 1) = LastRow(T)
    BY DEF RowAt
  <2> HIDE DEF T
  <2>6. (CHOOSE d \in T : \A e \in T : e.seq <= d.seq) = c
    BY <2>1, <2>3, <2>4
  <2> QED BY <2>1, <2>5, <2>6 DEF LastRow
<1> QED BY <1>1, <1>2, <1>3

LEMMA CommitKeepsSerial ==
    ASSUME IInv, SerialInv, NEW w \in Workers, Commit(w)
    PROVE  FeedIsSerial' /\ CatalogIsFeedTail'
<1> USE DEF IInv, SerialInv
<1>1. lastSeq \in Nat /\ \A c \in changeLog : c.seq \in 1..lastSeq
  BY DEF FeedIsContiguous, TypeInv, TypeOK
<1>2. CASE verdict[w] # "applied"
  BY <1>2 DEF Commit, FeedIsSerial, CatalogIsFeedTail
<1>3. CASE verdict[w] = "applied"
  <2>1. PICK c : c = [seq |-> lastSeq + 1, op |-> job[w], row |-> draft[w]]
    OBVIOUS
  <2>2. /\ changeLog' = changeLog \cup {c} /\ lastSeq' = lastSeq + 1
        /\ c.seq = lastSeq + 1 /\ c.op = job[w] /\ c.row = draft[w]
        /\ catalog' = [catalog EXCEPT ![c.op.product] = c.row]
    BY <1>3, <2>1, CommitAppends
  <2>3. c.op.product \in Products
    BY <2>2, OpFields DEF Commit, TypeInv, HasJob
  <2>4. Permitted(c.op, catalog[c.op.product]) /\ c.row = Effect(c.op, catalog[c.op.product])
    BY <1>3, <2>2 DEF DraftIsEffect, RowHeld, CounterHeld, Commit
  <2>5. \A d \in changeLog : d.seq \in Nat /\ d.seq <= lastSeq
    BY <1>1
  <2>6. /\ \A p : \A m \in Nat : m <= lastSeq => RowAt(changeLog', p, m) = RowAt(changeLog, p, m)
        /\ RowAt(changeLog', c.op.product, lastSeq + 1) = c.row
        /\ \A p : p # c.op.product => RowAt(changeLog', p, lastSeq + 1) = RowAt(changeLog, p, lastSeq)
    <3>1. PICK n, L : n \in Nat /\ n = lastSeq /\ L = changeLog
      BY <1>1
    <3>2. changeLog' = L \cup {c} /\ c.seq = n + 1 /\ \A d \in L : d.seq \in Nat /\ d.seq <= n
      BY <2>2, <2>5, <3>1
    <3> QED BY <3>1, <3>2, RowAtAppend
  <2>7. CatalogIsFeedTail'
    BY <2>2, <2>3, <2>6 DEF CatalogIsFeedTail, TypeInv, TypeOK
  <2>8. ASSUME NEW d \in changeLog'
        PROVE  /\ Permitted(d.op, RowAt(changeLog', d.op.product, d.seq - 1))
               /\ d.row = Effect(d.op, RowAt(changeLog', d.op.product, d.seq - 1))
    <3>1. CASE d \in changeLog
      <4>1. d.seq - 1 \in Nat /\ d.seq - 1 <= lastSeq
        BY <1>1, <3>1
      <4>2. RowAt(changeLog', d.op.product, d.seq - 1) = RowAt(changeLog, d.op.product, d.seq - 1)
        BY <2>6, <4>1
      <4> QED BY <3>1, <4>2 DEF FeedIsSerial
    <3>2. CASE d = c
      <4>1. d.seq - 1 = lastSeq
        BY <1>1, <2>2, <3>2
      <4>2. RowAt(changeLog', d.op.product, d.seq - 1) = catalog[c.op.product]
        BY <1>1, <2>3, <2>6, <3>2, <4>1 DEF CatalogIsFeedTail
      <4> QED BY <2>4, <3>2, <4>2
    <3> QED BY <2>2, <3>1, <3>2
  <2>9. FeedIsSerial'
    BY <2>8 DEF FeedIsSerial
  <2> QED BY <2>7, <2>9
<1> QED BY <1>2, <1>3

LEMMA NextSerial == IInv /\ SerialInv /\ CreatesAreNew /\ [Next]_vars => SerialInv'
<1> SUFFICES ASSUME IInv, SerialInv, CreatesAreNew, [Next]_vars PROVE SerialInv'
  OBVIOUS
<1>1. DraftIsEffect'
  BY NextDrafts DEF IInv, SerialInv
<1>2. ASSUME NEW w \in Workers, Commit(w) PROVE SerialInv'
  BY <1>1, <1>2, CommitKeepsSerial DEF SerialInv
<1>3. ASSUME UNCHANGED tables PROVE SerialInv'
  BY <1>1, <1>3 DEF SerialInv, FeedIsSerial, CatalogIsFeedTail, tables
<1>4. ASSUME NEW r \in Readers, SnapshotOpen(r) \/ SnapshotRead(r) \/ Pull(r)
      PROVE  UNCHANGED tables
  BY <1>4 DEF SnapshotOpen, SnapshotRead, Pull
<1> QED BY <1>2, <1>3, <1>4, StepKinds

LEMMA InitSerial == Init => SerialInv /\ CreatesAreNew
BY NoneAssumption
   DEF Init, SerialInv, DraftIsEffect, RowHeld, CounterHeld, FeedIsSerial, CatalogIsFeedTail,
       RowAt, LastRow, CreatesAreNew

LEMMA SerialInvariance == Spec => [](IInv /\ SerialInv)
<1>1. Init => IInv /\ SerialInv /\ CreatesAreNew
  BY InitIInv, InitSerial
<1>2. IInv /\ SerialInv /\ CreatesAreNew /\ [Next]_vars => (IInv /\ SerialInv /\ CreatesAreNew)'
  BY NextIInv, NextSerial, NextCreates DEF IInv
<1> QED BY <1>1, <1>2, PTL DEF Spec

(* The accepted operations are a serial history: each was permitted on, and *)
(* applied to, the row its predecessors in the feed had left, although the  *)
(* mutations of concurrent transactions read and write before either has a  *)
(* sequence.                                                               *)
THEOREM Serial == Spec => []FeedIsSerial
<1>1. SerialInv => FeedIsSerial
  BY DEF SerialInv
<1> QED BY <1>1, SerialInvariance, PTL

(* The committed product rows and balances are the last ones of the feed:  *)
(* no domain write commits without its change log entry, nor the reverse.  *)
THEOREM FeedTail == Spec => []CatalogIsFeedTail
<1>1. SerialInv => CatalogIsFeedTail
  BY DEF SerialInv
<1> QED BY <1>1, SerialInvariance, PTL
-----------------------------------------------------------------------------
(* The refinement of OperationLog. *)

(* A replica has no position before its snapshot. *)
NewAtZero == \A r \in Readers : phase[r] # "ready" => cursor[r] = 0

LEMMA NextNewAtZero == TypeInv /\ NewAtZero /\ [Next]_vars => NewAtZero'
<1> SUFFICES ASSUME TypeInv, NewAtZero, [Next]_vars PROVE NewAtZero'
  OBVIOUS
<1>1. ASSUME NEW r \in Readers, SnapshotOpen(r) \/ SnapshotRead(r) \/ Pull(r) PROVE NewAtZero'
  BY <1>1 DEF SnapshotOpen, SnapshotRead, Pull, NewAtZero, TypeInv, TypeOK
<1>2. ASSUME UNCHANGED replicas PROVE NewAtZero'
  BY <1>2 DEF NewAtZero, replicas
<1>3. ASSUME NEW w \in Workers, Commit(w) PROVE UNCHANGED replicas
  BY <1>3 DEF Commit
<1> QED BY <1>1, <1>2, <1>3, StepKinds

(* The mapped feed is the change log, read by position. *)
PositionsRead ==
    /\ Feed \in Seq(Ops)
    /\ Len(Feed) = lastSeq
    /\ \A c \in changeLog : c.seq \in 1..lastSeq /\ Feed[c.seq] = c.op
    /\ \A n \in 1..lastSeq : \E c \in changeLog : c.seq = n

LEMMA FeedPositions == IInv => PositionsRead
<1> SUFFICES ASSUME IInv PROVE PositionsRead
  OBVIOUS
<1> USE DEF IInv, FeedIsContiguous
<1>1. lastSeq \in Nat /\ \A c \in changeLog : c.seq \in 1..lastSeq /\ c.op \in Ops
  BY DEF TypeInv, TypeOK, Change
<1>2. \A n \in 1..lastSeq : \E c \in changeLog : c.seq = n
  OBVIOUS
<1>3. ASSUME NEW c \in changeLog PROVE Feed[c.seq] = c.op
  <2>1. (CHOOSE d \in changeLog : d.seq = c.seq) = c
    OBVIOUS
  <2> QED BY <1>1, <2>1 DEF Feed
<1>4. Feed \in [1..lastSeq -> Ops]
  BY <1>1, <1>2 DEF Feed
<1> QED BY <1>1, <1>2, <1>3, <1>4 DEF PositionsRead

LEMMA FeedPositionsNext == IInv' => PositionsRead'
BY FeedPositions, PTL

(* A replica that holds what NothingSkipped says holds what Log shows it.  *)
HoldsVisible == \A r \in Readers : held[r] = Log!Visible(r, cursor[r])

LEMMA HeldIsVisible == IInv => HoldsVisible
<1> SUFFICES ASSUME IInv, NEW r \in Readers PROVE held[r] = Log!Visible(r, cursor[r])
  BY DEF HoldsVisible
<1>1. held[r] = {c.seq : c \in {x \in changeLog : x.op.account = AccountOf[r] /\ x.seq <= cursor[r]}}
  BY DEF IInv, NothingSkipped
<1>2. cursor[r] \in Nat /\ cursor[r] <= lastSeq /\ lastSeq \in Nat
  BY DEF IInv, TypeInv, TypeOK, ReplicasWithinFeed
<1>3. ASSUME NEW s \in 1..cursor[r], s <= lastSeq, Feed[s].account = AccountOf[r]
      PROVE  s \in held[r]
  <2>1. s \in 1..lastSeq
    BY <1>2, <1>3
  <2>2. PICK c \in changeLog : c.seq = s
    BY <2>1, FeedPositions DEF PositionsRead
  <2> QED BY <1>1, <1>3, <2>2, FeedPositions DEF PositionsRead
<1>4. ASSUME NEW c \in changeLog, c.op.account = AccountOf[r], c.seq <= cursor[r]
      PROVE  c.seq \in 1..cursor[r] /\ c.seq <= lastSeq /\ Feed[c.seq].account = AccountOf[r]
  BY <1>2, <1>4, FeedPositions DEF PositionsRead
<1> QED BY <1>1, <1>2, <1>3, <1>4, FeedPositions DEF Log!Visible, PositionsRead

LEMMA HeldIsVisibleNext == IInv' => HoldsVisible'
BY HeldIsVisible, PTL

LEMMA CommitDecides ==
    ASSUME IInv, IInv', NEW w \in Workers, Commit(w)
    PROVE  Log!Decide(job[w], verdict[w])
<1>1. PICK o \in Ops : o = job[w]
  BY DEF Commit, IInv, TypeInv, HasJob
<1>2. outcomes[o] = None /\ pc[w] = "finalize"
  BY <1>1, NoneAssumption DEF Commit, IInv, LockInv, KeyHeld
<1>3. verdict[w] \in Verdicts /\ [verdict |-> verdict[w], seq |-> seq[w]] \in Outcome
  BY DEF IInv, TypeInv, TypeOK, Outcome
<1>4. Decided[o] = None /\ Decided' = [Decided EXCEPT ![o] = verdict[w]]
  BY <1>1, <1>2, <1>3, NoneAssumption DEF Commit, Decided, IInv, TypeInv, TypeOK
<1>5. Feed' = IF verdict[w] = "applied" THEN Append(Feed, o) ELSE Feed
  <2>1. CASE verdict[w] = "applied"
    <3>1. PICK c : c = [seq |-> lastSeq + 1, op |-> o, row |-> draft[w]]
      OBVIOUS
    <3>2. changeLog' = changeLog \cup {c} /\ lastSeq' = lastSeq + 1 /\ c.seq = lastSeq + 1 /\ c.op = o
      BY <1>1, <2>1, <3>1, CommitAppends DEF IInv
    <3>3. /\ Feed \in Seq(Ops) /\ Len(Feed) = lastSeq /\ lastSeq \in Nat
          /\ \A d \in changeLog : d.seq \in 1..lastSeq /\ Feed[d.seq] = d.op
          /\ \A n \in 1..lastSeq : \E d \in changeLog : d.seq = n
      BY FeedPositions DEF PositionsRead, IInv, TypeInv, TypeOK
    <3>4. /\ Feed' \in Seq(Ops) /\ Len(Feed') = lastSeq + 1
          /\ \A d \in changeLog' : Feed'[d.seq] = d.op
      BY <3>2, FeedPositionsNext DEF PositionsRead
    <3>5. ASSUME NEW n \in 1..(lastSeq + 1) PROVE Feed'[n] = Append(Feed, o)[n]
      <4>1. CASE n = lastSeq + 1
        BY <3>2, <3>3, <3>4, <4>1
      <4>2. CASE n # lastSeq + 1
        <5>1. n \in 1..lastSeq
          BY <3>3, <4>2
        <5>2. PICK d \in changeLog : d.seq = n
          BY <3>3, <5>1
        <5>3. Feed'[n] = d.op /\ Feed[n] = d.op
          BY <3>2, <3>3, <3>4, <5>2
        <5> QED BY <3>3, <5>1, <5>3
      <4> QED BY <4>1, <4>2
    <3> QED BY <2>1, <3>3, <3>4, <3>5
  <2>2. CASE verdict[w] # "applied"
    BY <2>2 DEF Commit, Feed
  <2> QED BY <2>1, <2>2
<1>6. UNCHANGED <<cursor, held>>
  BY DEF Commit, replicas
<1> QED BY <1>1, <1>4, <1>5, <1>6 DEF Log!Decide

LEMMA ReaderStepAdvances ==
    ASSUME IInv, IInv', NewAtZero, NEW r \in Readers, SnapshotRead(r) \/ Pull(r)
    PROVE  \E n \in 0..Len(Feed) : Log!Advance(r, n)
<1>1. PICK n \in Nat : /\ n >= cursor[r] /\ n <= lastSeq
                       /\ cursor' = [cursor EXCEPT ![r] = n]
  <2>1. CASE SnapshotRead(r)
    <3>1. /\ cursor' = [cursor EXCEPT ![r] = view[r].last]
          /\ view[r].last \in Nat /\ view[r].last <= lastSeq /\ cursor[r] = 0
      BY <2>1 DEF SnapshotRead, NewAtZero, IInv, ReplicasWithinFeed, TypeInv, TypeOK
    <3>2. view[r].last >= cursor[r]
      BY <3>1
    <3> USE <3>1
    <3> WITNESS view[r].last \in Nat
    <3> QED BY <3>1, <3>2
  <2>2. CASE Pull(r)
    <3>1. PICK k \in After(AccountOf[r], cursor[r]) : cursor' = [cursor EXCEPT ![r] = k]
      BY <2>2 DEF Pull
    <3>2. k > cursor[r] /\ k \in Nat /\ k <= lastSeq /\ cursor[r] \in Nat
      BY <3>1 DEF After, IInv, FeedIsContiguous, TypeInv, TypeOK
    <3>3. k >= cursor[r]
      BY <3>2
    <3> USE <3>2
    <3> WITNESS k \in Nat
    <3> QED BY <3>1, <3>2, <3>3
  <2> QED BY <2>1, <2>2
<1>2. changeLog' = changeLog /\ lastSeq' = lastSeq /\ outcomes' = outcomes
  BY DEF SnapshotRead, Pull, tables
<1>3. Feed' = Feed /\ Decided' = Decided
  BY <1>2 DEF Feed, Decided
<1>4. \E h : held' = [held EXCEPT ![r] = h]
  BY DEF SnapshotRead, Pull
<1>5. held'[r] = Log!Visible(r, n)
  <2>1. cursor'[r] = n
    BY <1>1 DEF IInv, TypeInv, TypeOK
  <2>2. \A q \in Readers : held'[q] = Log!Visible(q, cursor[q])'
    BY HeldIsVisibleNext DEF HoldsVisible
  <2>3. Log!Visible(r, cursor[r])' = Log!Visible(r, n)
    BY <1>3, <2>1 DEF Log!Visible
  <2> QED BY <2>2, <2>3
<1>6. held' = [held EXCEPT ![r] = Log!Visible(r, n)]
  BY <1>4, <1>5 DEF IInv, TypeInv, TypeOK
<1>7. Len(Feed) = lastSeq /\ lastSeq \in Nat
  BY FeedPositions DEF PositionsRead, IInv, TypeInv, TypeOK
<1>8. n \in 0..Len(Feed)
  BY <1>1, <1>7
<1>9. Log!Advance(r, n)
  BY <1>1, <1>3, <1>6 DEF Log!Advance
<1> QED BY <1>8, <1>9

LEMMA InitRefines == Init => Log!Init
<1> SUFFICES ASSUME Init PROVE Log!Init
  OBVIOUS
<1>1. Feed = <<>>
  BY DEF Init, Feed
<1>2. Decided = [o \in Ops |-> None]
  BY DEF Init, Decided
<1> QED BY <1>1, <1>2 DEF Init, Log!Init

LEMMA StepRefines == IInv /\ IInv' /\ NewAtZero /\ [Next]_vars => [Log!Next]_(Log!vars)
<1> SUFFICES ASSUME IInv, IInv', NewAtZero, [Next]_vars PROVE [Log!Next]_(Log!vars)
  OBVIOUS
<1>1. ASSUME UNCHANGED tables, UNCHANGED <<cursor, held>> PROVE UNCHANGED Log!vars
  BY <1>1 DEF Log!vars, Feed, Decided, tables
<1>2. ASSUME NEW w \in Workers, Commit(w) PROVE Log!Next
  <2>1. job[w] \in Ops /\ verdict[w] \in Verdicts
    BY <1>2 DEF Commit, IInv, TypeInv, TypeOK, HasJob
  <2> QED BY <1>2, <2>1, CommitDecides DEF Log!Next
<1>3. ASSUME NEW r \in Readers, SnapshotOpen(r) PROVE UNCHANGED Log!vars
  BY <1>1, <1>3 DEF SnapshotOpen
<1>4. ASSUME NEW r \in Readers, SnapshotRead(r) \/ Pull(r) PROVE Log!Next
  BY <1>4, ReaderStepAdvances DEF Log!Next
<1> QED BY <1>1, <1>2, <1>3, <1>4, StepKinds DEF replicas

(* The statement-level transactions implement the atomic operation log:    *)
(* each operation is decided by one indivisible step, its commit, and      *)
(* everything before it is invisible.                                      *)
THEOREM Refinement == Spec => ImplementsLog
<1>1. Init => IInv /\ NewAtZero /\ Log!Init
  BY InitIInv, InitRefines DEF Init, NewAtZero
<1>2. IInv /\ NewAtZero /\ [Next]_vars => (IInv /\ NewAtZero)'
  BY NextIInv, NextNewAtZero DEF IInv
<1>3. IInv /\ IInv' /\ NewAtZero /\ [Next]_vars => [Log!Next]_(Log!vars)
  BY StepRefines
<1> QED BY <1>1, <1>2, <1>3, PTL DEF Spec, ImplementsLog, Log!Spec
=============================================================================
