---------------------------- MODULE BarcodesProofs ----------------------------
(***************************************************************************)
(* Proofs that the index keeps barcodes unique along the whole feed, that  *)
(* the products table is the end of it, and that a stored collision had a  *)
(* holder of the barcode behind it.                                        *)
(***************************************************************************)
EXTENDS Barcodes, FiniteSetTheorems, WellFoundedInduction, TLAPS

(* A transaction holds a row version from its statement to its end, or to  *)
(* the savepoint.                                                          *)
DraftsHeld == \A o \in Ops : draft[o] # None <=> pc[o] \in {"index", "violated", "sequence"}

(* The committed and the drafted rows that are in the index. *)
Unique(table) ==
    \A c \in Codes, p, q \in Products : p \in Holders(table, c) /\ q \in Holders(table, c) => p = q

Claims(o, c) == Entered(o) /\ ~draft[o].deleted /\ draft[o].code = c

(* Nobody else holds the code of an entry, nor can anybody enter it until  *)
(* the transaction ends.                                                   *)
IndexLocks ==
    \A o \in Ops, c \in Codes : Claims(o, c) =>
        /\ Holders(catalog, c) \subseteq {o.product}
        /\ \A t \in Ops : Claims(t, c) => t = o

IndexInv == TypeOK /\ DraftsHeld /\ IndexLocks /\ Unique(catalog)

(* At some point of the feed another product held the code of o; w held it *)
(* in its account.                                                         *)
Collided(o) == \E n \in 0..Len(feed) : Holders(After(n), o.code) \ {o.product} # {}
Shown(o, w) ==
    \E n \in 0..Len(feed) : w \in Holders(After(n), o.code) /\ After(n)[w].owner = o.account

(* What a transaction knows of a collision until it stores it. *)
Known(o) ==
    /\ pc[o] \in {"index", "violated"} => draft[o].code = o.code
    /\ pc[o] \in {"violated", "attach"} => Collided(o)
    /\ verdict[o] # None /\ verdict[o].reason = "barcode_conflict" =>
        /\ Collided(o)
        /\ verdict[o].owner # None => Shown(o, verdict[o].owner)
CollisionsKnown == \A o \in Ops : Known(o)

FeedInv == CatalogIsFeedTail /\ OneOwner /\ CollisionsKnown /\ ConflictsHadAnOwner
-----------------------------------------------------------------------------
LEMMA OpFields ==
    ASSUME NEW o \in Ops
    PROVE  /\ o.account \in Accounts /\ o.product \in Products /\ o.base \in Nat
           /\ o.code \in Codes \cup {None} /\ o.kind \in {"upsert", "delete"}
BY OpsAreOperations DEF Operation

LEMMA InitIndex == Init => IndexInv
<1> SUFFICES ASSUME Init PROVE IndexInv
  OBVIOUS
<1>1. TypeOK
  BY OpeningIsUnique DEF Init, TypeOK, Steps
<1>2. Unique(catalog)
  BY OpeningIsUnique DEF Init, Unique
<1> QED BY <1>1, <1>2 DEF Init, IndexInv, DraftsHeld, IndexLocks, Claims, Entered

(* A step of o that leaves the tables alone and enters nothing. *)
LEMMA QuietStep ==
    ASSUME IndexInv, UNCHANGED tables, NEW o \in Ops,
           NEW s \in Steps, pc' = [pc EXCEPT ![o] = s],
           NEW d \in Row \cup {None}, draft' = [draft EXCEPT ![o] = d],
           d # None <=> s \in {"index", "violated", "sequence"},
           s = "sequence" => d.deleted \/ d.code = None,
           verdict' \in [Ops -> Outcome \cup {None}]
    PROVE  IndexInv'
<1> USE DEF IndexInv
<1>1. TypeOK'
  BY DEF TypeOK, tables
<1>2. DraftsHeld'
  BY DEF DraftsHeld, TypeOK
<1>3. ASSUME NEW t \in Ops, NEW c \in Codes, Claims(t, c)' PROVE Claims(t, c)
  BY <1>3, NoneIsNothing DEF Claims, Entered, TypeOK
<1>4. IndexLocks'
  BY <1>3 DEF IndexLocks, tables
<1> QED BY <1>1, <1>2, <1>4 DEF tables

LEMMA ClaimKeepsIndex ==
    ASSUME IndexInv, NEW o \in Ops, ClaimBarcode(o)
    PROVE  IndexInv'
<1> USE DEF IndexInv
<1> DEFINE c == draft[o].code
<1>1. /\ pc[o] = "index" /\ draft[o] \in Row /\ UNCHANGED <<tables, draft, verdict>>
      /\ c \in Codes \cup {None}
  BY DEF ClaimBarcode, Goto, DraftsHeld, TypeOK, Row
<1>2. draft' = [draft EXCEPT ![o] = draft[o]]
  BY <1>1 DEF TypeOK
<1>3. CASE c = None
  <2>1. pc' = [pc EXCEPT ![o] = "sequence"]
    BY <1>3 DEF ClaimBarcode, Goto
  <2> QED BY <1>1, <1>2, <1>3, <2>1, NoneIsNothing, QuietStep DEF Steps, TypeOK
<1>4. CASE Holders(catalog, c) \ {o.product} # {} /\ c # None
  <2>1. pc' = [pc EXCEPT ![o] = "violated"]
    BY <1>4 DEF ClaimBarcode, Goto
  <2> QED BY <1>1, <1>2, <2>1, NoneIsNothing, QuietStep DEF Steps, TypeOK
<1>5. CASE c # None /\ Holders(catalog, c) \subseteq {o.product}
  <2>1. pc' = [pc EXCEPT ![o] = "sequence"]
    BY <1>5 DEF ClaimBarcode, Goto
  <2>2. TypeOK'
    BY <1>1, <2>1 DEF TypeOK, tables, Steps
  <2>3. DraftsHeld'
    BY <1>1, <2>1, NoneIsNothing DEF DraftsHeld, TypeOK
  <2>4. \A t \in Ops \ {o} : ~Claims(t, c)
    BY <1>5 DEF ClaimBarcode, Contenders, Claims
  <2>5. \A t \in Ops \ {o}, x \in Codes : Claims(t, x)' = Claims(t, x)
    BY <1>1, <2>1 DEF Claims, Entered, TypeOK
  <2>6. \A x \in Codes : Claims(o, x)' => x = c
    BY <1>1 DEF Claims
  <2>7. ASSUME NEW t \in Ops, NEW x \in Codes, Claims(t, x)'
        PROVE  /\ Holders(catalog', x) \subseteq {t.product}
               /\ \A u \in Ops : Claims(u, x)' => u = t
    <3>1. CASE t = o
      BY <1>1, <1>5, <2>4, <2>5, <2>6, <2>7, <3>1 DEF tables
    <3>2. CASE t # o
      <4>1. Claims(t, x) /\ x # c
        BY <2>4, <2>5, <2>7, <3>2
      <4> QED BY <1>1, <2>5, <2>6, <3>2, <4>1 DEF IndexLocks, tables
    <3> QED BY <3>1, <3>2
  <2>8. IndexLocks'
    BY <2>7 DEF IndexLocks, Holders
  <2> QED BY <1>1, <2>2, <2>3, <2>8 DEF tables
<1> QED BY <1>3, <1>4, <1>5

(* A commit takes the place of the row it locked; the holders of its code  *)
(* are at most that row.                                                   *)
LEMMA CommitKeepsIndex ==
    ASSUME IndexInv, NEW o \in Ops, CommitApplied(o)
    PROVE  IndexInv'
<1> USE DEF IndexInv
<1> DEFINE p == o.product
<1>1. /\ pc[o] = "sequence" /\ draft[o] \in Row /\ p \in Products
      /\ catalog' = [catalog EXCEPT ![p] = draft[o]]
      /\ pc' = [pc EXCEPT ![o] = "idle"] /\ draft' = [draft EXCEPT ![o] = None]
  BY OpFields DEF CommitApplied, DraftsHeld, TypeOK
<1>2. TypeOK'
  BY <1>1 DEF CommitApplied, TypeOK, Table, Steps, Outcome, Reasons
<1>3. DraftsHeld'
  BY <1>1 DEF DraftsHeld, TypeOK
<1>4. \A c \in Codes : /\ p \in Holders(catalog', c) => Claims(o, c)
                       /\ Holders(catalog', c) \subseteq Holders(catalog, c) \cup {p}
  BY <1>1 DEF Holders, Claims, Entered, TypeOK, Table
<1>5. Unique(catalog')
  BY <1>4 DEF Unique, IndexLocks
<1>6. \A t \in Ops, c \in Codes : Claims(t, c)' => t # o /\ Claims(t, c)
  BY <1>1 DEF Claims, Entered, TypeOK
<1>7. ASSUME NEW t \in Ops, NEW c \in Codes, Claims(t, c)'
      PROVE  Holders(catalog', c) \subseteq {t.product}
  BY <1>4, <1>6, <1>7 DEF IndexLocks
<1>8. IndexLocks'
  BY <1>6, <1>7 DEF IndexLocks, Holders
<1>9. Unique(catalog)'
  BY <1>5 DEF Unique, Holders
<1> QED BY <1>2, <1>3, <1>8, <1>9

Holding == {"index", "violated", "sequence"}

LEMMA RejectKeepsIndex ==
    ASSUME IndexInv, NEW o \in Ops, pc[o] \notin Holding, NEW reason \in Reasons, Reject(o, reason)
    PROVE  IndexInv'
<1>1. draft[o] = None /\ draft' = [draft EXCEPT ![o] = None]
  BY DEF IndexInv, DraftsHeld, Holding, TypeOK, Reject
<1>2. verdict' \in [Ops -> Outcome \cup {None}]
  BY DEF IndexInv, TypeOK, Reject, Outcome
<1> QED BY <1>1, <1>2, QuietStep DEF Reject, Steps

LEMMA GotoKeepsIndex ==
    ASSUME IndexInv, NEW o \in Ops, pc[o] \notin Holding,
           NEW s \in Steps \ Holding, Goto(o, s)
    PROVE  IndexInv'
<1>1. draft[o] = None /\ draft' = [draft EXCEPT ![o] = None]
  BY DEF IndexInv, DraftsHeld, Holding, TypeOK, Goto
<1> QED BY <1>1, QuietStep DEF Goto, Holding, IndexInv, TypeOK

LEMMA WriteKeepsIndex ==
    ASSUME IndexInv, NEW o \in Ops, NEW row \in Row \cup {None}, NEW s \in Steps, Write(o, row, s),
           row # None <=> s \in Holding,
           s = "sequence" => row.deleted
    PROVE  IndexInv'
BY QuietStep DEF Write, Holding, IndexInv, TypeOK

LEMMA RollbackKeepsIndex ==
    ASSUME IndexInv, NEW o \in Ops, Rollback(o)
    PROVE  IndexInv'
<1>1. verdict' \in [Ops -> Outcome \cup {None}]
  BY DEF IndexInv, TypeOK, Rollback
<1> QED BY <1>1, QuietStep DEF Rollback, Steps

(* The rows that the statements of o write. *)
LEMMA WrittenRows ==
    ASSUME IndexInv, NEW o \in Ops, EditMatches(o) \/ DeleteMatches(o)
    PROVE  /\ [catalog[o.product] EXCEPT !.version = @ + 1, !.code = o.code] \in Row \ {None}
           /\ [catalog[o.product] EXCEPT !.version = @ + 1, !.deleted = TRUE] \in Row \ {None}
<1>1. catalog[o.product] \in Row /\ o.code \in Codes \cup {None}
  BY OpFields DEF IndexInv, TypeOK, Table, EditMatches, DeleteMatches, Active
<1> DEFINE row == catalog[o.product]
<1>2. row.version + 1 \in Nat
  BY <1>1 DEF Row
<1> QED BY <1>1, <1>2, NoneIsNothing DEF Row

LEMMA NextIndex == IndexInv /\ [Next]_vars => IndexInv'
<1> SUFFICES ASSUME IndexInv, [Next]_vars PROVE IndexInv'
  OBVIOUS
<1>1. ASSUME NEW o \in Ops, Begin(o) PROVE IndexInv'
  BY <1>1, GotoKeepsIndex DEF Begin, Steps, Holding
<1>2. ASSUME NEW o \in Ops, Lookup(o) PROVE IndexInv'
  BY <1>2, RejectKeepsIndex, GotoKeepsIndex DEF Lookup, Steps, Holding, Reasons
<1>3. ASSUME NEW o \in Ops, InsertProduct(o) PROVE IndexInv'
  <2>1. CASE catalog[o.product] # None
    BY <1>3, <2>1, WriteKeepsIndex DEF InsertProduct, Break, Steps, Holding
  <2>2. CASE catalog[o.product] = None
    <3>1. [owner |-> o.account, version |-> 1, deleted |-> FALSE, code |-> o.code] \in Row
      BY OpFields DEF Row
    <3>2. PICK row \in Row \ {None} :
              row = [owner |-> o.account, version |-> 1, deleted |-> FALSE, code |-> o.code]
      BY <3>1, NoneIsNothing
    <3>3. Write(o, row, "index")
      BY <1>3, <2>2, <3>2 DEF InsertProduct
    <3> QED BY <3>3, WriteKeepsIndex DEF Steps, Holding
  <2> QED BY <2>1, <2>2
<1>4. ASSUME NEW o \in Ops, UpdateProduct(o) PROVE IndexInv'
  <2>1. CASE ~EditMatches(o)
    BY <1>4, <2>1, GotoKeepsIndex DEF UpdateProduct, Steps, Holding
  <2>2. CASE EditMatches(o)
    BY <1>4, <2>2, WrittenRows, WriteKeepsIndex DEF UpdateProduct, Steps, Holding
  <2> QED BY <2>1, <2>2
<1>5. ASSUME NEW o \in Ops, SoftDeleteProduct(o) PROVE IndexInv'
  <2>1. CASE o.base = 0
    BY <1>5, <2>1, RejectKeepsIndex DEF SoftDeleteProduct, Holding, Reasons
  <2>2. CASE o.base # 0 /\ ~DeleteMatches(o)
    BY <1>5, <2>2, GotoKeepsIndex DEF SoftDeleteProduct, Steps, Holding
  <2>3. CASE o.base # 0 /\ DeleteMatches(o)
    <3> DEFINE row == [catalog[o.product] EXCEPT !.version = @ + 1, !.deleted = TRUE]
    <3>1. row \in Row \ {None} /\ Write(o, row, "sequence")
      BY <1>5, <2>3, WrittenRows DEF SoftDeleteProduct
    <3>2. catalog[o.product] \in Row
      BY <2>3, OpFields DEF IndexInv, TypeOK, Table, DeleteMatches, Active
    <3>3. row.deleted
      BY <3>2 DEF Row
    <3> QED BY <3>1, <3>3, WriteKeepsIndex DEF Steps, Holding
  <2> QED BY <2>1, <2>2, <2>3
<1>6. ASSUME NEW o \in Ops, Classify(o) PROVE IndexInv'
  BY <1>6, RejectKeepsIndex DEF Classify, Holding, Reasons
<1>7. ASSUME NEW o \in Ops, RollbackToSavepoint(o) PROVE IndexInv'
  BY <1>7, WriteKeepsIndex DEF RollbackToSavepoint, Steps, Holding
<1>8. ASSUME NEW o \in Ops, AttachOwner(o) PROVE IndexInv'
  <2>1. draft[o] = None /\ draft' = [draft EXCEPT ![o] = None]
    BY <1>8 DEF AttachOwner, IndexInv, DraftsHeld, TypeOK
  <2>2. verdict' \in [Ops -> Outcome \cup {None}]
    BY <1>8 DEF AttachOwner, IndexInv, TypeOK, Outcome, Reasons, Holders
  <2> QED BY <1>8, <2>1, <2>2, QuietStep DEF AttachOwner, Steps
<1>9. ASSUME NEW o \in Ops, CommitRejected(o) PROVE IndexInv'
  <2>1. draft[o] = None /\ catalog' = catalog
    BY <1>9 DEF CommitRejected, IndexInv, DraftsHeld
  <2>2. TypeOK'
    BY <1>9, <2>1 DEF CommitRejected, IndexInv, TypeOK, Steps
  <2>3. DraftsHeld'
    BY <1>9 DEF CommitRejected, IndexInv, DraftsHeld, TypeOK
  <2>4. \A t \in Ops, c \in Codes : Claims(t, c)' => Claims(t, c)
    BY <1>9, <2>1 DEF CommitRejected, Claims, Entered, IndexInv, TypeOK
  <2>5. IndexLocks'
    BY <2>1, <2>4 DEF IndexInv, IndexLocks, Holders
  <2>6. Unique(catalog)'
    BY <2>1 DEF IndexInv, Unique, Holders
  <2> QED BY <2>2, <2>3, <2>5, <2>6 DEF IndexInv
<1>10. ASSUME NEW o \in Ops, ReturnError(o) \/ Abort(o) PROVE IndexInv'
  BY <1>10, RollbackKeepsIndex DEF ReturnError, Abort
<1>12. ASSUME NEW o \in Ops, DetectDeadlock(o) PROVE IndexInv'
  BY <1>12, WriteKeepsIndex DEF DetectDeadlock, Break, Steps, Holding
<1>11. ASSUME UNCHANGED vars PROVE IndexInv'
  BY <1>11 DEF vars, tables, IndexInv, TypeOK, DraftsHeld, IndexLocks, Claims, Entered, Unique, Holders
<1> QED
  BY <1>1, <1>2, <1>3, <1>4, <1>5, <1>6, <1>7, <1>8, <1>9, <1>10, <1>11, <1>12,
     ClaimKeepsIndex, CommitKeepsIndex DEF Next, Statement

(* Every reachable state of the transactions and of the index is well      *)
(* typed.                                                                  *)
THEOREM TypeCorrect == Spec => []TypeOK
<1>1. IndexInv => TypeOK
  BY DEF IndexInv
<1> QED BY <1>1, InitIndex, NextIndex, PTL DEF Spec
-----------------------------------------------------------------------------
(* The row of p after n changes of a feed. *)
Of(f, n, p) == {s \in 1..n : f[s].op.product = p}
LastOf(S) == CHOOSE s \in S : \A k \in S : k <= s
RowAfter(f, n, p) == IF Of(f, n, p) = {} THEN Opening[p] ELSE f[LastOf(Of(f, n, p))].row

LEMMA AfterIsRows == \A n : After(n) = [p \in Products |-> RowAfter(feed, n, p)]
BY DEF After, RowAfter, Of, LastOf

(* Some numbers up to n have a greatest one: the last of the smallest set  *)
(* of those that are not below one of them.                                *)
LEMMA LastIsOne ==
    ASSUME NEW n \in Nat, NEW S \in SUBSET (1..n), S # {}
    PROVE  LastOf(S) \in S
<1> DEFINE UpFrom(i) == {j \in S : i <= j}
<1> DEFINE Tails == {UpFrom(i) : i \in S}
<1>1. IsFiniteSet(S)
  BY FS_BoundedSetOfNaturals
<1>2. IsWellFoundedOn(StrictSubsetOrdering(S), SUBSET S)
  BY <1>1, FS_StrictSubsetOrderingWellFounded, FS_FiniteSubsetsOfFinite
<1>3. PICK T \in Tails : \A U \in Tails : <<U, T>> \notin StrictSubsetOrdering(S)
  <2>1. Tails \subseteq SUBSET S /\ Tails # {}
    OBVIOUS
  <2> HIDE DEF Tails
  <2> QED BY <1>2, <2>1, WFMin
<1>4. PICK i \in S : T = UpFrom(i)
  BY <1>3
<1>5. ASSUME NEW j \in S, i < j PROVE FALSE
  <2>1. UpFrom(j) \subseteq UpFrom(i) /\ i \in UpFrom(i) /\ i \notin UpFrom(j)
    <3>1. i \in Int /\ j \in Int /\ \A k \in S : k \in Int
      OBVIOUS
    <3>2. ASSUME NEW k \in UpFrom(j) PROVE k \in UpFrom(i)
      <4>1. k \in S /\ k \in Int /\ j <= k
        BY <3>1
      <4>2. i <= k
        BY <1>5, <3>1, <4>1
      <4> QED BY <4>1, <4>2
    <3>3. i <= i /\ ~(j <= i)
      BY <1>5, <3>1
    <3> QED BY <3>2, <3>3
  <2>2. <<UpFrom(j), UpFrom(i)>> \in (SUBSET S) \X (SUBSET S)
    OBVIOUS
  <2>3. <<UpFrom(j), UpFrom(i)>> \in StrictSubsetOrdering(S)
    BY <2>1, <2>2 DEF StrictSubsetOrdering
  <2>4. UpFrom(j) \in Tails
    OBVIOUS
  <2> HIDE DEF UpFrom, Tails
  <2> QED BY <1>3, <1>4, <2>3, <2>4
<1>6. \A k \in S : k <= i
  BY <1>5
<1> QED BY <1>6 DEF LastOf

(* Feed g is the first n changes of f and change c. *)
Continues(g, f, n, c) == n \in Nat /\ g[n + 1] = c /\ \A s \in 1..n : g[s] = f[s]

(* Adding a change leaves the past of the feed alone and puts its row last. *)
LEMMA RowsAppended ==
    ASSUME NEW f, NEW g, NEW n, NEW c, Continues(g, f, n, c)
    PROVE  /\ \A p : \A m \in 0..n : RowAfter(g, m, p) = RowAfter(f, m, p)
           /\ RowAfter(g, n + 1, c.op.product) = c.row
           /\ \A p : p # c.op.product => RowAfter(g, n + 1, p) = RowAfter(f, n, p)
<1> USE DEF Continues
<1>1. ASSUME NEW p, NEW m \in 0..n PROVE RowAfter(g, m, p) = RowAfter(f, m, p)
  <2>1. Of(g, m, p) = Of(f, m, p)
    BY DEF Of
  <2>2. CASE Of(f, m, p) # {}
    <3>1. m \in Nat /\ Of(f, m, p) \in SUBSET (1..m)
      BY DEF Of
    <3>2. LastOf(Of(f, m, p)) \in Of(f, m, p)
      BY <2>2, <3>1, LastIsOne
    <3>3. LastOf(Of(f, m, p)) \in 1..n
      BY <3>2 DEF Of
    <3> QED BY <2>1, <3>3 DEF RowAfter
  <2> QED BY <2>1, <2>2 DEF RowAfter
<1>2. ASSUME NEW p, p # c.op.product
      PROVE  RowAfter(g, n + 1, p) = RowAfter(f, n, p)
  <2>1. Of(g, n + 1, p) = Of(g, n, p)
    BY <1>2 DEF Of
  <2> QED BY <1>1, <2>1 DEF RowAfter
<1>3. ASSUME NEW p, p = c.op.product
      PROVE  RowAfter(g, n + 1, p) = c.row
  <2>1. n + 1 \in Of(g, n + 1, p) /\ \A k \in Of(g, n + 1, p) : k \in Int /\ k <= n + 1
    BY <1>3 DEF Of
  <2>2. \A s \in Of(g, n + 1, p) : (\A k \in Of(g, n + 1, p) : k <= s) <=> s = n + 1
    BY <2>1
  <2>3. LastOf(Of(g, n + 1, p)) = n + 1
    BY <2>1, <2>2 DEF LastOf
  <2> QED BY <2>1, <2>3 DEF RowAfter
<1> QED BY <1>1, <1>2, <1>3

LEMMA AfterAppend ==
    ASSUME NEW S, feed \in Seq(S), NEW change \in S, feed' = Append(feed, change)
    PROVE  /\ Len(feed') = Len(feed) + 1
           /\ \A n \in 0..Len(feed) : After(n)' = After(n)
           /\ After(Len(feed))' = [After(Len(feed)) EXCEPT ![change.op.product] = change.row]
<1>1. PICK f, g, m : f = feed /\ g = feed' /\ m = Len(feed)
  OBVIOUS
<1>2. Len(feed') = m + 1 /\ m \in Nat /\ Continues(g, f, m, change)
  BY <1>1 DEF Continues
<1>3. \A n : After(n) = [p \in Products |-> RowAfter(f, n, p)]
  BY <1>1, AfterIsRows
<1>4. \A n : After(n)' = [p \in Products |-> RowAfter(g, n, p)]
  BY <1>1 DEF After, RowAfter, Of, LastOf
<1>5. /\ \A p : \A n \in 0..m : RowAfter(g, n, p) = RowAfter(f, n, p)
      /\ RowAfter(g, m + 1, change.op.product) = change.row
      /\ \A p : p # change.op.product => RowAfter(g, m + 1, p) = RowAfter(f, m, p)
  BY <1>2, RowsAppended
<1>6. ASSUME NEW n \in 0..m PROVE After(n)' = After(n)
  BY <1>3, <1>4, <1>5
<1>7. After(Len(feed))' = [p \in Products |-> RowAfter(g, m + 1, p)]
  BY <1>1, <1>2 DEF After, RowAfter, Of, LastOf
<1>8. [p \in Products |-> RowAfter(g, m + 1, p)] = [After(m) EXCEPT ![change.op.product] = change.row]
  BY <1>2, <1>3, <1>5
<1> QED BY <1>1, <1>2, <1>6, <1>7, <1>8

(* The tables change by commits only, and of a rejected operation there is *)
(* the outcome alone.                                                      *)
LEMMA TableSteps ==
    ASSUME IndexInv, [Next]_vars
    PROVE  \/ UNCHANGED tables
           \/ \E o \in Ops : CommitRejected(o) /\ UNCHANGED <<catalog, feed>>
           \/ \E o \in Ops : CommitApplied(o)
<1>1. ASSUME NEW o \in Ops, Begin(o) \/ Lookup(o) \/ UpdateProduct(o) \/ SoftDeleteProduct(o)
      PROVE  UNCHANGED tables
  BY <1>1 DEF Begin, Lookup, UpdateProduct, SoftDeleteProduct, Goto, Reject, Write
<1>2. ASSUME NEW o \in Ops,
             InsertProduct(o) \/ Classify(o) \/ ClaimBarcode(o) \/ RollbackToSavepoint(o)
      PROVE  UNCHANGED tables
  BY <1>2 DEF InsertProduct, Classify, ClaimBarcode, RollbackToSavepoint, Break, Goto, Reject, Write
<1>3. ASSUME NEW o \in Ops, AttachOwner(o) \/ DetectDeadlock(o) \/ ReturnError(o) \/ Abort(o)
      PROVE  UNCHANGED tables
  BY <1>3 DEF AttachOwner, DetectDeadlock, ReturnError, Abort, Break, Write, Rollback
<1>4. ASSUME NEW o \in Ops, CommitRejected(o) PROVE UNCHANGED <<catalog, feed>>
  BY <1>4 DEF CommitRejected, IndexInv, DraftsHeld
<1>5. UNCHANGED vars => UNCHANGED tables
  BY DEF vars
<1> QED BY <1>1, <1>2, <1>3, <1>4, <1>5 DEF Next, Statement

(* A commit appends the row it drafted. *)
LEMMA CommitAppends ==
    ASSUME IndexInv, NEW o \in Ops, CommitApplied(o)
    PROVE  /\ Len(feed') = Len(feed) + 1
           /\ \A n \in 0..Len(feed) : After(n)' = After(n)
           /\ After(Len(feed))' = [After(Len(feed)) EXCEPT ![o.product] = draft[o]]
<1>1. draft[o] \in Row /\ feed \in Seq([op : Ops, row : Row])
  BY DEF IndexInv, TypeOK, DraftsHeld, CommitApplied
<1> DEFINE change == [op |-> o, row |-> draft[o]]
<1>2. change \in [op : Ops, row : Row] /\ change.op = o /\ change.row = draft[o]
  BY <1>1
<1>3. feed' = Append(feed, change)
  BY DEF CommitApplied
<1> HIDE DEF change
<1> QED BY <1>1, <1>2, <1>3, AfterAppend

(* The past of the feed stays as it is. *)
LEMMA PastStays ==
    ASSUME IndexInv, [Next]_vars
    PROVE  /\ 0..Len(feed) \subseteq 0..Len(feed')
           /\ \A n \in 0..Len(feed) : After(n)' = After(n)
<1>1. Len(feed) \in Nat
  BY DEF IndexInv, TypeOK
<1>2. CASE UNCHANGED feed
  BY <1>2 DEF After
<1>3. CASE \E o \in Ops : CommitApplied(o)
  BY <1>1, <1>3, CommitAppends
<1> QED BY <1>2, <1>3, TableSteps DEF tables

LEMMA CollisionsStay ==
    ASSUME IndexInv, [Next]_vars, NEW o \in Ops
    PROVE  /\ Collided(o) => Collided(o)'
           /\ \A w \in Products : Shown(o, w) => Shown(o, w)'
BY PastStays DEF Collided, Shown, Holders

LEMMA NextFeedTail ==
    ASSUME IndexInv, CatalogIsFeedTail, OneOwner, [Next]_vars
    PROVE  CatalogIsFeedTail' /\ OneOwner'
<1>1. CASE \E o \in Ops : CommitApplied(o)
  <2>1. PICK o \in Ops : CommitApplied(o)
    BY <1>1
  <2>2. CatalogIsFeedTail'
    BY <2>1, CommitAppends DEF CatalogIsFeedTail, CommitApplied
  <2>3. Unique(catalog)'
    BY NextIndex DEF IndexInv
  <2>4. ASSUME NEW n \in 0..Len(feed') PROVE Unique(After(n))'
    <3>1. CASE n \in 0..Len(feed)
      BY <2>1, <3>1, CommitAppends DEF OneOwner, Unique, Holders
    <3>2. CASE n = Len(feed')
      BY <2>2, <2>3, <3>2 DEF CatalogIsFeedTail, Unique, Holders
    <3> QED
      BY <2>1, <3>1, <3>2, CommitAppends DEF IndexInv, TypeOK
  <2>5. OneOwner'
    BY <2>4 DEF OneOwner, Unique
  <2> QED BY <2>2, <2>5
<1>2. CASE ~\E o \in Ops : CommitApplied(o)
  <2>1. UNCHANGED <<catalog, feed>>
    BY <1>2, TableSteps DEF tables
  <2>2. CatalogIsFeedTail'
    <3>1. /\ After(Len(feed))' = [p \in Products |-> RowAfter(feed', Len(feed'), p)]
          /\ After(Len(feed)) = [p \in Products |-> RowAfter(feed, Len(feed), p)]
      BY DEF After, RowAfter, Of, LastOf
    <3>2. After(Len(feed))' = After(Len(feed))
      BY <2>1, <3>1
    <3> QED BY <2>1, <3>2 DEF CatalogIsFeedTail
  <2>3. \A n \in 0..Len(feed') : n \in 0..Len(feed) /\ After(n)' = After(n)
    BY <2>1, PastStays
  <2>4. OneOwner'
    BY <2>3 DEF OneOwner, Holders
  <2> QED BY <2>2, <2>4
<1> QED BY <1>1, <1>2

(* What a transaction knows stays true while others take their steps. *)
LEMMA OthersKnow ==
    ASSUME IndexInv, CollisionsKnown, [Next]_vars, NEW o \in Ops, Known(o)',
           \A t \in Ops \ {o} : pc'[t] = pc[t] /\ draft'[t] = draft[t] /\ verdict'[t] = verdict[t]
    PROVE  CollisionsKnown'
<1>1. ASSUME NEW t \in Ops \ {o} PROVE Known(t)'
  <2>1. verdict[t] # None => verdict[t].owner \in Products \cup {None}
    BY DEF IndexInv, TypeOK, Outcome
  <2> QED BY <2>1, CollisionsStay DEF CollisionsKnown, Known
<1> QED BY <1>1 DEF CollisionsKnown

(* A step that ends neither in the index nor in a collision. *)
LEMMA StepKeepsKnown ==
    ASSUME IndexInv, CollisionsKnown, [Next]_vars, NEW o \in Ops,
           NEW s \in Steps \ {"index", "violated", "attach"}, pc' = [pc EXCEPT ![o] = s],
           \A t \in Ops \ {o} : draft'[t] = draft[t] /\ verdict'[t] = verdict[t],
           \/ verdict'[o] = verdict[o]
           \/ verdict'[o] = None
           \/ verdict'[o].reason # "barcode_conflict"
    PROVE  CollisionsKnown'
<1>1. \A t \in Ops \ {o} : pc'[t] = pc[t]
  BY DEF IndexInv, TypeOK
<1>2. verdict[o] # None => verdict[o].owner \in Products \cup {None}
  BY DEF IndexInv, TypeOK, Outcome
<1>3. pc'[o] \notin {"index", "violated", "attach"}
  BY DEF IndexInv, TypeOK
<1>4. Known(o)'
  BY <1>2, <1>3, CollisionsStay DEF CollisionsKnown, Known
<1> QED BY <1>1, <1>4, OthersKnow

(* A statement that writes o's row drafts o's code. *)
LEMMA WriteKeepsKnown ==
    ASSUME IndexInv, CollisionsKnown, [Next]_vars, NEW o \in Ops, NEW row, Write(o, row, "index"),
           row.code = o.code
    PROVE  CollisionsKnown'
<1>1. /\ pc'[o] = "index" /\ draft'[o] = row
      /\ \A t \in Ops \ {o} : pc'[t] = pc[t] /\ draft'[t] = draft[t]
      /\ verdict' = verdict
  BY DEF Write, IndexInv, TypeOK
<1>2. verdict[o] # None => verdict[o].owner \in Products \cup {None}
  BY DEF IndexInv, TypeOK, Outcome
<1>3. Known(o)'
  BY <1>1, <1>2, CollisionsStay DEF CollisionsKnown, Known
<1> QED BY <1>1, <1>3, OthersKnow

LEMMA ClaimKeepsKnown ==
    ASSUME IndexInv, CatalogIsFeedTail, CollisionsKnown, [Next]_vars, NEW o \in Ops, ClaimBarcode(o)
    PROVE  CollisionsKnown'
<1> DEFINE c == draft[o].code
<1>1. pc[o] = "index" /\ c = o.code /\ UNCHANGED <<tables, draft, verdict>>
  BY DEF ClaimBarcode, Goto, CollisionsKnown, Known
<1>2. CASE c = None \/ Holders(catalog, c) \ {o.product} = {}
  <2>1. pc' = [pc EXCEPT ![o] = "sequence"]
    BY <1>2 DEF ClaimBarcode, Goto
  <2> QED BY <1>1, <2>1, StepKeepsKnown DEF Steps
<1>3. CASE ~(c = None \/ Holders(catalog, c) \ {o.product} = {})
  <2>1. pc' = [pc EXCEPT ![o] = "violated"]
    BY <1>3 DEF ClaimBarcode, Goto
  <2>2. Collided(o)
    <3>1. Len(feed) \in 0..Len(feed)
      BY DEF IndexInv, TypeOK
    <3> QED BY <1>1, <1>3, <3>1 DEF Collided, CatalogIsFeedTail
  <2>3. \A t \in Ops \ {o} : pc'[t] = pc[t] /\ draft'[t] = draft[t] /\ verdict'[t] = verdict[t]
    BY <1>1, <2>1 DEF IndexInv, TypeOK
  <2>4. verdict[o] # None => verdict[o].owner \in Products \cup {None}
    BY DEF IndexInv, TypeOK, Outcome
  <2>5. Known(o)'
    BY <1>1, <2>2, <2>4, CollisionsStay DEF CollisionsKnown, Known
  <2> QED BY <2>3, <2>5, OthersKnow
<1> QED BY <1>2, <1>3

LEMMA AttachKeepsKnown ==
    ASSUME IndexInv, CatalogIsFeedTail, CollisionsKnown, [Next]_vars, NEW o \in Ops, AttachOwner(o)
    PROVE  CollisionsKnown'
<1>1. PICK w \in Products \cup {None} :
          /\ verdict' = [verdict EXCEPT ![o] = [reason |-> "barcode_conflict", owner |-> w]]
          /\ w # None => w \in Holders(catalog, o.code) /\ catalog[w].owner = o.account
  BY NoneIsNothing DEF AttachOwner, Holders
<1>2. w # None => Shown(o, w)
  <2>1. Len(feed) \in 0..Len(feed)
    BY DEF IndexInv, TypeOK
  <2> QED BY <1>1, <2>1 DEF Shown, CatalogIsFeedTail
<1>3. Collided(o)
  BY DEF AttachOwner, CollisionsKnown, Known
<1>4. /\ verdict'[o] = [reason |-> "barcode_conflict", owner |-> w] /\ pc'[o] = "finalize"
      /\ \A t \in Ops \ {o} : pc'[t] = pc[t] /\ draft'[t] = draft[t] /\ verdict'[t] = verdict[t]
  BY <1>1 DEF AttachOwner, IndexInv, TypeOK
<1>5. Known(o)'
  BY <1>1, <1>2, <1>3, <1>4, CollisionsStay DEF Known
<1> QED BY <1>4, <1>5, OthersKnow

LEMMA NextKnown ==
    ASSUME IndexInv, CatalogIsFeedTail, CollisionsKnown, [Next]_vars
    PROVE  CollisionsKnown'
<1>1. ASSUME NEW o \in Ops, NEW reason, reason # "barcode_conflict", Reject(o, reason)
      PROVE  CollisionsKnown'
  <2>1. verdict'[o] = [reason |-> reason, owner |-> None]
    BY <1>1 DEF Reject, IndexInv, TypeOK
  <2>2. \A t \in Ops \ {o} : draft'[t] = draft[t] /\ verdict'[t] = verdict[t]
    BY <1>1 DEF Reject, IndexInv, TypeOK
  <2>3. verdict'[o].reason # "barcode_conflict"
    BY <1>1, <2>1
  <2>4. pc' = [pc EXCEPT ![o] = "finalize"]
    BY <1>1 DEF Reject
  <2> QED BY <2>2, <2>3, <2>4, StepKeepsKnown DEF Steps
<1>2. ASSUME NEW o \in Ops, NEW s \in Steps \ {"index", "violated", "attach"}, Goto(o, s)
      PROVE  CollisionsKnown'
  BY <1>2, StepKeepsKnown DEF Goto
<1>13. ASSUME NEW o \in Ops, Break(o) PROVE CollisionsKnown'
  <2>1. /\ pc' = [pc EXCEPT ![o] = "failed"] /\ verdict' = verdict
        /\ \A t \in Ops \ {o} : draft'[t] = draft[t]
    BY <1>13 DEF Break, Write, IndexInv, TypeOK
  <2> QED BY <2>1, StepKeepsKnown DEF Steps
<1>3. ASSUME NEW o \in Ops, Rollback(o) PROVE CollisionsKnown'
  <2>1. verdict'[o] = None /\ \A t \in Ops \ {o} : draft'[t] = draft[t] /\ verdict'[t] = verdict[t]
    BY <1>3 DEF Rollback, IndexInv, TypeOK
  <2> QED BY <1>3, <2>1, StepKeepsKnown DEF Rollback, Steps
<1>4. ASSUME NEW o \in Ops, Begin(o) PROVE CollisionsKnown'
  BY <1>2, <1>4 DEF Begin, Steps
<1>5. ASSUME NEW o \in Ops, Lookup(o) PROVE CollisionsKnown'
  BY <1>1, <1>2, <1>5 DEF Lookup, Steps
<1>6. ASSUME NEW o \in Ops, InsertProduct(o) PROVE CollisionsKnown'
  <2>1. CASE catalog[o.product] # None
    BY <1>13, <1>6, <2>1 DEF InsertProduct
  <2>2. CASE catalog[o.product] = None
    BY <1>6, <2>2, WriteKeepsKnown DEF InsertProduct
  <2> QED BY <2>1, <2>2
<1>7. ASSUME NEW o \in Ops, UpdateProduct(o) PROVE CollisionsKnown'
  <2>1. CASE ~EditMatches(o)
    BY <1>2, <1>7, <2>1 DEF UpdateProduct, Steps
  <2>2. CASE EditMatches(o)
    <3>1. catalog[o.product] \in Row
      BY <2>2, OpFields DEF EditMatches, Active, IndexInv, TypeOK, Table
    <3>2. [catalog[o.product] EXCEPT !.version = @ + 1, !.code = o.code].code = o.code
      BY <3>1 DEF Row
    <3>3. Write(o, [catalog[o.product] EXCEPT !.version = @ + 1, !.code = o.code], "index")
      BY <1>7, <2>2 DEF UpdateProduct
    <3> QED BY <3>2, <3>3, WriteKeepsKnown
  <2> QED BY <2>1, <2>2
<1>8. ASSUME NEW o \in Ops, SoftDeleteProduct(o) PROVE CollisionsKnown'
  <2>1. CASE o.base = 0
    BY <1>1, <1>8, <2>1 DEF SoftDeleteProduct
  <2>2. CASE o.base # 0 /\ ~DeleteMatches(o)
    BY <1>2, <1>8, <2>2 DEF SoftDeleteProduct, Steps
  <2>3. CASE o.base # 0 /\ DeleteMatches(o)
    <3>1. /\ pc' = [pc EXCEPT ![o] = "sequence"] /\ verdict' = verdict
          /\ \A t \in Ops \ {o} : draft'[t] = draft[t]
      BY <1>8, <2>3 DEF SoftDeleteProduct, Write, IndexInv, TypeOK
    <3> QED BY <3>1, StepKeepsKnown DEF Steps
  <2> QED BY <2>1, <2>2, <2>3
<1>9. ASSUME NEW o \in Ops, Classify(o) PROVE CollisionsKnown'
  BY <1>1, <1>9 DEF Classify
<1>10. ASSUME NEW o \in Ops, RollbackToSavepoint(o) PROVE CollisionsKnown'
  <2>1. /\ pc'[o] = "attach" /\ verdict' = verdict /\ pc[o] = "violated"
        /\ \A t \in Ops \ {o} : pc'[t] = pc[t] /\ draft'[t] = draft[t]
    BY <1>10 DEF RollbackToSavepoint, Write, IndexInv, TypeOK
  <2>2. verdict[o] # None => verdict[o].owner \in Products \cup {None}
    BY DEF IndexInv, TypeOK, Outcome
  <2>3. Known(o)'
    BY <2>1, <2>2, CollisionsStay DEF CollisionsKnown, Known
  <2> QED BY <2>1, <2>3, OthersKnow
<1>11. ASSUME NEW o \in Ops, CommitApplied(o) \/ CommitRejected(o) PROVE CollisionsKnown'
  <2>1. /\ pc' = [pc EXCEPT ![o] = "idle"]
        /\ \A t \in Ops \ {o} : draft'[t] = draft[t] /\ verdict'[t] = verdict[t]
        /\ verdict'[o] = verdict[o] \/ verdict'[o] = None
    BY <1>11 DEF CommitApplied, CommitRejected, IndexInv, TypeOK
  <2> QED BY <2>1, StepKeepsKnown DEF Steps
<1>12. ASSUME UNCHANGED vars PROVE CollisionsKnown'
  <2>1. \A o \in Ops : verdict[o] # None => verdict[o].owner \in Products \cup {None}
    BY DEF IndexInv, TypeOK, Outcome
  <2> QED BY <1>12, <2>1, CollisionsStay DEF CollisionsKnown, Known, vars
<1> QED
  BY <1>3, <1>4, <1>5, <1>6, <1>7, <1>8, <1>9, <1>10, <1>11, <1>12, <1>13,
     ClaimKeepsKnown, AttachKeepsKnown DEF Next, Statement, DetectDeadlock, ReturnError, Abort

LEMMA NextConflicts ==
    ASSUME IndexInv, CollisionsKnown, ConflictsHadAnOwner, [Next]_vars
    PROVE  ConflictsHadAnOwner'
<1> DEFINE Explained(o) ==
        outcomes[o] # None /\ outcomes[o].reason = "barcode_conflict" =>
            Collided(o) /\ (outcomes[o].owner # None => Shown(o, outcomes[o].owner))
<1>1. ConflictsHadAnOwner <=> \A o \in Ops : Explained(o)
  BY DEF ConflictsHadAnOwner, Collided, Shown
<1>2. ConflictsHadAnOwner' <=> \A o \in Ops : Explained(o)'
  BY DEF ConflictsHadAnOwner, Collided, Shown
<1>3. ASSUME NEW o \in Ops, outcomes'[o] = outcomes[o] PROVE Explained(o)'
  <2>1. outcomes[o] # None => outcomes[o].owner \in Products \cup {None}
    BY DEF IndexInv, TypeOK, Outcome
  <2> QED BY <1>1, <1>3, <2>1, CollisionsStay
<1>4. ASSUME NEW o \in Ops, CommitApplied(o) PROVE \A t \in Ops : Explained(t)'
  <2>1. /\ outcomes'[o] = [reason |-> "applied", owner |-> None]
        /\ \A t \in Ops \ {o} : outcomes'[t] = outcomes[t]
    BY <1>4 DEF CommitApplied, IndexInv, TypeOK
  <2> QED BY <1>3, <2>1
<1>5. ASSUME NEW o \in Ops, CommitRejected(o) PROVE \A t \in Ops : Explained(t)'
  <2>1. outcomes'[o] = verdict[o] /\ \A t \in Ops \ {o} : outcomes'[t] = outcomes[t]
    BY <1>5 DEF CommitRejected, IndexInv, TypeOK
  <2>2. verdict[o] # None => verdict[o].owner \in Products \cup {None}
    BY DEF IndexInv, TypeOK, Outcome
  <2>3. Explained(o)'
    BY <2>1, <2>2, CollisionsStay DEF CollisionsKnown, Known
  <2> QED BY <1>3, <2>1, <2>3
<1>6. CASE UNCHANGED tables
  BY <1>2, <1>3, <1>6 DEF tables
<1> QED BY <1>2, <1>4, <1>5, <1>6, TableSteps

LEMMA InitFeed == Init => FeedInv
<1> SUFFICES ASSUME Init PROVE FeedInv
  OBVIOUS
<1>1. Len(feed) = 0 /\ \A n \in 0..0 : n = 0
  BY DEF Init
<1>2. After(0) = Opening
  BY OpeningIsUnique DEF After, Table
<1>3. CatalogIsFeedTail
  BY <1>1, <1>2 DEF Init, CatalogIsFeedTail
<1>4. OneOwner
  BY <1>1, <1>2, OpeningIsUnique DEF OneOwner
<1> QED BY <1>3, <1>4 DEF Init, FeedInv, CollisionsKnown, Known, ConflictsHadAnOwner

LEMMA NextFeed == IndexInv /\ FeedInv /\ [Next]_vars => FeedInv'
BY NextFeedTail, NextKnown, NextConflicts DEF FeedInv

(* However edits interleave, wait for each other and abort, two active     *)
(* products never have one barcode, in any prefix of the feed.             *)
THEOREM BarcodesUnique == Spec => []OneOwner
<1>1. FeedInv => OneOwner
  BY DEF FeedInv
<1> QED BY <1>1, InitIndex, NextIndex, InitFeed, NextFeed, PTL DEF Spec

(* The products table is the end of the feed: a mutation that was rolled   *)
(* back to its savepoint is not committed with its rejection.              *)
THEOREM NothingLeftBehind == Spec => []CatalogIsFeedTail
<1>1. FeedInv => CatalogIsFeedTail
  BY DEF FeedInv
<1> QED BY <1>1, InitIndex, NextIndex, InitFeed, NextFeed, PTL DEF Spec

(* A collision is stored only if another product held the barcode, and the *)
(* owner that is shown with it is one the account had.                     *)
THEOREM ConflictsReal == Spec => []ConflictsHadAnOwner
<1>1. FeedInv => ConflictsHadAnOwner
  BY DEF FeedInv
<1> QED BY <1>1, InitIndex, NextIndex, InitFeed, NextFeed, PTL DEF Spec
=============================================================================
