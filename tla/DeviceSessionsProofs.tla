------------------------- MODULE DeviceSessionsProofs -------------------------
(***************************************************************************)
(* Proofs about DeviceSessions, for any number of exchanges and refresh    *)
(* transactions, and any bounds on sessions and failures.                  *)
(***************************************************************************)
EXTENDS DeviceSessions, TLAPS

(* One refresh at a time: the gate names the exchange that leads it, which *)
(* was rejected with an expired access token.                              *)
OneRefresh ==
    /\ \A c \in Callers : flow[c].step # "none" =>
        gate = c /\ leader[c] = c /\ phase[c] = "waiting"
    /\ \A c \in Callers : flow[c].step = "read" => token[c] \in stale
    /\ page = "sign-in" => \A c \in Callers : phase[c] = "idle" /\ flow[c].step = "none"

(* A request presents a session whose access token has expired; its answer *)
(* is for an exchange that waits for it.                                   *)
RequestsExpected ==
    /\ \A h \in Handlers : txn[h].step # "idle" => txn[h].session \in stale
    /\ \A h \in Handlers : txn[h].client # None =>
        /\ txn[h].step # "idle" /\ flow[txn[h].client].step = "ask"
        /\ \A g \in Handlers : txn[g].client # None => g = h

(* As long as nothing was lost, no request takes a token for a used one, a *)
(* request that is waited for presents the stored session, and its answer, *)
(* once sent, is the active replacement of that.                           *)
NothingLost ==
    ~lost =>
        /\ lapsed = {}
        /\ \A h \in Handlers : /\ txn[h].step \in {"idle", "lock", "decide"}
                               /\ txn[h].client # None => txn[h].session = store
        /\ \A c \in Callers : flow[c].step = "save" =>
            row[flow[c].session] = "active" /\ parent[flow[c].session] = store

IInv ==
    /\ TypeOK /\ OneRefresh /\ RequestsExpected /\ NothingLost
    /\ RotatedOnce /\ RotatedWhenRejected /\ LockedOutOnlyByLoss
-----------------------------------------------------------------------------
(* The values that records of requests and refreshes have. *)
LEMMA Records ==
    /\ NoTxn \in Txn /\ NoTxn.step = "idle" /\ NoTxn.client = None
    /\ NoFlow \in Flow /\ NoFlow.step = "none"
    /\ \A s \in Sessions : [step |-> "save", session |-> s] \in Flow
                           /\ [step |-> "ask", session |-> s] \in Flow
    /\ [step |-> "read", session |-> None] \in Flow
    /\ \A f \in Flow : /\ f.step \in {"none", "read", "ask", "save"}
                       /\ f.step = "save" => f.session \in Sessions
BY DEF Txn, NoTxn, Flow, NoFlow

LEMMA InitIInv == Init => IInv
<1> SUFFICES ASSUME Init PROVE IInv
  OBVIOUS
<1>1. TypeOK
  <2>1. faults \in 0..MaxFaults
    BY BoundsAssumption DEF Init
  <2>2. txn \in [Handlers -> Txn] /\ flow \in [Callers -> Flow]
    BY Records DEF Init
  <2>3. lost \in BOOLEAN /\ page \in {"sign-in", "app"} /\ stale \subseteq Sessions
    BY DEF Init
  <2> QED BY <2>1, <2>2, <2>3 DEF Init, TypeOK
<1>2. OneRefresh /\ RequestsExpected /\ NothingLost
  BY Records DEF Init, OneRefresh, RequestsExpected, NothingLost
<1>3. RotatedOnce /\ RotatedWhenRejected /\ LockedOutOnlyByLoss
  BY DEF Init, RotatedOnce, RotatedWhenRejected, LockedOutOnlyByLoss
<1> QED BY <1>1, <1>2, <1>3 DEF IInv

LEMMA FaultCounts == ASSUME TypeOK, Fault PROVE faults' \in 0..MaxFaults
BY BoundsAssumption DEF TypeOK, Fault

(* After a refresh has ended there is none. *)
LEMMA CompleteEnds ==
    ASSUME TypeOK, OneRefresh, NEW c \in Callers, flow[c].step # "none",
           NEW s \in Sessions \cup {None}, Complete(c, s)
    PROVE  /\ page = "app"
           /\ \A d \in Callers : flow'[d].step = "none"
           /\ phase' \in [Callers -> {"idle", "sending", "waiting", "retrying"}]
           /\ token' \in [Callers -> Sessions \cup {None}]
           /\ leader' \in [Callers -> Callers \cup {None}]
           /\ gate' \in Callers \cup {None}
           /\ flow' \in [Callers -> Flow]
<1>1. page = "app"
  BY DEF OneRefresh, TypeOK
<1>2. \A d \in Callers : flow'[d].step = "none"
  BY Records DEF Complete, OneRefresh, TypeOK
<1>3. /\ flow' \in [Callers -> Flow] /\ gate' \in Callers \cup {None}
      /\ phase' \in [Callers -> {"idle", "sending", "waiting", "retrying"}]
  BY Records DEF Complete, TypeOK
<1>4. token' \in [Callers -> Sessions \cup {None}] /\ leader' \in [Callers -> Callers \cup {None}]
  BY DEF Complete, TypeOK
<1> QED BY <1>1, <1>2, <1>3, <1>4

(* The answer of a request ends the refresh, or hands it a session to save. *)
LEMMA AnswerKeeps ==
    ASSUME TypeOK, OneRefresh, RequestsExpected, NEW h \in Handlers, txn[h].step # "idle",
           NEW s \in Sessions \cup {None}, Deliver(h, s), Release(h), stale' = stale, page' = page
    PROVE  /\ holder' \in [Sessions -> Handlers \cup {None}] /\ txn' \in [Handlers -> Txn]
           /\ phase' \in [Callers -> {"idle", "sending", "waiting", "retrying"}]
           /\ token' \in [Callers -> Sessions \cup {None}]
           /\ leader' \in [Callers -> Callers \cup {None}]
           /\ gate' \in Callers \cup {None}
           /\ flow' \in [Callers -> Flow]
           /\ OneRefresh' /\ RequestsExpected'
           /\ \A g \in Handlers : txn'[g].step # "idle" => g # h /\ txn'[g] = txn[g]
           /\ \A c \in Callers : flow'[c].step = "save" =>
                \/ flow'[c] = flow[c]
                \/ s # None /\ txn[h].client = c /\ flow'[c].session = s
           /\ \A c \in Callers : flow[c].step = "save" /\ txn[h].client = None => flow'[c] = flow[c]
<1> DEFINE c == txn[h].client
<1>1. holder' \in [Sessions -> Handlers \cup {None}] /\ txn' \in [Handlers -> Txn]
  BY Records DEF Release, TypeOK
<1>2. txn'[h] = NoTxn /\ \A g \in Handlers \ {h} : txn'[g] = txn[g]
  BY DEF Release, TypeOK
<1>3. c \in Callers \cup {None}
  BY DEF TypeOK, Txn
<1>4. CASE c = None
  <2>1. UNCHANGED exchanges
    BY <1>4 DEF Deliver
  <2>2. OneRefresh'
    BY <2>1 DEF OneRefresh, exchanges
  <2>3. RequestsExpected'
    BY <1>2, <2>1, Records DEF RequestsExpected, exchanges
  <2> QED BY <1>1, <1>2, <2>1, <2>2, <2>3, Records DEF TypeOK, exchanges
<1>5. CASE c # None
  <2>1. c \in Callers /\ flow[c].step = "ask" /\ \A g \in Handlers \ {h} : txn[g].client = None
    BY <1>3, <1>5 DEF RequestsExpected
  <2>2. RequestsExpected'
    BY <1>2, <2>1, Records DEF RequestsExpected
  <2>3. CASE s = None
    <3>1. Complete(c, None)
      BY <1>5, <2>3 DEF Deliver
    <3>2. page = "app" /\ \A d \in Callers : flow'[d].step = "none"
      BY <2>1, <3>1, CompleteEnds
    <3>3. OneRefresh'
      BY <3>2 DEF OneRefresh
    <3> QED BY <1>1, <1>2, <1>5, <2>1, <2>2, <3>1, <3>2, <3>3, CompleteEnds, Records
  <2>4. CASE s # None
    <3>1. /\ flow' = [flow EXCEPT ![c] = [step |-> "save", session |-> s]]
          /\ UNCHANGED <<phase, token, leader, gate>>
      BY <1>5, <2>4 DEF Deliver
    <3>2. flow' \in [Callers -> Flow]
      BY <2>4, <3>1, Records DEF TypeOK
    <3>3. flow'[c] = [step |-> "save", session |-> s] /\ \A d \in Callers \ {c} : flow'[d] = flow[d]
      BY <2>1, <3>1 DEF TypeOK
    <3>4. OneRefresh'
      BY <2>1, <3>1, <3>3 DEF OneRefresh
    <3> QED BY <1>1, <1>2, <1>5, <2>1, <2>2, <2>4, <3>1, <3>2, <3>3, <3>4, Records DEF TypeOK
  <2> QED BY <2>3, <2>4
<1> QED BY <1>4, <1>5

(* Steps that answer a request on the server. *)
AnswerStep(h) ==
    Rotate(h) \/ RotateUnconfirmed(h) \/ RejectLapsed(h) \/ RevokeCommit(h) \/ Abort(h)

(* An active session that is not lapsed is replaced by one that is issued. *)
LEMMA ReplaceKeeps ==
    ASSUME TypeOK, RequestsExpected, RotatedOnce, RotatedWhenRejected,
           NEW h \in Handlers, Valid(h), NEW n \in Sessions, Replace(txn[h].session, n),
           stale' = stale
    PROVE  /\ txn[h].session \in stale /\ txn[h].session \in Sessions /\ n # txn[h].session
           /\ row'[n] = "active" /\ parent'[n] = txn[h].session
           /\ row' \in [Sessions -> {"unissued", "active", "revoked"}]
           /\ parent' \in [Sessions -> Sessions \cup {None}]
           /\ RotatedOnce' /\ RotatedWhenRejected'
<1> DEFINE s == txn[h].session
<1>1. s \in stale /\ s \in Sessions /\ n # s /\ row[n] = "unissued" /\ row[s] = "active"
  BY DEF Valid, Replace, RequestsExpected, TypeOK, Fresh
<1>2. /\ row'[s] = "revoked" /\ row'[n] = "active" /\ parent'[n] = s
      /\ \A m \in Sessions \ {n} : parent'[m] = parent[m]
      /\ \A m \in Sessions \ {n, s} : row'[m] = row[m]
  BY <1>1 DEF Replace, TypeOK
<1>3. RotatedOnce' /\ RotatedWhenRejected'
  BY <1>1, <1>2 DEF RotatedOnce, RotatedWhenRejected, TypeOK
<1> QED BY <1>1, <1>2, <1>3 DEF Replace, TypeOK

LEMMA AnswerStepKeeps ==
    ASSUME IInv, NEW h \in Handlers, AnswerStep(h)
    PROVE  IInv'
<1> USE DEF IInv
<1> DEFINE s == txn[h].session
<1>1. ASSUME Rotate(h) PROVE IInv'
  <2>1. PICK n \in Sessions : Replace(s, n) /\ Deliver(h, n)
    BY <1>1 DEF Rotate
  <2>2. /\ Valid(h) /\ txn[h].step = "decide" /\ Release(h) /\ Unheard(h)
        /\ UNCHANGED <<stale, lapsed, page, store, faults>>
    BY <1>1 DEF Rotate, Valid
  <2>3. /\ row'[n] = "active" /\ parent'[n] = s
        /\ row' \in [Sessions -> {"unissued", "active", "revoked"}]
        /\ parent' \in [Sessions -> Sessions \cup {None}]
        /\ RotatedOnce' /\ RotatedWhenRejected'
    BY <2>1, <2>2, ReplaceKeeps
  <2>4. TypeOK' /\ OneRefresh' /\ RequestsExpected'
    BY <2>1, <2>2, <2>3, AnswerKeeps DEF TypeOK, Unheard
  <2>5. CASE lost'
    BY <2>3, <2>4, <2>5 DEF NothingLost, LockedOutOnlyByLoss
  <2>6. CASE ~lost'
    <3>1. /\ ~lost /\ lapsed = {} /\ txn[h].client \in Callers /\ s = store
          /\ flow[txn[h].client].step = "ask"
      BY <2>2, <2>6 DEF Unheard, NothingLost, RequestsExpected, TypeOK, Txn
    <3>2. \A c \in Callers : flow[c].step # "save"
      BY <3>1 DEF OneRefresh
    <3>3. \A g \in Handlers : /\ txn'[g].step \in {"idle", "lock", "decide"}
                              /\ txn'[g].client = None
      <4>1. \A g \in Handlers \ {h} : txn[g].client = None
        BY <3>1, NobodyAssumption DEF RequestsExpected
      <4>2. txn'[h] = NoTxn /\ \A g \in Handlers \ {h} : txn'[g] = txn[g]
        BY <2>2 DEF Release, TypeOK
      <4> QED BY <3>1, <4>1, <4>2, Records DEF NothingLost
    <3>4. /\ \A c \in Callers : flow'[c].step = "save" => flow'[c].session = n
          /\ flow'[txn[h].client].step = "save"
      <4>1. n # None
        BY NobodyAssumption DEF Sessions
      <4> QED BY <2>1, <2>2, <3>1, <3>2, <4>1, AnswerKeeps, NobodyAssumption DEF Deliver, TypeOK
    <3>5. NothingLost'
      BY <2>2, <2>3, <3>1, <3>3, <3>4 DEF NothingLost
    <3>6. LockedOutOnlyByLoss'
      BY <2>2, <2>3, <3>1, <3>4 DEF LockedOutOnlyByLoss
    <3> QED BY <2>3, <2>4, <3>5, <3>6
  <2>7. lost' \in BOOLEAN
    BY <2>4 DEF TypeOK
  <2> QED BY <2>5, <2>6, <2>7
<1>2. ASSUME Deliver(h, None), Release(h), txn[h].step # "idle",
             UNCHANGED <<parent, stale, lapsed, page, store, lost>>, faults' \in 0..MaxFaults,
             row' \in [Sessions -> {"unissued", "active", "revoked"}],
             \A n \in Sessions : row[n] = "revoked" => row'[n] = "revoked",
             ~lost => row' = row
      PROVE  IInv'
  <2>1. TypeOK' /\ OneRefresh' /\ RequestsExpected'
    BY <1>2, AnswerKeeps DEF TypeOK
  <2>2. RotatedOnce' /\ RotatedWhenRejected'
    BY <1>2 DEF RotatedOnce, RotatedWhenRejected, TypeOK
  <2>3. \A c \in Callers : flow'[c].step = "save" => flow'[c] = flow[c]
    BY <1>2, AnswerKeeps
  <2>4. NothingLost'
    <3>1. txn'[h] = NoTxn /\ \A g \in Handlers \ {h} : txn'[g] = txn[g]
      BY <1>2 DEF Release, TypeOK
    <3> QED BY <1>2, <2>3, <3>1, Records DEF NothingLost
  <2>5. \A c \in Callers : flow[c].step = "save" => flow'[c] = flow[c]
    <3>1. CASE txn[h].client = None
      BY <1>2, <3>1, AnswerKeeps
    <3>2. CASE txn[h].client # None
      BY <3>2 DEF RequestsExpected, OneRefresh, TypeOK, Txn
    <3> QED BY <3>1, <3>2
  <2>6. LockedOutOnlyByLoss'
    BY <1>2, <2>5 DEF LockedOutOnlyByLoss
  <2> QED BY <2>1, <2>2, <2>4, <2>6
<1>3. ASSUME RejectLapsed(h) PROVE IInv'
  BY <1>2, <1>3 DEF RejectLapsed, NothingLost, TypeOK
<1>4. ASSUME RevokeCommit(h) PROVE IInv'
  BY <1>2, <1>4 DEF RevokeCommit, NothingLost, TypeOK
<1>5. ASSUME Abort(h) PROVE IInv'
  BY <1>2, <1>5, FaultCounts DEF Abort, TypeOK
<1>6. ASSUME RotateUnconfirmed(h) PROVE IInv'
  <2>1. PICK n \in Sessions : Replace(s, n)
    BY <1>6 DEF RotateUnconfirmed
  <2>2. /\ Valid(h) /\ txn[h].step = "decide" /\ Deliver(h, None) /\ Release(h)
        /\ lost' /\ faults' \in 0..MaxFaults
        /\ UNCHANGED <<stale, lapsed, page, store>>
    BY <1>6, FaultCounts DEF RotateUnconfirmed, Valid
  <2>3. /\ row' \in [Sessions -> {"unissued", "active", "revoked"}]
        /\ parent' \in [Sessions -> Sessions \cup {None}]
        /\ RotatedOnce' /\ RotatedWhenRejected'
    BY <2>1, <2>2, ReplaceKeeps
  <2>4. lost' = TRUE
    BY <1>6 DEF RotateUnconfirmed
  <2>5. TypeOK' /\ OneRefresh' /\ RequestsExpected'
    BY <2>2, <2>3, <2>4, AnswerKeeps DEF TypeOK
  <2> QED BY <2>2, <2>3, <2>5 DEF NothingLost, LockedOutOnlyByLoss
<1> QED BY <1>1, <1>3, <1>4, <1>5, <1>6 DEF AnswerStep

(* While nothing is lost the session presented by a request that is waited *)
(* for is active: it is never taken for one that was used.                 *)
LEMMA PresentedIsActive ==
    ASSUME IInv, ~lost, NEW h \in Handlers, txn[h].client # None
    PROVE  txn[h].session = store /\ row[store] = "active"
<1> USE DEF IInv
<1>1. txn[h].session = store /\ txn[h].client \in Callers /\ store \in Sessions
  BY DEF NothingLost, RequestsExpected, TypeOK, Txn
<1>2. flow[txn[h].client].step = "ask"
  BY <1>1, NobodyAssumption DEF RequestsExpected
<1>3. \A c \in Callers : flow[c].step # "save"
  BY <1>1, <1>2 DEF OneRefresh
<1> QED BY <1>1, <1>3, NobodyAssumption DEF LockedOutOnlyByLoss, Sessions

(* A step of a transaction that answers nobody and commits nothing. *)
LEMMA StatementKeeps ==
    ASSUME IInv, NEW h \in Handlers, UNCHANGED <<row, parent, stale, lapsed, app, faults>>,
           lost' \in BOOLEAN, lost => lost', holder' \in [Sessions -> Handlers \cup {None}],
           NEW t \in Txn, txn' = [txn EXCEPT ![h] = t], txn[h].step # "idle",
           t.client = txn[h].client, t.session = txn[h].session, t.step # "idle",
           ~lost' => t.step \in {"lock", "decide"}
    PROVE  IInv'
<1> USE DEF IInv, app, exchanges
<1>1. txn'[h] = t /\ \A g \in Handlers \ {h} : txn'[g] = txn[g]
  BY DEF TypeOK
<1>2. TypeOK'
  BY DEF TypeOK
<1>3. OneRefresh' /\ RotatedOnce' /\ RotatedWhenRejected' /\ LockedOutOnlyByLoss'
  BY DEF OneRefresh, RotatedOnce, RotatedWhenRejected, LockedOutOnlyByLoss
<1>4. RequestsExpected'
  BY <1>1 DEF RequestsExpected
<1>5. NothingLost'
  <2>1. CASE lost'
    BY <2>1 DEF NothingLost
  <2>2. CASE ~lost'
    <3>1. \A g \in Handlers : /\ txn'[g].step \in {"idle", "lock", "decide"}
                              /\ txn'[g].client # None => txn'[g].session = store
      BY <1>1, <2>2 DEF NothingLost
    <3> QED BY <2>2, <3>1 DEF NothingLost
  <2> QED BY <2>1, <2>2
<1> QED BY <1>2, <1>3, <1>4, <1>5

LEMMA ServerKeeps ==
    ASSUME IInv, NEW h \in Handlers,
           LockRow(h) \/ DetectReuse(h) \/ \E n \in Sessions : RevokeRow(h, n)
    PROVE  IInv'
<1> USE DEF IInv
<1>1. txn[h] \in Txn
  BY DEF TypeOK
<1>2. CASE LockRow(h)
  <2>1. holder' \in [Sessions -> Handlers \cup {None}]
    BY <1>2 DEF LockRow, TypeOK
  <2> DEFINE t == [txn[h] EXCEPT !.step = "decide"]
  <2>2. t \in Txn /\ t.client = txn[h].client /\ t.session = txn[h].session /\ t.step = "decide"
    BY <1>1 DEF Txn
  <2>3. txn' = [txn EXCEPT ![h] = t]
    BY <1>2 DEF LockRow
  <2> HIDE DEF t
  <2>4. /\ UNCHANGED <<row, parent, stale, lapsed, app, faults>> /\ txn[h].step # "idle"
        /\ lost' = lost /\ lost \in BOOLEAN
    BY <1>2 DEF LockRow, TypeOK
  <2> QED BY <2>1, <2>2, <2>3, <2>4, StatementKeeps
<1>3. CASE DetectReuse(h)
  <2>1. lost' /\ lost' \in BOOLEAN
    BY <1>3, PresentedIsActive DEF DetectReuse, Unheard, TypeOK
  <2> DEFINE t == [txn[h] EXCEPT !.step = "revoke", !.targets = {n \in Sessions : row[n] = "active"}]
  <2>2. t \in Txn /\ t.client = txn[h].client /\ t.session = txn[h].session /\ t.step = "revoke"
    BY <1>1 DEF Txn
  <2>3. txn' = [txn EXCEPT ![h] = t]
    BY <1>3 DEF DetectReuse
  <2>4. holder' \in [Sessions -> Handlers \cup {None}]
    BY <1>3 DEF DetectReuse, TypeOK
  <2> HIDE DEF t
  <2> QED BY <1>3, <2>1, <2>2, <2>3, <2>4, StatementKeeps DEF DetectReuse
<1>4. ASSUME NEW n \in Sessions, RevokeRow(h, n) PROVE IInv'
  <2>1. lost /\ lost' = lost /\ lost \in BOOLEAN
    BY <1>4 DEF RevokeRow, NothingLost, TypeOK
  <2>2. holder' \in [Sessions -> Handlers \cup {None}]
    BY <1>4 DEF RevokeRow, TypeOK
  <2>3. PICK t \in Txn :
            /\ txn' = [txn EXCEPT ![h] = t]
            /\ t.client = txn[h].client /\ t.session = txn[h].session /\ t.step = "revoke"
    <3> DEFINE u == [txn[h] EXCEPT !.targets = @ \ {n}, !.revoked = @ \cup {n}]
    <3> DEFINE v == [txn[h] EXCEPT !.targets = @ \ {n}]
    <3>1. u \in Txn /\ u.client = txn[h].client /\ u.session = txn[h].session /\ u.step = txn[h].step
      BY <1>1 DEF Txn
    <3>2. v \in Txn /\ v.client = txn[h].client /\ v.session = txn[h].session /\ v.step = txn[h].step
      BY <1>1 DEF Txn
    <3>3. txn' = [txn EXCEPT ![h] = u] \/ txn' = [txn EXCEPT ![h] = v]
      BY <1>4 DEF RevokeRow
    <3> HIDE DEF u, v
    <3> QED BY <1>4, <3>1, <3>2, <3>3 DEF RevokeRow
  <2>4. UNCHANGED <<row, parent, stale, lapsed, app, faults>> /\ txn[h].step # "idle"
    BY <1>4 DEF RevokeRow
  <2> QED BY <2>1, <2>2, <2>3, <2>4, StatementKeeps
<1> QED BY <1>2, <1>3, <1>4

LEMMA TimeKeeps ==
    ASSUME IInv, NEW n \in Sessions, AccessExpires(n) \/ RefreshExpires(n)
    PROVE  IInv'
<1> USE DEF IInv
<1>1. ASSUME UNCHANGED <<row, parent, holder, txn, app>>, faults' \in 0..MaxFaults,
             stale' \in SUBSET Sessions, lapsed' \in SUBSET Sessions, lost' \in BOOLEAN,
             stale \subseteq stale', ~lost' => ~lost /\ lapsed' = lapsed
      PROVE  IInv'
  <2>1. TypeOK'
    BY <1>1 DEF TypeOK, app, exchanges
  <2>2. OneRefresh' /\ RequestsExpected'
    BY <1>1 DEF OneRefresh, RequestsExpected, app, exchanges
  <2>3. NothingLost' /\ LockedOutOnlyByLoss'
    BY <1>1 DEF NothingLost, LockedOutOnlyByLoss, app, exchanges
  <2>4. RotatedOnce' /\ RotatedWhenRejected'
    BY <1>1 DEF RotatedOnce, RotatedWhenRejected
  <2> QED BY <2>1, <2>2, <2>3, <2>4
<1>2. CASE AccessExpires(n)
  BY <1>1, <1>2 DEF AccessExpires, TypeOK
<1>3. CASE RefreshExpires(n)
  BY <1>1, <1>3, FaultCounts DEF RefreshExpires, TypeOK
<1> QED BY <1>2, <1>3

(* A login replaces a stored session only when no refresh is under way. *)
LEMMA SignInKeeps == ASSUME IInv, SignIn PROVE IInv'
<1> USE DEF IInv
<1>1. PICK n \in Sessions :
          /\ Fresh(n) /\ row' = [row EXCEPT ![n] = "active"]
          /\ \/ page' = "app" /\ store' = n /\ UNCHANGED faults
             \/ Fault /\ UNCHANGED <<page, store>>
  BY DEF SignIn
<1>2. /\ page = "sign-in" /\ UNCHANGED <<parent, stale, lapsed, holder, txn, lost>>
      /\ UNCHANGED <<phase, token, leader, gate, flow>>
  BY DEF SignIn, exchanges
<1>3. /\ row[n] = "unissued" /\ row'[n] = "active"
      /\ \A m \in Sessions \ {n} : row'[m] = row[m]
  BY <1>1 DEF Fresh, TypeOK
<1>4. \A c \in Callers : phase[c] = "idle" /\ flow[c].step = "none"
  BY <1>2 DEF OneRefresh
<1>5. faults' \in 0..MaxFaults /\ page' \in {"sign-in", "app"} /\ store' \in Sessions \cup {None}
  BY <1>1, FaultCounts DEF TypeOK
<1>6. TypeOK'
  BY <1>1, <1>2, <1>5 DEF TypeOK
<1>7. OneRefresh' /\ RequestsExpected'
  BY <1>2, <1>4 DEF OneRefresh, RequestsExpected
<1>8. \A h \in Handlers : txn[h].client = None
  BY <1>4 DEF RequestsExpected, TypeOK, Txn
<1>9. NothingLost'
  BY <1>2, <1>4, <1>8 DEF NothingLost
<1>10. RotatedOnce' /\ RotatedWhenRejected'
  BY <1>2, <1>3 DEF RotatedOnce, RotatedWhenRejected, TypeOK
<1>11. LockedOutOnlyByLoss'
  BY <1>1, <1>2, <1>3, <1>4, NobodyAssumption DEF LockedOutOnlyByLoss, TypeOK
<1> QED BY <1>6, <1>7, <1>9, <1>10, <1>11

LEMMA RestartKeeps == ASSUME IInv, Restart PROVE IInv'
<1> USE DEF IInv
<1>1. /\ \A h \in Handlers : txn'[h] \in Txn /\ txn'[h].client = None
            /\ txn'[h].step = txn[h].step /\ txn'[h].session = txn[h].session
      /\ txn' \in [Handlers -> Txn]
  <2>1. \A h \in Handlers : LET t == [txn[h] EXCEPT !.client = None] IN
            t \in Txn /\ t.client = None /\ t.step = txn[h].step /\ t.session = txn[h].session
    BY DEF TypeOK, Txn
  <2> QED BY <2>1 DEF Restart
<1>2. \A c \in Callers : phase'[c] = "idle" /\ flow'[c].step = "none"
  BY Records DEF Restart
<1>3. UNCHANGED <<row, parent, stale, lapsed, holder, store>>
  BY DEF Restart
<1>4. page' \in {"sign-in", "app"} /\ lost' \in BOOLEAN /\ (~lost' => ~lost)
  BY DEF Restart, TypeOK
<1>5. TypeOK'
  BY <1>1, <1>3, <1>4, FaultCounts, Records DEF Restart, TypeOK
<1>6. OneRefresh' /\ RequestsExpected'
  BY <1>1, <1>2, <1>3 DEF OneRefresh, RequestsExpected
<1>7. ~lost' => \A c \in Callers : flow[c].step # "save"
  BY DEF Restart
<1>8. NothingLost'
  BY <1>1, <1>2, <1>3, <1>4, <1>7 DEF NothingLost
<1>9. RotatedOnce' /\ RotatedWhenRejected' /\ LockedOutOnlyByLoss'
  BY <1>3, <1>4, <1>7 DEF RotatedOnce, RotatedWhenRejected, LockedOutOnlyByLoss
<1> QED BY <1>5, <1>6, <1>8, <1>9

(* A step of an exchange that leads no refresh. *)
LEMMA ExchangeKeeps ==
    ASSUME IInv, NEW c \in Callers, Start(c) \/ Answered(c) \/ Rejected(c) \/ RejectedAgain(c)
    PROVE  IInv'
<1> USE DEF IInv
<1>1. UNCHANGED <<server, page, store, faults, lost>>
  BY DEF Start, Answered, Rejected, RejectedAgain, Ended
<1>2. UNCHANGED <<row, parent, stale, lapsed, holder, txn>>
  BY <1>1 DEF server
<1>3. page = "app" \/ phase[c] # "idle"
  BY DEF Start, Answered, Rejected, RejectedAgain
<1>4. page = "app"
  BY <1>3 DEF OneRefresh, TypeOK
<1>5. CASE Rejected(c)
  <2>1. phase' \in [Callers -> {"idle", "sending", "waiting", "retrying"}] /\ token' = token
    BY <1>5 DEF Rejected, TypeOK
  <2>2. CASE gate # None
    <3>1. leader' = [leader EXCEPT ![c] = gate] /\ UNCHANGED <<gate, flow>>
      BY <1>5, <2>2 DEF Rejected
    <3>2. TypeOK'
      BY <1>1, <1>2, <2>1, <2>2, <3>1 DEF TypeOK
    <3>3. OneRefresh'
      BY <1>1, <1>2, <1>4, <1>5, <2>1, <3>1 DEF Rejected, OneRefresh, TypeOK
    <3> QED
      BY <1>1, <1>2, <3>1, <3>2, <3>3
      DEF RequestsExpected, NothingLost, RotatedOnce, RotatedWhenRejected, LockedOutOnlyByLoss
  <2>3. CASE gate = None
    <3>1. /\ leader' = [leader EXCEPT ![c] = c] /\ gate' = c
          /\ flow' = [flow EXCEPT ![c] = [step |-> "read", session |-> None]]
          /\ token[c] \in stale
      BY <1>5, <2>3 DEF Rejected
    <3>2. \A d \in Callers : flow[d].step = "none"
      BY <2>3, NobodyAssumption DEF OneRefresh
    <3>3. /\ flow'[c].step = "read" /\ leader'[c] = c
          /\ \A d \in Callers \ {c} : flow'[d].step = "none"
      BY <3>1, <3>2 DEF TypeOK
    <3>4. TypeOK'
      BY <1>1, <1>2, <2>1, <3>1, Records DEF TypeOK
    <3>5. OneRefresh'
      BY <1>1, <1>2, <1>4, <1>5, <2>1, <3>1, <3>3 DEF Rejected, OneRefresh, TypeOK
    <3>6. RequestsExpected'
      BY <1>2, <3>2 DEF RequestsExpected, TypeOK, Txn
    <3>7. NothingLost' /\ LockedOutOnlyByLoss'
      BY <1>1, <1>2, <3>2, <3>3 DEF NothingLost, LockedOutOnlyByLoss
    <3> QED BY <1>2, <3>4, <3>5, <3>6, <3>7 DEF RotatedOnce, RotatedWhenRejected
  <2> QED BY <2>2, <2>3
<1>6. CASE Start(c) \/ Answered(c) \/ RejectedAgain(c)
  <2>1. UNCHANGED <<leader, gate, flow>>
    BY <1>6 DEF Start, Answered, RejectedAgain, Ended
  <2>2. TypeOK'
    BY <1>1, <1>2, <1>6, <2>1 DEF Start, Answered, RejectedAgain, Ended, TypeOK
  <2>3. /\ phase[c] # "waiting"
        /\ \A d \in Callers \ {c} : phase'[d] = phase[d] /\ token'[d] = token[d]
    BY <1>6 DEF Start, Answered, RejectedAgain, Ended, TypeOK
  <2>4. OneRefresh'
    BY <1>1, <1>2, <1>4, <2>1, <2>3 DEF OneRefresh
  <2> QED
    BY <1>1, <1>2, <2>1, <2>2, <2>4
    DEF RequestsExpected, NothingLost, RotatedOnce, RotatedWhenRejected, LockedOutOnlyByLoss
<1> QED BY <1>5, <1>6

(* The end of a refresh on the app's side: nobody waits for an answer. *)
LEMMA EndKeeps ==
    ASSUME IInv, NEW c \in Callers, flow[c].step # "none", NEW s \in Sessions \cup {None},
           Complete(c, s), UNCHANGED <<row, parent, stale, lapsed, holder, page>>,
           txn' \in [Handlers -> Txn],
           \A h \in Handlers : /\ txn'[h].client = None
                               /\ txn'[h].step = txn[h].step /\ txn'[h].session = txn[h].session,
           store' \in Sessions \cup {None}, faults' \in 0..MaxFaults, lost' \in BOOLEAN,
           ~lost' => ~lost /\ (store' # None => row[store'] = "active")
    PROVE  IInv'
<1> USE DEF IInv
<1>1. page = "app" /\ \A d \in Callers : flow'[d].step = "none"
  BY CompleteEnds
<1>2. TypeOK'
  BY CompleteEnds DEF TypeOK
<1>3. OneRefresh' /\ RequestsExpected'
  BY <1>1 DEF OneRefresh, RequestsExpected
<1>4. NothingLost' /\ LockedOutOnlyByLoss'
  BY <1>1 DEF NothingLost, LockedOutOnlyByLoss
<1>5. RotatedOnce' /\ RotatedWhenRejected'
  BY DEF RotatedOnce, RotatedWhenRejected
<1> QED BY <1>2, <1>3, <1>4, <1>5

(* A refresh that reads or saves has no request in the server. *)
LEMMA NoRequest ==
    ASSUME IInv, NEW c \in Callers, flow[c].step \in {"read", "save"}
    PROVE  \A h \in Handlers : txn[h].client = None
<1>1. ASSUME NEW h \in Handlers, txn[h].client # None PROVE FALSE
  <2>1. txn[h].client \in Callers /\ flow[txn[h].client].step = "ask"
    BY <1>1 DEF IInv, TypeOK, Txn, RequestsExpected
  <2> QED BY <2>1 DEF IInv, OneRefresh
<1> QED BY <1>1

LEMMA RefreshKeeps ==
    ASSUME IInv, NEW c \in Callers, ReadStore(c) \/ Save(c) \/ StorageFails(c)
    PROVE  IInv'
<1> USE DEF IInv
<1>1. flow[c].step \in {"read", "save"}
  BY DEF ReadStore, Save, StorageFails
<1>2. \A h \in Handlers : txn[h].client = None
  BY <1>1, NoRequest
<1>3. ASSUME flow[c].step = "read", ~lost, store # None PROVE row[store] = "active"
  BY <1>3 DEF OneRefresh, LockedOutOnlyByLoss
<1>4. CASE Save(c)
  <2>1. flow[c].step = "save" /\ flow[c].session \in Sessions /\ store' = flow[c].session
    BY <1>4, Records DEF Save, TypeOK
  <2> QED BY <1>2, <1>4, <2>1, EndKeeps DEF Save, server, TypeOK, NothingLost
<1>5. CASE StorageFails(c)
  BY <1>1, <1>2, <1>3, <1>5, FaultCounts, EndKeeps DEF StorageFails, server, TypeOK
<1>6. CASE ReadStore(c) /\ store # token[c]
  BY <1>1, <1>2, <1>3, <1>6, EndKeeps DEF ReadStore, server, TypeOK
<1>7. CASE ReadStore(c) /\ store = token[c]
  <2>1. /\ flow[c].step = "read" /\ store \in stale /\ store \in Sessions
        /\ UNCHANGED <<page, store, faults, lost, row, parent, stale, lapsed, holder>>
        /\ UNCHANGED <<phase, token, leader, gate>>
        /\ flow' = [flow EXCEPT ![c] = [step |-> "ask", session |-> store]]
    BY <1>7 DEF ReadStore, OneRefresh, TypeOK
  <2>2. PICK h \in Handlers :
            txn' = [txn EXCEPT ![h] = [NoTxn EXCEPT !.step = "lock", !.session = store, !.client = c]]
    BY <1>7 DEF ReadStore
  <2> DEFINE t == [NoTxn EXCEPT !.step = "lock", !.session = store, !.client = c]
  <2>3. t \in Txn /\ t.step = "lock" /\ t.session = store /\ t.client = c
    BY <2>1 DEF Txn, NoTxn
  <2> HIDE DEF t
  <2>4. /\ txn'[h] = t /\ \A g \in Handlers \ {h} : txn'[g] = txn[g]
        /\ txn' \in [Handlers -> Txn]
    BY <2>2, <2>3 DEF TypeOK, t
  <2>5. /\ flow'[c].step = "ask" /\ \A d \in Callers \ {c} : flow'[d] = flow[d]
        /\ flow' \in [Callers -> Flow]
    BY <2>1, Records DEF TypeOK
  <2>6. TypeOK'
    BY <2>1, <2>4, <2>5 DEF TypeOK
  <2>7. OneRefresh'
    BY <2>1, <2>5 DEF OneRefresh
  <2>8. RequestsExpected'
    BY <1>2, <2>1, <2>3, <2>4, <2>5 DEF RequestsExpected
  <2>9. \A d \in Callers : flow'[d].step # "save"
    BY <2>1, <2>5 DEF OneRefresh
  <2>10. c # None
    BY NobodyAssumption
  <2>11. NothingLost'
    BY <1>2, <2>1, <2>3, <2>4, <2>9, <2>10 DEF NothingLost
  <2>12. LockedOutOnlyByLoss' /\ RotatedOnce' /\ RotatedWhenRejected'
    BY <1>3, <2>1 DEF LockedOutOnlyByLoss, RotatedOnce, RotatedWhenRejected
  <2> QED BY <2>6, <2>7, <2>8, <2>11, <2>12
<1> QED BY <1>4, <1>5, <1>6, <1>7

LEMMA LoseKeeps == ASSUME IInv, NEW h \in Handlers, LoseAnswer(h) PROVE IInv'
<1> USE DEF IInv
<1>1. txn[h].client \in Callers /\ flow[txn[h].client].step = "ask"
  BY DEF LoseAnswer, RequestsExpected, TypeOK, Txn
<1>2. \A g \in Handlers \ {h} : txn[g].client = None
  BY DEF LoseAnswer, RequestsExpected
<1> DEFINE t == [txn[h] EXCEPT !.client = None]
<1>3. t \in Txn /\ t.client = None /\ t.step = txn[h].step /\ t.session = txn[h].session
  BY DEF TypeOK, Txn
<1>4. txn' = [txn EXCEPT ![h] = t]
  BY DEF LoseAnswer
<1> HIDE DEF t
<1>5. ~lost /\ store # None => row[store] = "active"
  BY <1>1 DEF OneRefresh, LockedOutOnlyByLoss
<1>6. /\ txn' \in [Handlers -> Txn]
      /\ \A g \in Handlers : /\ txn'[g].client = None
                             /\ txn'[g].step = txn[g].step /\ txn'[g].session = txn[g].session
  BY <1>2, <1>3, <1>4 DEF TypeOK
<1> QED BY <1>1, <1>5, <1>6, FaultCounts, EndKeeps DEF LoseAnswer, TypeOK

LEMMA NextIInv == IInv /\ [Next]_vars => IInv'
<1> SUFFICES ASSUME IInv, [Next]_vars PROVE IInv'
  OBVIOUS
<1>1. ASSUME UNCHANGED vars PROVE IInv'
  <2> USE <1>1 DEF vars, server, app, exchanges, IInv
  <2>1. TypeOK'
    BY DEF TypeOK
  <2>2. OneRefresh' /\ RequestsExpected'
    BY DEF OneRefresh, RequestsExpected
  <2>3. NothingLost'
    BY DEF NothingLost
  <2>4. RotatedOnce' /\ RotatedWhenRejected' /\ LockedOutOnlyByLoss'
    BY DEF RotatedOnce, RotatedWhenRejected, LockedOutOnlyByLoss
  <2> QED BY <2>1, <2>2, <2>3, <2>4
<1> QED
  BY <1>1, AnswerStepKeeps, ServerKeeps, TimeKeeps, SignInKeeps, RestartKeeps, ExchangeKeeps,
     RefreshKeeps, LoseKeeps DEF Next, Handle, Exchange, AnswerStep

(* Every reachable state of the server's rows and of the app is well typed. *)
THEOREM TypeCorrect == Spec => []TypeOK
<1>1. IInv => TypeOK
  BY DEF IInv
<1> QED BY <1>1, InitIInv, NextIInv, PTL DEF Spec

(* A refresh token is used once, however often it is presented. *)
THEOREM OneTime == Spec => []RotatedOnce
<1>1. IInv => RotatedOnce
  BY DEF IInv
<1> QED BY <1>1, InitIInv, NextIInv, PTL DEF Spec

(* Exchanges that learn late of a 401 do not rotate a fresh session. *)
THEOREM NoEarlyRotation == Spec => []RotatedWhenRejected
<1>1. IInv => RotatedWhenRejected
  BY DEF IInv
<1> QED BY <1>1, InitIInv, NextIInv, PTL DEF Spec

(* The app's concurrency alone never locks the device out of its account. *)
THEOREM NoSelfLockout == Spec => []LockedOutOnlyByLoss
<1>1. IInv => LockedOutOnlyByLoss
  BY DEF IInv
<1> QED BY <1>1, InitIInv, NextIInv, PTL DEF Spec
=============================================================================
