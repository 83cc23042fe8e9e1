---------------------------- MODULE DeviceSessions ----------------------------
(***************************************************************************)
(* The session of one device: the rotation of one-time refresh tokens by   *)
(* the server (server/internal/auth), and the app that keeps the current   *)
(* session in secure storage, sends exchanges with its access token and    *)
(* refreshes it after a 401, once for all exchanges that wait              *)
(* (sync_engine session.dart, transport.dart).                             *)
(*                                                                         *)
(* Session n stands for the access token, the refresh token and the        *)
(* refresh_tokens row that were issued together.  The access token is      *)
(* judged by its expiry alone, the refresh token by its row.  Accounts,    *)
(* passwords and the logout endpoint, which the app does not call, are     *)
(* left out.                                                               *)
(***************************************************************************)
EXTENDS Integers, FiniteSets

CONSTANTS
    Callers,        \* exchanges that run at once in the app
    Handlers,       \* refresh transactions that run at once on the server
    MaxSessions,    \* bound: sessions that are issued
    MaxFaults,      \* bound: failures of network, storage, database and app
    None

ASSUME BoundsAssumption == MaxFaults \in Nat /\ MaxSessions \in Nat /\ MaxFaults < MaxSessions
ASSUME NobodyAssumption == None \notin Callers \cup Handlers \cup Nat

Sessions == 1..MaxSessions

VARIABLES
    \* the server
    row,        \* refresh_tokens: unissued, active or revoked
    parent,     \* the session each one replaced, None when a login issued it
    stale,      \* sessions whose access token has expired
    lapsed,     \* sessions whose refresh token has expired
    holder,     \* the transaction that has each row locked
    txn,        \* the refresh transactions, see Txn
    \* the app
    page,       \* what the session gate shows: "sign-in" or "app"
    store,      \* the session in secure storage
    phase,      \* where each exchange stands
    token,      \* the session whose access token it sends
    leader,     \* the exchange whose refresh it waits for
    gate,       \* _refreshFuture: the exchange that refreshes, or None
    flow,       \* the refresh an exchange leads, see Flow
    \* bookkeeping
    faults,     \* failures so far
    lost        \* history: a request that the app no longer waited for took
                \* effect, a replacement was not stored, or the refresh token
                \* expired unused

server == <<row, parent, stale, lapsed, holder, txn>>
exchanges == <<phase, token, leader, gate, flow>>
app == <<page, store, exchanges>>
vars == <<server, app, faults, lost>>

(* A refresh request in the server: the session whose token it presents,   *)
(* the exchange that waits for its answer, the rows it has still to revoke *)
(* and those it revoked.                                                   *)
Txn ==
    [step : {"idle", "lock", "decide", "revoke"}, session : Sessions \cup {None},
     client : Callers \cup {None}, targets : SUBSET Sessions, revoked : SUBSET Sessions]
NoTxn == [step |-> "idle", session |-> None, client |-> None, targets |-> {}, revoked |-> {}]

(* _refreshAndComplete: about to read the store, waiting for the server, or *)
(* about to save the replacement.                                          *)
Flow ==
    [step : {"none", "read"}, session : {None}] \cup [step : {"ask", "save"}, session : Sessions]
NoFlow == [step |-> "none", session |-> None]

TypeOK ==
    /\ row \in [Sessions -> {"unissued", "active", "revoked"}]
    /\ parent \in [Sessions -> Sessions \cup {None}]
    /\ stale \subseteq Sessions
    /\ lapsed \subseteq Sessions
    /\ holder \in [Sessions -> Handlers \cup {None}]
    /\ txn \in [Handlers -> Txn]
    /\ page \in {"sign-in", "app"}
    /\ store \in Sessions \cup {None}
    /\ phase \in [Callers -> {"idle", "sending", "waiting", "retrying"}]
    /\ token \in [Callers -> Sessions \cup {None}]
    /\ leader \in [Callers -> Callers \cup {None}]
    /\ gate \in Callers \cup {None}
    /\ flow \in [Callers -> Flow]
    /\ faults \in 0..MaxFaults
    /\ lost \in BOOLEAN

Init ==
    /\ row = [n \in Sessions |-> "unissued"]
    /\ parent = [n \in Sessions |-> None]
    /\ stale = {}
    /\ lapsed = {}
    /\ holder = [n \in Sessions |-> None]
    /\ txn = [h \in Handlers |-> NoTxn]
    /\ page = "sign-in"
    /\ store = None
    /\ phase = [c \in Callers |-> "idle"]
    /\ token = [c \in Callers |-> None]
    /\ leader = [c \in Callers |-> None]
    /\ gate = None
    /\ flow = [c \in Callers |-> NoFlow]
    /\ faults = 0
    /\ lost = FALSE

Fault == faults < MaxFaults /\ faults' = faults + 1

(* Sessions are numbered in the order they are issued. *)
Fresh(n) == row[n] = "unissued" /\ \A m \in 1..n - 1 : row[m] # "unissued"

(* Each login and each rotation of an expired session takes a number.  A    *)
(* failure can make one more login necessary: those numbers are kept back  *)
(* and what is left bounds the expiries, never a login or a rotation.      *)
Logins == {n \in Sessions : row[n] # "unissued" /\ parent[n] = None}
KeptBack == MaxFaults - faults + (IF page = "sign-in" THEN 1 ELSE 0)
SessionsLeft == Cardinality(stale) + Cardinality(Logins) + KeptBack < MaxSessions
-----------------------------------------------------------------------------
(* How a refresh ends for those who wait for it: with session s, or with   *)
(* an error when s is None.                                                *)
Complete(c, s) ==
    LET waiting == {d \in Callers : leader[d] = c} IN
    /\ phase' = [d \in Callers |->
            IF d \notin waiting THEN phase[d] ELSE IF s = None THEN "idle" ELSE "retrying"]
    /\ token' = [d \in Callers |-> IF d \in waiting THEN s ELSE token[d]]
    /\ leader' = [d \in Callers |-> IF d \in waiting THEN None ELSE leader[d]]
    /\ flow' = [flow EXCEPT ![c] = NoFlow]
    /\ gate' = IF gate = c THEN None ELSE gate

(* Fault: the waiting exchanges are not told. *)
DeliverSuccessOnly(h, s) ==
    LET c == txn[h].client IN
    IF c = None \/ s = None THEN UNCHANGED exchanges
    ELSE /\ flow' = [flow EXCEPT ![c] = [step |-> "save", session |-> s]]
         /\ UNCHANGED <<phase, token, leader, gate>>

(* Fault: an error is taken for a session. *)
DeliverUnchecked(h, s) ==
    LET c == txn[h].client IN
    IF c = None THEN UNCHANGED exchanges
    ELSE /\ flow' = [flow EXCEPT ![c] = [step |-> "save", session |-> s]]
         /\ UNCHANGED <<phase, token, leader, gate>>

(* The answer of transaction h reaches the app, if it still waits for it.  *)
Deliver(h, s) ==
    LET c == txn[h].client IN
    IF c = None THEN UNCHANGED exchanges
    ELSE IF s = None THEN Complete(c, None)
    ELSE /\ flow' = [flow EXCEPT ![c] = [step |-> "save", session |-> s]]
         /\ UNCHANGED <<phase, token, leader, gate>>
-----------------------------------------------------------------------------
(* The server: Service.Refresh. *)

(* Commit and rollback release the rows. *)
Release(h) ==
    /\ holder' = [n \in Sessions |-> IF holder[n] = h THEN None ELSE holder[n]]
    /\ txn' = [txn EXCEPT ![h] = NoTxn]

(* GetRefreshTokenForUpdate *)
LockRow(h) ==
    /\ txn[h].step = "lock"
    /\ holder[txn[h].session] = None
    /\ holder' = [holder EXCEPT ![txn[h].session] = h]
    /\ txn' = [txn EXCEPT ![h].step = "decide"]
    /\ UNCHANGED <<row, parent, stale, lapsed, app, faults, lost>>

(* A replacement for session s is inserted. *)
Replace(s, n) ==
    /\ Fresh(n)
    /\ row' = [row EXCEPT ![s] = "revoked", ![n] = "active"]
    /\ parent' = [parent EXCEPT ![n] = s]

(* The token that h presents can be rotated. *)
Valid(h) ==
    /\ txn[h].step = "decide"
    /\ row[txn[h].session] = "active"
    /\ txn[h].session \notin lapsed

(* What h commits is lost on the app when it does not wait for it any more. *)
Unheard(h) == lost' = (lost \/ txn[h].client = None)

(* Fault: the rotated session is not marked. *)
RotateUnmarked(h) ==
    /\ Valid(h)
    /\ \E n \in Sessions :
        /\ Fresh(n)
        /\ row' = [row EXCEPT ![n] = "active"]
        /\ parent' = [parent EXCEPT ![n] = txn[h].session]
        /\ Deliver(h, n)
    /\ Release(h)
    /\ Unheard(h)
    /\ UNCHANGED <<stale, lapsed, page, store, faults>>

(* The session is rotated: its row is revoked and a replacement inserted.  *)
Rotate(h) ==
    /\ Valid(h)
    /\ \E n \in Sessions : Replace(txn[h].session, n) /\ Deliver(h, n)
    /\ Release(h)
    /\ Unheard(h)
    /\ UNCHANGED <<stale, lapsed, page, store, faults>>

(* The commit takes effect and reports an error: WithTxResult returns that  *)
(* and no session.  The transactions that follow answer with an error      *)
(* whether they commit or not.                                             *)
RotateUnconfirmed(h) ==
    /\ Valid(h)
    /\ Fault
    /\ \E n \in Sessions : Replace(txn[h].session, n)
    /\ Deliver(h, None)
    /\ Release(h)
    /\ lost' = TRUE
    /\ UNCHANGED <<stale, lapsed, page, store>>

(* An expired refresh token is revoked and rejected. *)
RejectLapsed(h) ==
    LET s == txn[h].session IN
    /\ txn[h].step = "decide"
    /\ row[s] = "active"
    /\ s \in lapsed
    /\ row' = [row EXCEPT ![s] = "revoked"]
    /\ Deliver(h, None)
    /\ Release(h)
    /\ UNCHANGED <<parent, stale, lapsed, page, store, faults, lost>>

(* A token presented again: RevokeDeviceRefreshTokens starts, and its UPDATE *)
(* sees the sessions that are active now.                                  *)
DetectReuse(h) ==
    /\ txn[h].step = "decide"
    /\ row[txn[h].session] = "revoked"
    /\ txn' = [txn EXCEPT ![h].step = "revoke",
                          ![h].targets = {n \in Sessions : row[n] = "active"}]
    /\ Unheard(h)
    /\ UNCHANGED <<row, parent, stale, lapsed, holder, app, faults>>

(* It takes them one by one, waits for a locked one and then looks again.  *)
RevokeRow(h, n) ==
    /\ txn[h].step = "revoke"
    /\ n \in txn[h].targets
    /\ holder[n] = None
    /\ IF row[n] = "active"
       THEN /\ holder' = [holder EXCEPT ![n] = h]
            /\ txn' = [txn EXCEPT ![h].targets = @ \ {n}, ![h].revoked = @ \cup {n}]
       ELSE /\ txn' = [txn EXCEPT ![h].targets = @ \ {n}]
            /\ UNCHANGED holder
    /\ UNCHANGED <<row, parent, stale, lapsed, app, faults, lost>>

RevokeCommit(h) ==
    /\ txn[h].step = "revoke"
    /\ txn[h].targets = {}
    /\ row' = [n \in Sessions |-> IF n \in txn[h].revoked THEN "revoked" ELSE row[n]]
    /\ Deliver(h, None)
    /\ Release(h)
    /\ UNCHANGED <<parent, stale, lapsed, page, store, faults, lost>>

(* The transaction fails and is rolled back; the answer is a server error. *)
Abort(h) ==
    /\ txn[h].step # "idle"
    /\ Fault
    /\ Deliver(h, None)
    /\ Release(h)
    /\ UNCHANGED <<row, parent, stale, lapsed, page, store, lost>>

(* Time passes. *)
AccessExpires(n) ==
    /\ row[n] # "unissued"
    /\ n \notin stale
    /\ SessionsLeft
    /\ stale' = stale \cup {n}
    /\ UNCHANGED <<row, parent, lapsed, holder, txn, app, faults, lost>>

RefreshExpires(n) ==
    /\ row[n] = "active"
    /\ n \in stale \ lapsed
    /\ Fault
    /\ lapsed' = lapsed \cup {n}
    /\ lost' = TRUE
    /\ UNCHANGED <<row, parent, stale, holder, txn, app>>
-----------------------------------------------------------------------------
(* The app. *)

(* Login or registration: the server issues a session, the app stores it   *)
(* and opens.  When the answer or the write is lost the form stays.        *)
SignIn ==
    /\ page = "sign-in"
    /\ \E n \in Sessions :
        /\ Fresh(n)
        /\ row' = [row EXCEPT ![n] = "active"]
        /\ \/ page' = "app" /\ store' = n /\ UNCHANGED faults
           \/ Fault /\ UNCHANGED <<page, store>>
    /\ UNCHANGED <<parent, stale, lapsed, holder, txn, exchanges, lost>>

(* The app is stopped and started: requests go on without it, and the gate  *)
(* asks for a login only when it finds no session it can read.             *)
Restart ==
    /\ Fault
    /\ lost' = (lost \/ \E c \in Callers : flow[c].step = "save")
    /\ txn' = [h \in Handlers |-> [txn[h] EXCEPT !.client = None]]
    /\ phase' = [c \in Callers |-> "idle"]
    /\ token' = [c \in Callers |-> None]
    /\ leader' = [c \in Callers |-> None]
    /\ gate' = None
    /\ flow' = [c \in Callers |-> NoFlow]
    /\ page' \in IF store = None THEN {"sign-in"} ELSE {"app", "sign-in"}
    /\ UNCHANGED <<row, parent, stale, lapsed, holder, store>>

(* synchronize reads the access token and sends the request. *)
Start(c) ==
    /\ page = "app"
    /\ phase[c] = "idle"
    /\ phase' = [phase EXCEPT ![c] = "sending"]
    /\ token' = [token EXCEPT ![c] = store]
    /\ UNCHANGED <<server, page, store, leader, gate, flow, faults, lost>>

(* The exchange is over for c. *)
Ended(c) ==
    /\ phase' = [phase EXCEPT ![c] = "idle"]
    /\ token' = [token EXCEPT ![c] = None]
    /\ UNCHANGED <<server, page, store, leader, gate, flow, faults, lost>>

(* The answer of an exchange that is not a 401: success, or a failure that *)
(* is not one of authentication.                                           *)
Answered(c) ==
    /\ phase[c] \in {"sending", "retrying"}
    /\ Ended(c)

(* Fault: every rejected exchange refreshes by itself. *)
RejectedAlone(c) ==
    /\ phase[c] = "sending"
    /\ token[c] \in stale
    /\ phase' = [phase EXCEPT ![c] = "waiting"]
    /\ leader' = [leader EXCEPT ![c] = c]
    /\ flow' = [flow EXCEPT ![c] = [step |-> "read", session |-> None]]
    /\ UNCHANGED <<server, page, store, token, gate, faults, lost>>

(* refreshAfterUnauthorized: join the refresh under way or start one.      *)
Rejected(c) ==
    /\ phase[c] = "sending"
    /\ token[c] \in stale
    /\ phase' = [phase EXCEPT ![c] = "waiting"]
    /\ IF gate # None
       THEN leader' = [leader EXCEPT ![c] = gate] /\ UNCHANGED <<gate, flow>>
       ELSE /\ leader' = [leader EXCEPT ![c] = c]
            /\ gate' = c
            /\ flow' = [flow EXCEPT ![c] = [step |-> "read", session |-> None]]
    /\ UNCHANGED <<server, page, store, token, faults, lost>>

(* The retry is rejected too: there is no second refresh. *)
RejectedAgain(c) ==
    /\ phase[c] = "retrying"
    /\ token[c] \in stale
    /\ Ended(c)

(* Fault: the stored session is refreshed without a look at it. *)
RefreshAlways(c) ==
    /\ flow[c].step = "read"
    /\ \E h \in Handlers :
        /\ txn[h].step = "idle"
        /\ txn' = [txn EXCEPT ![h] = [NoTxn EXCEPT !.step = "lock", !.session = store, !.client = c]]
    /\ flow' = [flow EXCEPT ![c] = [step |-> "ask", session |-> store]]
    /\ UNCHANGED <<row, parent, stale, lapsed, holder, phase, token, leader, gate, page, store,
                   faults, lost>>

(* The stored session is another one than the rejected: it is used as it   *)
(* is.  Otherwise its refresh token is presented.                          *)
ReadStore(c) ==
    /\ flow[c].step = "read"
    /\ IF store # token[c]
       THEN Complete(c, store) /\ UNCHANGED server
       ELSE /\ \E h \in Handlers :
                /\ txn[h].step = "idle"
                /\ txn' = [txn EXCEPT ![h] =
                        [NoTxn EXCEPT !.step = "lock", !.session = store, !.client = c]]
            /\ flow' = [flow EXCEPT ![c] = [step |-> "ask", session |-> store]]
            /\ UNCHANGED <<row, parent, stale, lapsed, holder, phase, token, leader, gate>>
    /\ UNCHANGED <<page, store, faults, lost>>

(* The answer does not arrive in time; the request may still be handled.   *)
LoseAnswer(h) ==
    /\ txn[h].client # None
    /\ Fault
    /\ Complete(txn[h].client, None)
    /\ txn' = [txn EXCEPT ![h].client = None]
    /\ UNCHANGED <<row, parent, stale, lapsed, holder, page, store, lost>>

(* The replacement is written, then handed to those who wait. *)
Save(c) ==
    /\ flow[c].step = "save"
    /\ store' = flow[c].session
    /\ Complete(c, flow[c].session)
    /\ UNCHANGED <<server, page, faults, lost>>

(* Secure storage cannot be read, or the replacement not written. *)
StorageFails(c) ==
    /\ flow[c].step \in {"read", "save"}
    /\ Fault
    /\ lost' = (lost \/ flow[c].step = "save")
    /\ Complete(c, None)
    /\ UNCHANGED <<server, page, store>>
-----------------------------------------------------------------------------
Handle(h) ==
    \/ LockRow(h) \/ Rotate(h) \/ RejectLapsed(h) \/ DetectReuse(h)
    \/ \E n \in Sessions : RevokeRow(h, n)
    \/ RevokeCommit(h)

Exchange(c) ==
    \/ Answered(c) \/ Rejected(c) \/ RejectedAgain(c)
    \/ ReadStore(c) \/ Save(c)

Next ==
    \/ \E h \in Handlers : Handle(h) \/ RotateUnconfirmed(h) \/ Abort(h) \/ LoseAnswer(h)
    \/ \E n \in Sessions : AccessExpires(n) \/ RefreshExpires(n)
    \/ SignIn
    \/ Restart
    \/ \E c \in Callers : Start(c) \/ Exchange(c) \/ StorageFails(c)

Spec == Init /\ [][Next]_vars

(* The foreground timer starts exchanges and the app runs them; the network *)
(* answers or times out; PostgreSQL queues the waiters of a row.           *)
FairSpec ==
    /\ Spec
    /\ \A c \in Callers : WF_vars(Start(c)) /\ WF_vars(Exchange(c))
    /\ \A h \in Handlers : SF_vars(Handle(h))
    /\ WF_vars(SignIn)
-----------------------------------------------------------------------------
(* Properties. *)

(* A refresh token is one-time: a session is replaced by at most one other,  *)
(* and not usable any more once it is, however often the token is presented *)
(* at once (GetRefreshTokenForUpdate, MarkRefreshTokenRotated).            *)
RotatedOnce ==
    \A m, n \in Sessions :
        parent[n] # None =>
            /\ row[parent[n]] = "revoked"
            /\ m # n => parent[m] # parent[n]

(* A session is only rotated after its access token was rejected: an        *)
(* exchange that learns late of an old 401 uses the replacement instead of  *)
(* rotating it again (refreshAfterUnauthorized).                           *)
RotatedWhenRejected == \A n \in Sessions : parent[n] # None => parent[n] \in stale

(* The session in storage can be refreshed, or its replacement is about to  *)
(* be written, unless a replacement was lost, a request that was given up   *)
(* took effect all the same, or the token expired: concurrent exchanges     *)
(* never make the server take a token for a reused one, and neither does    *)
(* one that fails and is tried again (one refresh for all who wait).        *)
LockedOutOnlyByLoss ==
    (store # None /\ ~lost) =>
        \/ row[store] = "active"
        \/ \E c \in Callers : flow[c].step = "save" /\ parent[flow[c].session] = store

(* Whoever waits for a refresh gets its session or its error: every path    *)
(* completes the future and opens the gate (_refreshAndComplete).          *)
EveryExchangeEnds == \A c \in Callers : phase[c] # "idle" ~> phase[c] = "idle"

(* The device can sync, or has been shown the form that lets it again.      *)
CanSync ==
    \/ page = "sign-in"
    \/ store \notin stale
    \/ row[store] = "active"
    \/ \E c \in Callers : flow[c].step = "save"

(* Sync protocol: refresh network, timeout and server failures remain       *)
(* retryable; requirements: a device whose refresh fails is blocked until   *)
(* reauthentication.                                                       *)
SyncResumes == []<>CanSync
=============================================================================
