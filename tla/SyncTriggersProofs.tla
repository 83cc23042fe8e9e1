-------------------------- MODULE SyncTriggersProofs --------------------------
(* Proofs about SyncTriggers, for any number of pumps. *)
EXTENDS SyncTriggers, TLAPS

(* The gate: a pump runs if and only if new triggers leave the work to it.  *)
(* OneAttempt alone is not inductive: a second pump would be started while  *)
(* the first runs if pumpFuture could be None then; and a trigger would wait *)
(* for nobody if pumpFuture could name a pump that does not run.           *)
GateIsShut == \A u \in Pumps : step[u] # "none" <=> pumpFuture = u

(* What the triggers and the pumps do, and what the app's mode does. *)
PumpPart ==
    /\ pending \in SUBSET Reasons
    /\ pumpFuture \in Pumps \cup {None}
    /\ step \in [Pumps -> {"none", "probe", "sync", "returned"}]
    /\ batch \in [Pumps -> SUBSET Reasons]
    /\ \A u \in Pumps : step[u] \in {"probe", "sync"} <=> batch[u] # {}
    /\ written \in BOOLEAN
    /\ GateIsShut
    /\ NobodyLeftBehind

ModePart ==
    /\ started \in BOOLEAN
    /\ foreground \in BOOLEAN
    /\ disposed \in BOOLEAN
    /\ debounce \in BOOLEAN
    /\ interval \in BOOLEAN
    /\ debounce \/ interval => started /\ foreground
    /\ pending # {} => started

IInv == PumpPart /\ ModePart

LEMMA InitIInv == Init => IInv
BY NoPumpAssumption DEF Init, IInv, PumpPart, ModePart, GateIsShut, NobodyLeftBehind

(* The pump that newcomers are left to begins an attempt, none other runs. *)
LEMMA AttemptKeeps ==
    ASSUME PumpPart, NEW u \in Pumps, NEW waiting \in SUBSET Reasons, waiting # {},
           \A v \in Pumps \ {u} : step[v] = "none",
           pumpFuture' = u, Attempt(u, waiting)
    PROVE  PumpPart' /\ pending' = {}
BY NoPumpAssumption DEF PumpPart, GateIsShut, NobodyLeftBehind, Attempt

LEMMA RequestKeeps ==
    ASSUME PumpPart, NEW r \in Reasons, Request(r)
    PROVE  PumpPart' /\ (pending' = {} \/ pending' = pending \cup {r})
<1>1. CASE /\ pumpFuture # None
           /\ pending' = pending \cup {r}
           /\ UNCHANGED <<pumps, written>>
  BY <1>1 DEF PumpPart, GateIsShut, NobodyLeftBehind, pumps
<1>2. ASSUME pumpFuture = None, NEW u \in Pumps, step[u] = "none", pumpFuture' = u,
             Attempt(u, pending \cup {r})
      PROVE  PumpPart' /\ pending' = {}
  <2>1. \A v \in Pumps \ {u} : step[v] = "none"
    BY <1>2, NoPumpAssumption DEF PumpPart, GateIsShut
  <2>2. pending \cup {r} \in SUBSET Reasons /\ pending \cup {r} # {}
    BY DEF PumpPart
  <2> QED BY <1>2, <2>1, <2>2, AttemptKeeps
<1> QED BY <1>1, <1>2 DEF Request

LEMMA FinishKeeps ==
    ASSUME IInv, NEW u \in Pumps, step[u] \in {"probe", "sync"}, Finish(u)
    PROVE  IInv'
<1>1. pumpFuture = u /\ \A v \in Pumps \ {u} : step[v] = "none"
  BY DEF IInv, PumpPart, GateIsShut
<1>2. CASE pending # {} /\ started
  BY <1>1, <1>2, AttemptKeeps DEF Finish, IInv, PumpPart, ModePart, mode, timers
<1>3. CASE ~(pending # {} /\ started)
  BY <1>1, <1>3 DEF Finish, IInv, PumpPart, ModePart, GateIsShut, NobodyLeftBehind, mode, timers
<1> QED BY <1>2, <1>3

LEMMA ObserveKeeps ==
    ASSUME IInv, NEW u \in Pumps, Observe(u)
    PROVE  IInv'
<1>1. step[u] = "returned" /\ pumpFuture = u /\ \A v \in Pumps \ {u} : step[v] = "none"
  BY DEF Observe, IInv, PumpPart, GateIsShut
<1>2. CASE pending # {}
  BY <1>1, <1>2, AttemptKeeps DEF Observe, IInv, PumpPart, ModePart, mode, timers
<1>3. CASE pending = {}
  BY <1>1, <1>3, NoPumpAssumption
  DEF Observe, IInv, PumpPart, ModePart, GateIsShut, NobodyLeftBehind, mode, timers
<1> QED BY <1>2, <1>3

(* A step that leaves the pumps alone and does not queue. *)
LEMMA PumpsAlone ==
    ASSUME PumpPart, UNCHANGED pumps, pending' \in {pending, {}}, written' \in BOOLEAN
    PROVE  PumpPart'
BY DEF PumpPart, GateIsShut, NobodyLeftBehind, pumps

LEMMA NextIInv == IInv /\ [Next]_vars => IInv'
<1> SUFFICES ASSUME IInv, [Next]_vars PROVE IInv'
  OBVIOUS
<1> USE DEF IInv
<1>1. CASE Start
  <2>1. CASE Foreground
    BY <1>1, <2>1, RequestKeeps DEF Start, Foreground, ModePart, Reasons
  <2>2. CASE UNCHANGED <<foreground, interval, pending, pumps, written>>
    BY <1>1, <2>2, PumpsAlone DEF Start, ModePart, PumpPart
  <2> QED BY <1>1, <2>1, <2>2 DEF Start
<1>2. CASE Stop
  BY <1>2, PumpsAlone DEF Stop, Stopped, ModePart, PumpPart
<1>3. CASE Dispose
  BY <1>3, PumpsAlone DEF Dispose, Stopped, ModePart, PumpPart
<1>4. CASE Resume
  BY <1>4, RequestKeeps DEF Resume, Foreground, ModePart, Reasons
<1>5. CASE LeaveForeground
  BY <1>5, PumpsAlone DEF LeaveForeground, ModePart, PumpPart
<1>6. CASE ManualRefresh
  BY <1>6, RequestKeeps DEF ManualRefresh, ModePart, Reasons, mode, timers
<1>7. CASE ConnectivityHint
  BY <1>7, RequestKeeps DEF ConnectivityHint, ModePart, Reasons, mode, timers
<1>8. CASE LocalWrite
  BY <1>8, PumpsAlone DEF LocalWrite, ModePart, mode
<1>9. CASE DebounceFires
  <2>1. CASE started /\ foreground
    BY <1>9, <2>1, RequestKeeps DEF DebounceFires, ModePart, Reasons, mode
  <2>2. CASE ~(started /\ foreground)
    BY <1>9, <2>2, PumpsAlone DEF DebounceFires, ModePart, PumpPart, mode
  <2> QED BY <2>1, <2>2
<1>10. CASE IntervalFires
  <2>1. CASE started /\ foreground
    BY <1>10, <2>1, RequestKeeps DEF IntervalFires, ModePart, Reasons, mode, timers
  <2>2. CASE ~(started /\ foreground)
    BY <1>10, <2>2, PumpsAlone DEF IntervalFires, ModePart, PumpPart, mode, timers
  <2> QED BY <2>1, <2>2
<1>11. ASSUME NEW u \in Pumps, Reached(u) PROVE IInv'
  BY <1>11 DEF Reached, PumpPart, ModePart, GateIsShut, NobodyLeftBehind, mode, timers
<1>12. ASSUME NEW u \in Pumps, Unreachable(u) PROVE IInv'
  BY <1>12, FinishKeeps DEF Unreachable
<1>13. ASSUME NEW u \in Pumps, Synchronized(u) PROVE IInv'
  BY <1>13, FinishKeeps DEF Synchronized
<1>14. ASSUME NEW u \in Pumps, Observe(u) PROVE IInv'
  BY <1>14, ObserveKeeps
<1>15. CASE UNCHANGED vars
  BY <1>15, PumpsAlone DEF vars, mode, timers, ModePart, PumpPart
<1> QED
  BY <1>1, <1>2, <1>3, <1>4, <1>5, <1>6, <1>7, <1>8, <1>9, <1>10, <1>11, <1>12,
     <1>13, <1>14, <1>15 DEF Next, Pump

LEMMA Invariance == Spec => []IInv
BY InitIInv, NextIInv, PTL DEF Spec

(* The coordinator's state is well typed; a pump that serves nobody makes no *)
(* attempt (_drainPendingTriggers).                                        *)
THEOREM TypeCorrect == Spec => []TypeOK
<1>1. IInv => TypeOK
  BY DEF IInv, PumpPart, ModePart, TypeOK
<1> QED BY <1>1, Invariance, PTL

(* Attempts never overlap, however often the coordinator is stopped and     *)
(* started while one is under way (_ensurePump).                           *)
THEOREM NoOverlap == Spec => []OneAttempt
<1>1. IInv => OneAttempt
  BY NoPumpAssumption DEF IInv, PumpPart, GateIsShut, OneAttempt
<1> QED BY <1>1, Invariance, PTL

(* No timer runs outside the foreground, nobody waits on a stopped          *)
(* coordinator (leaveForeground, stop).                                    *)
THEOREM Quiet == Spec => []QuietOutside
<1>1. IInv => QuietOutside
  BY DEF IInv, ModePart, QuietOutside
<1> QED BY <1>1, Invariance, PTL

(* A trigger that waits has a running pump to come back to it               *)
(* (_ensurePump, _observePump).                                            *)
THEOREM NoneLeft == Spec => []NobodyLeftBehind
<1>1. IInv => NobodyLeftBehind
  BY DEF IInv, PumpPart
<1> QED BY <1>1, Invariance, PTL
=============================================================================
