----------------------------- MODULE SyncTriggers -----------------------------
(***************************************************************************)
(* The trigger coordinator of the app (sync_trigger_coordinator.dart): what *)
(* wakes the sync engine, how triggers that come while an attempt runs are  *)
(* coalesced into the next one, and what stopping, starting and the        *)
(* lifecycle of the app do meanwhile.                                      *)
(*                                                                         *)
(* Dart code runs to its next await, so a step here is the code between two *)
(* awaits.  Triggers of one reason that wait together share their fate and  *)
(* are one.  The user asks for a second refresh when the first has ended.   *)
(***************************************************************************)
CONSTANTS
    Pumps,      \* runs of _drainPendingTriggers
    None

ASSUME NoPumpAssumption == None \notin Pumps

(* SyncTriggerReason *)
Reasons ==
    {"appForeground", "localWrite", "manualRefresh", "foregroundInterval", "connectivityHint"}

VARIABLES
    started,    \* subscribed, the app's lifecycle is followed
    foreground,
    disposed,
    debounce,   \* _debounceTimer is set
    interval,   \* _intervalTimer is set
    pending,    \* the reasons of _pendingTriggers
    pumpFuture, \* the pump that new triggers leave the work to, or None
    step,       \* what each pump waits for
    batch,      \* the reasons its attempt serves
    written     \* history: a local write that no attempt has begun after

mode == <<started, foreground, disposed>>
timers == <<debounce, interval>>
pumps == <<pumpFuture, step, batch>>
vars == <<mode, timers, pending, pumps, written>>

TypeOK ==
    /\ started \in BOOLEAN
    /\ foreground \in BOOLEAN
    /\ disposed \in BOOLEAN
    /\ debounce \in BOOLEAN
    /\ interval \in BOOLEAN
    /\ pending \subseteq Reasons
    /\ pumpFuture \in Pumps \cup {None}
    /\ step \in [Pumps -> {"none", "probe", "sync", "returned"}]
    /\ batch \in [Pumps -> SUBSET Reasons]
    /\ \A u \in Pumps : step[u] \in {"probe", "sync"} <=> batch[u] # {}
    /\ written \in BOOLEAN

Init ==
    /\ started = FALSE
    /\ foreground = FALSE
    /\ disposed = FALSE
    /\ debounce = FALSE
    /\ interval = FALSE
    /\ pending = {}
    /\ pumpFuture = None
    /\ step = [u \in Pumps |-> "none"]
    /\ batch = [u \in Pumps |-> {}]
    /\ written = FALSE
-----------------------------------------------------------------------------
(* Pump u begins an attempt for all that waits. *)
Attempt(u, waiting) ==
    /\ pending' = {}
    /\ step' = [step EXCEPT ![u] = "probe"]
    /\ batch' = [batch EXCEPT ![u] = waiting]
    /\ written' = FALSE

(* _request: the trigger is queued, and a pump started if none runs.       *)
Request(r) ==
    \/ /\ pumpFuture # None
       /\ pending' = pending \cup {r}
       /\ UNCHANGED <<pumps, written>>
    \/ /\ pumpFuture = None
       /\ \E u \in Pumps :
            /\ step[u] = "none"
            /\ pumpFuture' = u
            /\ Attempt(u, pending \cup {r})

(* enterForeground: the interval timer runs and an attempt is wanted.      *)
Foreground ==
    /\ foreground' = TRUE
    /\ interval' = TRUE
    /\ Request("appForeground")

Start ==
    /\ ~started
    /\ ~disposed
    /\ started' = TRUE
    /\ Foreground \/ UNCHANGED <<foreground, interval, pending, pumps, written>>
    /\ UNCHANGED <<disposed, debounce>>

Resume ==
    /\ started
    /\ Foreground
    /\ UNCHANGED <<started, disposed, debounce>>

(* Fault: the debounce timer goes on. *)
LeaveForegroundKeepDebounce ==
    /\ started
    /\ foreground' = FALSE
    /\ interval' = FALSE
    /\ UNCHANGED <<started, disposed, debounce, pending, pumps, written>>

LeaveForeground ==
    /\ started
    /\ foreground' = FALSE
    /\ debounce' = FALSE
    /\ interval' = FALSE
    /\ UNCHANGED <<started, disposed, pending, pumps, written>>

(* What stop does: timers end, those who wait are told, and an attempt that *)
(* is under way goes on.                                                   *)
Stopped ==
    /\ started' = FALSE
    /\ foreground' = FALSE
    /\ debounce' = FALSE
    /\ interval' = FALSE
    /\ pending' = {}

(* Fault: the running pump is forgotten. *)
StopAndForget ==
    /\ started
    /\ Stopped
    /\ pumpFuture' = None
    /\ UNCHANGED <<disposed, step, batch, written>>

Stop ==
    /\ started
    /\ Stopped
    /\ UNCHANGED <<disposed, pumps, written>>

Dispose ==
    /\ ~disposed
    /\ disposed' = TRUE
    /\ Stopped
    /\ UNCHANGED <<pumps, written>>

ManualRefresh ==
    /\ started
    /\ \A u \in Pumps : "manualRefresh" \notin pending \cup batch[u]
    /\ Request("manualRefresh")
    /\ UNCHANGED <<mode, timers>>

ConnectivityHint ==
    /\ started
    /\ foreground
    /\ Request("connectivityHint")
    /\ UNCHANGED <<mode, timers>>

(* A repository commits a mutation; in the foreground the debounce timer is *)
(* set anew.                                                               *)
LocalWrite ==
    /\ written' = TRUE
    /\ debounce' = (debounce \/ (started /\ foreground))
    /\ UNCHANGED <<mode, interval, pending, pumps>>

DebounceFires ==
    /\ debounce
    /\ debounce' = FALSE
    /\ IF started /\ foreground THEN Request("localWrite") ELSE UNCHANGED <<pending, pumps, written>>
    /\ UNCHANGED <<mode, interval>>

IntervalFires ==
    /\ interval
    /\ IF started /\ foreground
       THEN Request("foregroundInterval")
       ELSE UNCHANGED <<pending, pumps, written>>
    /\ UNCHANGED <<mode, timers>>
-----------------------------------------------------------------------------
(* _drainPendingTriggers *)

(* Fault: an attempt is made for nobody. *)
FinishAlways(u) ==
    /\ Attempt(u, pending)
    /\ UNCHANGED <<mode, timers, pumpFuture>>

(* The batch is answered; what came meanwhile is the next one. *)
Finish(u) ==
    /\ IF pending # {} /\ started
       THEN Attempt(u, pending)
       ELSE /\ pending' = {}
            /\ step' = [step EXCEPT ![u] = "returned"]
            /\ batch' = [batch EXCEPT ![u] = {}]
            /\ UNCHANGED written
    /\ UNCHANGED <<mode, timers, pumpFuture>>

(* The server is reachable: the engine runs a cycle. *)
Reached(u) ==
    /\ step[u] = "probe"
    /\ step' = [step EXCEPT ![u] = "sync"]
    /\ UNCHANGED <<mode, timers, pending, pumpFuture, batch, written>>

(* It is not, or the probe throws. *)
Unreachable(u) == step[u] = "probe" /\ Finish(u)

(* The cycle ends or throws. *)
Synchronized(u) == step[u] = "sync" /\ Finish(u)

(* Fault: what came after the last batch is not looked for. *)
ObserveOnce(u) ==
    /\ step[u] = "returned"
    /\ pumpFuture' = IF pumpFuture = u THEN None ELSE pumpFuture
    /\ step' = [step EXCEPT ![u] = "none"]
    /\ UNCHANGED <<mode, timers, pending, batch, written>>

(* Fault: the gate stays closed. *)
ObserveShut(u) ==
    /\ step[u] = "returned"
    /\ step' = [step EXCEPT ![u] = "none"]
    /\ UNCHANGED <<mode, timers, pending, pumpFuture, batch, written>>

(* _observePump: a trigger may have come between the last look at the list  *)
(* and here, and left the work to this pump.                               *)
Observe(u) ==
    /\ step[u] = "returned"
    /\ IF pumpFuture = u /\ pending # {}
       THEN Attempt(u, pending) /\ UNCHANGED pumpFuture
       ELSE /\ pumpFuture' = IF pumpFuture = u THEN None ELSE pumpFuture
            /\ step' = [step EXCEPT ![u] = "none"]
            /\ UNCHANGED <<pending, batch, written>>
    /\ UNCHANGED <<mode, timers>>
-----------------------------------------------------------------------------
Pump(u) == Reached(u) \/ Unreachable(u) \/ Synchronized(u) \/ Observe(u)

Next ==
    \/ Start \/ Stop \/ Dispose \/ Resume \/ LeaveForeground
    \/ ManualRefresh \/ ConnectivityHint \/ LocalWrite
    \/ DebounceFires \/ IntervalFires
    \/ \E u \in Pumps : Pump(u)

Spec == Init /\ [][Next]_vars

(* The periodic timer fires, and probe and cycle end: their requests have   *)
(* timeouts.  The debounce timer need not: every write sets it anew, and    *)
(* writes may keep coming.                                                 *)
FairSpec ==
    /\ Spec
    /\ WF_vars(IntervalFires)
    /\ \A u \in Pumps : WF_vars(Pump(u))
-----------------------------------------------------------------------------
(* Properties. *)

(* Attempts never overlap, whatever starts and stops the coordinator while  *)
(* one is under way: the engine's mutex is never needed for them (class     *)
(* comment: without allowing overlapping sync cycles).                     *)
OneAttempt == \A u, v \in Pumps : batch[u] # {} /\ batch[v] # {} => u = v

(* In the background, and when stopped, no timer runs, and nobody waits on  *)
(* a stopped coordinator (leaveForeground, stop).                          *)
QuietOutside ==
    /\ debounce \/ interval => started /\ foreground
    /\ pending # {} => started

(* A trigger that waits has a pump that will come back to the list, however *)
(* it fell between the last look at the list and the end of the pump        *)
(* (_ensurePump, _observePump).                                            *)
NobodyLeftBehind == pending # {} => pumpFuture # None /\ step[pumpFuture] # "none"

(* A refresh the user asked for ends, in the background too, where no timer *)
(* would help one that was left behind (_observePump).                     *)
EveryRefreshEnds ==
    (\E u \in Pumps : "manualRefresh" \in pending \cup batch[u])
        ~> (\A u \in Pumps : "manualRefresh" \notin pending \cup batch[u])

(* A local write is followed by an attempt that began after it, as long as  *)
(* the app stays in the foreground, also when it was made during an attempt *)
(* (the queue was claimed before) and when more writes keep the debounce    *)
(* timer from firing: then the interval timer sees to it.                  *)
EveryWriteIsTried == (written /\ foreground) ~> (~written \/ ~foreground)
=============================================================================
