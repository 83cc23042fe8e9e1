---------------------------- MODULE OperationLog ----------------------------
(***************************************************************************)
(* What the synchronization server promises, with transactions, locks and  *)
(* duplicate deliveries left out: every operation is decided once and for  *)
(* all in one indivisible step, the accepted ones form one totally ordered *)
(* feed, and a replica holds exactly the part of its account's feed that   *)
(* lies at or below its cursor.  Both SyncTransactions and ReplicaSync      *)
(* implement this module.                                                  *)
(***************************************************************************)
EXTENDS Integers, Sequences

CONSTANTS
    Ops,        \* the operations clients may deliver, each a record with an account
    Readers,    \* the replicas that follow the feed
    AccountOf,  \* the account each replica belongs to
    Verdicts,   \* the outcomes an operation can be given
    Acceptance, \* the one of them that changes canonical state
    NoVerdict   \* stands for the outcome of an operation not decided yet

VARIABLES
    feed,       \* the accepted operations, in commit order
    decided,    \* the verdict each operation was given
    cursor,     \* the position of each replica in the feed
    held        \* the feed positions whose effect a replica holds

vars == <<feed, decided, cursor, held>>

(* The positions of replica r's account among the first n of the feed. *)
Visible(r, n) == {s \in 1..n : s <= Len(feed) /\ feed[s].account = AccountOf[r]}

Init ==
    /\ feed = <<>>
    /\ decided = [o \in Ops |-> NoVerdict]
    /\ cursor = [r \in Readers |-> 0]
    /\ held = [r \in Readers |-> {}]

(* An undecided operation is decided; accepting it extends the feed. *)
Decide(o, v) ==
    /\ decided[o] = NoVerdict
    /\ decided' = [decided EXCEPT ![o] = v]
    /\ feed' = IF v = Acceptance THEN Append(feed, o) ELSE feed
    /\ UNCHANGED <<cursor, held>>

(* A replica moves forward to n and then holds its account's feed up to n. *)
Advance(r, n) ==
    /\ n >= cursor[r]
    /\ cursor' = [cursor EXCEPT ![r] = n]
    /\ held' = [held EXCEPT ![r] = Visible(r, n)]
    /\ UNCHANGED <<feed, decided>>

Next ==
    \/ \E o \in Ops, v \in Verdicts : Decide(o, v)
    \/ \E r \in Readers, n \in 0..Len(feed) : Advance(r, n)

Spec == Init /\ [][Next]_vars
=============================================================================
