------------------------------ MODULE TaskLock ------------------------------
(***************************************************************************)
(* What the lock of the batch tasks promises: tasks of one key run one at  *)
(* a time, as long as none of them outlives its lease.  Nothing is         *)
(* promised of a key whose lease has run out under a running task.         *)
(***************************************************************************)
EXTENDS FiniteSets

CONSTANTS Keys, Workers

VARIABLES
    inside,  \* the workers that run a task of each key
    slipped  \* the keys whose lease has run out under a task

vars == <<inside, slipped>>

Init ==
    /\ inside = [key \in Keys |-> {}]
    /\ slipped = {}

Enter(key, w) ==
    /\ inside[key] = {} \/ key \in slipped
    /\ \A k \in Keys : w \notin inside[k]
    /\ inside' = [inside EXCEPT ![key] = @ \union {w}]
    /\ UNCHANGED slipped

\* The task returns, raises, or its process is killed.
Leave(key, w) ==
    /\ w \in inside[key]
    /\ inside' = [inside EXCEPT ![key] = @ \ {w}]
    /\ UNCHANGED slipped

Slip(key) ==
    /\ inside[key] # {}
    /\ slipped' = slipped \union {key}
    /\ UNCHANGED inside

Next ==
    \E key \in Keys :
        \/ \E w \in Workers : Enter(key, w) \/ Leave(key, w)
        \/ Slip(key)

Spec == Init /\ [][Next]_vars

(* At most one worker runs a task of a key that has not slipped. *)
Exclusive ==
    \A key \in Keys \ slipped : \A v, w \in inside[key] : v = w
=============================================================================
