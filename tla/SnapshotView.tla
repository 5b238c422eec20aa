---------------------------- MODULE SnapshotView ----------------------------
(***************************************************************************)
(* What the resource cache promises (docs/ARCHITECTURE.md, sections 5 and  *)
(* 6), without goroutines, watches, retries or a reaper: each key has one  *)
(* reader that takes the cluster's state, puts it up, and only then takes  *)
(* the next one; or fails, and what is up stays, marked as failed.         *)
(*                                                                         *)
(* A state of the cluster is its version, 0 is none.                       *)
(***************************************************************************)
EXTENDS Naturals

CONSTANT Keys

VARIABLES
    shown,     \* the state that is up for a key
    since,     \* when it was put up
    failed,    \* keys whose last reading failed
    reading,   \* the state that has been taken and is not yet up
    current,   \* the cluster's state
    now

vars == <<shown, since, failed, reading, current, now>>

Init ==
    /\ shown = [k \in Keys |-> 0]
    /\ since = [k \in Keys |-> 0]
    /\ failed = {}
    /\ reading = [k \in Keys |-> 0]
    /\ current = 1
    /\ now = 1

Changes ==
    /\ current' = current + 1
    /\ UNCHANGED <<shown, since, failed, reading, now>>

Passes ==
    /\ now' = now + 1
    /\ UNCHANGED <<shown, since, failed, reading, current>>

Take(k) ==
    /\ reading[k] = 0
    /\ reading' = [reading EXCEPT ![k] = current]
    /\ UNCHANGED <<shown, since, failed, current, now>>

PutUp(k) ==
    /\ reading[k] # 0
    /\ shown' = [shown EXCEPT ![k] = reading[k]]
    /\ since' = [since EXCEPT ![k] = now]
    /\ failed' = failed \ {k}
    /\ reading' = [reading EXCEPT ![k] = 0]
    /\ UNCHANGED <<current, now>>

Fails(k) ==
    /\ reading[k] = 0
    /\ failed' = failed \cup {k}
    /\ UNCHANGED <<shown, since, reading, current, now>>

Next == Changes \/ Passes \/ \E k \in Keys : Take(k) \/ PutUp(k) \/ Fails(k)

Spec == Init /\ [][Next]_vars
=============================================================================
