---------------------------- MODULE ExclusiveLock ----------------------------
(***************************************************************************)
(* What the comment above State.AcquireLock promises: an exclusive lock on *)
(* a state directory.  At any time at most one launcher holds it; a        *)
(* launcher that holds it gives it up by releasing it or by dying.         *)
(***************************************************************************)

CONSTANT Launcher   \* the dvm processes that ask for the state directory

VARIABLE holders    \* those inside the critical section of the lock

Init == holders = {}

Acquire(p) ==
    /\ holders = {}
    /\ holders' = {p}

Leave(p) ==
    /\ p \in holders
    /\ holders' = holders \ {p}

Next == \E p \in Launcher : Acquire(p) \/ Leave(p)

Spec == Init /\ [][Next]_holders
=============================================================================
