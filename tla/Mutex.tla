------------------------------- MODULE Mutex -------------------------------
(***************************************************************************)
(* A sync.Mutex as the goroutines of the node must treat it, whichever of  *)
(* their many exits they take: one at a time is between Lock and Unlock,   *)
(* only who is there unlocks, and who leaves has unlocked.  Unlocking a    *)
(* mutex that is not locked would end the process.  The careless users are *)
(* those that may panic in between without a deferred Unlock: they leave   *)
(* the mutex locked for good.                                              *)
(***************************************************************************)
CONSTANTS
    Users,
    Careless

VARIABLES
    state,   \* "free", "held", or "lost"
    inside   \* the users between Lock and Unlock

mutexVars == <<state, inside>>

Init ==
    /\ state = "free"
    /\ inside = {}

Lock(u) ==
    /\ state = "free"
    /\ inside = {}
    /\ state' = "held"
    /\ inside' = {u}

Unlock(u) ==
    /\ state = "held"
    /\ inside = {u}
    /\ state' = "free"
    /\ inside' = {}

\* u panics.
Lose(u) ==
    /\ u \in Careless
    /\ state = "held"
    /\ inside = {u}
    /\ state' = "lost"
    /\ inside' = {}

\* The process is started again.
Restart ==
    /\ state' = "free"
    /\ inside' = {}

Next ==
    \/ \E u \in Users : Lock(u) \/ Unlock(u) \/ Lose(u)
    \/ Restart

Spec == Init /\ [][Next]_mutexVars
=============================================================================
