---------------------------- MODULE FillerLedger ----------------------------
(***************************************************************************)
(* What the filler pipeline promises, seen by the miners and the chain:    *)
(* fillers reach the miners in the order in which they were made; one is   *)
(* reported for a miner that has it, and for no other; and a filler that   *)
(* has been reported, or that has a successor somewhere, is not sent any   *)
(* more.  A report may be executed at any later time, or fail.             *)
(***************************************************************************)
EXTENDS Naturals

CONSTANTS
    Miners,
    MaxFillers

VARIABLES
    made,     \* how many fillers have been made: they are 1..made
    held,     \* the fillers each miner has received
    pending,  \* reports not yet executed: filler and miner
    metas     \* the fillers the chain records, with their miner

ledgerVars == <<made, held, pending, metas>>

Init ==
    /\ made = 0
    /\ held = [m \in Miners |-> {}]
    /\ pending = {}
    /\ metas = {}

Reported(f) == \E x \in pending \cup metas : x[1] = f

\* No miner has received a later filler.
Latest(f) == \A n \in Miners : \A g \in held[n] : g <= f

Make ==
    /\ made < MaxFillers
    /\ made' = made + 1
    /\ UNCHANGED <<held, pending, metas>>

Send(f, m) ==
    /\ Latest(f)
    /\ ~ Reported(f)
    /\ held' = [held EXCEPT ![m] = @ \cup {f}]
    /\ UNCHANGED <<made, pending, metas>>

\* The report is executed at once, or it is left for later.
Report(f, m) ==
    /\ f \in held[m]
    /\ Latest(f)
    /\ \A x \in pending \cup metas : x[1] = f => x[2] = m
    /\ \/ metas' = metas \cup {<<f, m>>} /\ UNCHANGED pending
       \/ pending' = pending \cup {<<f, m>>} /\ UNCHANGED metas
    /\ UNCHANGED <<made, held>>

Execute(x) ==
    /\ pending' = pending \ {x}
    /\ metas' \in {metas, metas \cup {x}}
    /\ UNCHANGED <<made, held>>

Next ==
    \/ Make
    \/ \E f \in 1..made, m \in Miners : Send(f, m) \/ Report(f, m)
    \/ \E x \in pending : Execute(x)

Spec == Init /\ [][Next]_ledgerVars
=============================================================================
