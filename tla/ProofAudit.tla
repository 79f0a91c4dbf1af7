----------------------------- MODULE ProofAudit -----------------------------
(***************************************************************************)
(* What the verification of proofs promises, seen from the chain: a        *)
(* challenged proof is open until a verdict on it arrives; verdicts arrive *)
(* in batches that are not too large, each is the one the proof deserves,  *)
(* and none is given twice.                                                *)
(***************************************************************************)
EXTENDS Naturals, FiniteSets

CONSTANTS
    Proofs,
    MaxBatch

VARIABLES
    deserved,  \* the verdict each proof deserves: "accepted" or "rejected"
    open,      \* the proofs without a verdict
    verdict    \* the verdicts given; "none" before

auditVars == <<deserved, open, verdict>>

Init ==
    /\ deserved \in [Proofs -> {"accepted", "rejected"}]
    /\ open = {}
    /\ verdict = [p \in Proofs |-> "none"]

\* A miner's proof comes in.
Challenged(p) ==
    /\ p \notin open
    /\ verdict[p] = "none"
    /\ open' = open \cup {p}
    /\ UNCHANGED <<deserved, verdict>>

\* The verdicts on a batch of open proofs.
Judged(B) ==
    /\ Cardinality(B) <= MaxBatch
    /\ open' = open \ B
    /\ verdict' = [p \in Proofs |->
                      IF p \in B THEN deserved[p] ELSE verdict[p]]
    /\ UNCHANGED deserved

Next ==
    \/ \E p \in Proofs : Challenged(p)
    \/ \E B \in SUBSET open : Judged(B)

Spec == Init /\ [][Next]_auditVars
=============================================================================
