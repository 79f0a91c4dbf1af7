---------------------------- MODULE FileTransfer ----------------------------
(***************************************************************************)
(* What the transfer of a list of files promises, seen by the two ends'    *)
(* callers: a file is offered when the receiver has every earlier one, a   *)
(* file once received stays, the backup starts with the last one or not at *)
(* all, and the sender is told "ok" only when all are there.  It may be    *)
(* told "err" at any time: then nothing more is offered, though the file   *)
(* that was offered last may still be received.                            *)
(***************************************************************************)
EXTENDS Naturals

CONSTANT NFiles

VARIABLES
    offered,   \* how many files have been offered
    received,  \* the files that the receiver has in full
    backup,    \* the receiver's backup has been started
    outcome    \* what the sender is told: "none" before

transferVars == <<offered, received, backup, outcome>>

Init ==
    /\ offered = 1
    /\ received = {}
    /\ backup = FALSE
    /\ outcome = "none"

\* The next file of the list.
Offer ==
    /\ outcome = "none"
    /\ offered < NFiles
    /\ received = 1..offered
    /\ offered' = offered + 1
    /\ UNCHANGED <<received, backup, outcome>>

Receive ==
    /\ received = 1..(offered - 1)
    /\ received' = 1..offered
    /\ backup' \in {backup, offered = NFiles}
    /\ UNCHANGED <<offered, outcome>>

Succeed ==
    /\ outcome = "none"
    /\ received = 1..NFiles
    /\ outcome' = "ok"
    /\ UNCHANGED <<offered, received, backup>>

Fail ==
    /\ outcome = "none"
    /\ outcome' = "err"
    /\ UNCHANGED <<offered, received, backup>>

Next == Offer \/ Receive \/ Succeed \/ Fail

Spec == Init /\ [][Next]_transferVars
=============================================================================
