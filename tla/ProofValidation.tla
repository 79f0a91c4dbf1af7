--------------------------- MODULE ProofValidation ---------------------------
(***************************************************************************)
(* The verification of the miners' proofs: task_ValidateProof, verifyProof *)
(* and submitProofResult (node/sub_verifyProofs.go), with the restart of   *)
(* the task by CoroutineMgr (node/sub_main.go).                            *)
(*                                                                         *)
(* A round reads the list of unverified proofs from the chain, verifies    *)
(* them one by one under workLock, submits the results when enough are     *)
(* gathered, and the remaining ones after the lock is released.            *)
(*                                                                         *)
(* External: the chain, which adds proofs to the list and takes them off   *)
(* when their results are executed.  SubmitProofResults appears with its   *)
(* outcomes; its steps are those of ChainClient.                           *)
(***************************************************************************)
EXTENDS Integers, Sequences, FiniteSets, SequencesExt

CONSTANTS
    Proofs,       \* the proofs the chain may list
    Kinds,        \* what a proof may be, see below
    MaxResults,   \* Max_SubProofResults
    MaxTry        \* tries of submitProofResult (3)

(***************************************************************************)
(* "good" and "bad" proofs satisfy the equation of VerifyProof or not; an  *)
(* "empty" one lacks U, Sigma or Omega; in a "malformed" one the challenge *)
(* has not as many random numbers as blocks.  "noBlocks" is a challenge    *)
(* without blocks, and "short" a proof with fewer hashes than blocks.      *)
(***************************************************************************)
AllKinds == {"good", "bad", "empty", "malformed", "noBlocks", "short"}

ASSUME KindsAssumption == Kinds \subseteq AllKinds
ASSUME MaxAssumption == MaxResults \in Nat \ {0} /\ MaxTry \in Nat \ {0}

VARIABLES
    kind,         \* what each proof is
    pc,           \* where the task is; "ended" until it is started again
    proofs,       \* the list it read
    i,            \* the proofs of the list it has verified
    verifyResults,\* the results gathered: [proof, result]
    tryCount,
    workLock,     \* "free", "validator", "other"; "lost": a panic left it locked
    sent,         \* history: the results handed to SubmitProofResults, this round
    key,          \* proof.GetKey finds the key
    unverified,   \* external: the proofs in the chain's list
    verdict,      \* external: what the chain has recorded of each proof
    pending       \* external: the results of extrinsics not yet in a block

task == <<pc, proofs, i, verifyResults, tryCount, sent>>
ledger == <<unverified, verdict, pending>>
vars == <<kind, task, workLock, key, ledger>>

Verdict(result) == IF result THEN "accepted" ELSE "rejected"

-----------------------------------------------------------------------------
(* The task.                                                               *)

\* The loop that asks for the key, minute after minute.
GetKey ==
    /\ pc = "key"
    /\ key
    /\ pc' = "get"
    /\ UNCHANGED <<kind, proofs, i, verifyResults, tryCount, sent, workLock, key,
                   ledger>>

\* GetProofs: on an error or an empty list it asks again later.  The list may
\* come in any order.
GetProofs ==
    /\ pc = "get"
    /\ unverified # {}
    /\ proofs' \in SetToSeqs(unverified)
    /\ i' = 0
    /\ sent' = <<>>
    /\ pc' = "lock"
    /\ UNCHANGED <<kind, verifyResults, tryCount, workLock, key, ledger>>

\* workLock.Lock()
Lock ==
    /\ pc = "lock"
    /\ workLock = "free"
    /\ workLock' = "validator"
    /\ pc' = "loop"
    /\ UNCHANGED <<kind, proofs, i, verifyResults, tryCount, sent, key, ledger>>

FullLate == Len(verifyResults) > MaxResults

\* len(verifyResults) >= configs.Max_SubProofResults
Full == Len(verifyResults) >= MaxResults

More == i < Len(proofs)

Current == proofs[i + 1]

\* verifyProof.  A challenge PoDR2ChallengeGenerateFromChain refuses counts for
\* the miner: the result is true.
VerifyProof(k) == k \in {"good", "malformed"}

Verify ==
    /\ pc = "loop" /\ More /\ ~ Full
    /\ kind[Current] \notin {"noBlocks", "short"}
    /\ verifyResults' =
          Append(verifyResults, [proof |-> Current,
                                 result |-> VerifyProof(kind[Current])])
    /\ i' = i + 1
    /\ UNCHANGED <<kind, pc, proofs, tryCount, sent, workLock, key, ledger>>

Submitting ==
    /\ pc' = "submit"
    /\ tryCount' = 0
    /\ sent' = sent \o verifyResults

\* The batch is full: it is submitted before the next proof, workLock held.
SubmitFull ==
    /\ pc = "loop" /\ More /\ Full
    /\ Submitting
    /\ UNCHANGED <<kind, proofs, i, verifyResults, workLock, key, ledger>>

EndLocked ==
    /\ pc = "loop" /\ ~ More
    /\ Submitting
    /\ UNCHANGED <<kind, proofs, i, verifyResults, workLock, key, ledger>>

\* The loop is done: workLock.Unlock(), and the remaining results.
EndLoop ==
    /\ pc = "loop" /\ ~ More
    /\ workLock' = "free"
    /\ Submitting
    /\ UNCHANGED <<kind, proofs, i, verifyResults, key, ledger>>

KeptWhenFull == IF More THEN verifyResults ELSE <<>>

\* verifyResults = make(..., 0), after either call of submitProofResult.
Emptied == <<>>

\* submitProofResult returns.
Submitted ==
    /\ pc' = IF More THEN "loop" ELSE "get"
    /\ verifyResults' = Emptied
    /\ UNCHANGED <<kind, proofs, i, tryCount, sent, workLock, key>>

\* What an extrinsic carries.
Batch == ToSet(verifyResults)

\* External: the results of a batch are executed; those of proofs that are no
\* longer in the list change nothing.
Execute(batch) ==
    LET judged == {r \in batch : r.proof \in unverified}
        names == {r.proof : r \in judged}
    IN  /\ verdict' = [p \in Proofs |->
              IF p \in names
              THEN Verdict((CHOOSE r \in judged : r.proof = p).result)
              ELSE verdict[p]]
        /\ unverified' = unverified \ names

\* SubmitProofResults returns a block hash, with an error or without: the batch
\* was executed with success, ...
SubmitOk ==
    /\ pc = "submit"
    /\ Execute(Batch)
    /\ Submitted
    /\ UNCHANGED pending

\* ... or without; the results are dropped in either case.
SubmitFailed ==
    /\ pc = "submit"
    /\ Submitted
    /\ UNCHANGED ledger

GivesUpNever == FALSE

\* if tryCount >= 3
GivesUp == tryCount + 1 >= MaxTry

(***************************************************************************)
(* No hash: the extrinsic was not sent, or is left in the pool.  It is     *)
(* tried again until MaxTry errors are counted; then the results are       *)
(* dropped, and the proofs are verified again in a later round.            *)
(***************************************************************************)
SubmitNoHash ==
    /\ pc = "submit"
    /\ pending' \in {pending, pending \cup {Batch}}
    /\ UNCHANGED <<unverified, verdict>>
    /\ \/ /\ ~ GivesUp
          /\ tryCount' = tryCount + 1
          /\ UNCHANGED <<kind, pc, proofs, i, verifyResults, sent, workLock, key>>
       \/ GivesUp /\ Submitted

\* The task's locals die with it.
TaskEnds(at) ==
    /\ pc' = at
    /\ proofs' = <<>> /\ i' = 0 /\ verifyResults' = <<>> /\ tryCount' = 0
    /\ sent' = <<>>

(***************************************************************************)
(* A panic: VerifyProof prints QSlice[0] of a challenge without blocks, or *)
(* GetProofs or SubmitProofResults uses a nil c.api.  The task recovers    *)
(* and ends; there is no deferred Unlock, so workLock stays locked if it   *)
(* was.                                                                    *)
(***************************************************************************)
TaskPanic ==
    /\ \/ pc = "loop" /\ More /\ ~ Full /\ kind[Current] = "noBlocks"
       \/ pc \in {"get", "submit"}
    /\ TaskEnds("ended")
    /\ workLock' = IF workLock = "validator" THEN "lost" ELSE workLock
    /\ UNCHANGED <<kind, key, ledger>>

\* <-channel_2: CoroutineMgr starts the task again.
CoroutineMgr ==
    /\ pc = "ended"
    /\ TaskEnds("key")
    /\ UNCHANGED <<kind, workLock, key, ledger>>

(***************************************************************************)
(* The process stops and is started again: at any time, or because a       *)
(* goroutine of VerifyProof, which nothing recovers, indexes mht.HashMi    *)
(* out of range.                                                           *)
(***************************************************************************)
Stops ==
    /\ TaskEnds("key")
    /\ workLock' = "free"
    /\ UNCHANGED <<kind, key, ledger>>

VerifyCrash ==
    /\ pc = "loop" /\ More /\ ~ Full
    /\ kind[Current] = "short"
    /\ Stops

Restart == Stops

-----------------------------------------------------------------------------
(* The surroundings.                                                       *)

\* RequestAndSaveTag stores the key with the first tag; it never goes away.
KeyStored ==
    /\ key' = TRUE
    /\ UNCHANGED <<kind, task, workLock, ledger>>

\* storagefiller, backupFile and RequestAndSaveTag take workLock too.  They have
\* not to give it back: backupFile loses it when SendFile panics, and a transfer
\* or a tag request may not return.
OtherLock ==
    /\ workLock = "free"
    /\ workLock' = "other"
    /\ UNCHANGED <<kind, task, key, ledger>>

OtherUnlock ==
    /\ workLock = "other"
    /\ workLock' = "free"
    /\ UNCHANGED <<kind, task, key, ledger>>

\* External: the chain lists a new proof for this scheduler.
Challenge(p) ==
    /\ p \notin unverified
    /\ verdict[p] = "none"
    /\ unverified' = unverified \cup {p}
    /\ UNCHANGED <<kind, task, workLock, key, verdict, pending>>

\* External: a batch left in the pool is executed, with success or not.
Land ==
    /\ \E batch \in pending :
          /\ pending' = pending \ {batch}
          /\ Execute(batch) \/ UNCHANGED <<unverified, verdict>>
    /\ UNCHANGED <<kind, task, workLock, key>>

-----------------------------------------------------------------------------
Init ==
    /\ kind \in [Proofs -> Kinds]
    /\ pc = "key"
    /\ proofs = <<>> /\ i = 0 /\ verifyResults = <<>> /\ tryCount = 0
    /\ sent = <<>>
    /\ workLock = "free"
    /\ key \in BOOLEAN
    /\ unverified = {}
    /\ verdict = [p \in Proofs |-> "none"]
    /\ pending = {}

TaskStep ==
    \/ GetKey \/ GetProofs \/ Verify \/ SubmitFull \/ EndLoop
    \/ SubmitOk \/ SubmitFailed \/ SubmitNoHash
    \/ TaskPanic \/ VerifyCrash \/ CoroutineMgr

Next ==
    \/ TaskStep \/ Lock
    \/ KeyStored \/ OtherLock \/ OtherUnlock \/ Restart
    \/ \E p \in Proofs : Challenge(p)
    \/ Land

(***************************************************************************)
(* The task runs, its calls to the chain return, and sync.Mutex is fair; a *)
(* query made again and again is answered at last, an extrinsic sent again *)
(* and again succeeds at last.                                             *)
(***************************************************************************)
Fairness ==
    /\ WF_vars(TaskStep)
    /\ SF_vars(GetProofs)
    /\ SF_vars(Lock)
    /\ SF_vars(SubmitOk)

Spec == Init /\ [][Next]_vars /\ Fairness

-----------------------------------------------------------------------------
(* Properties.                                                             *)

Results == [proof : Proofs, result : BOOLEAN]

\* Every variable keeps its type.
TypeOK ==
    /\ kind \in [Proofs -> Kinds]
    /\ pc \in {"key", "get", "lock", "loop", "submit", "ended"}
    /\ proofs \in Seq(Proofs)
    /\ i \in 0..Len(proofs)
    /\ verifyResults \in Seq(Results)
    /\ tryCount \in 0..(MaxTry - 1)
    /\ workLock \in {"free", "validator", "other", "lost"}
    /\ sent \in Seq(Results)
    /\ key \in BOOLEAN
    /\ unverified \subseteq Proofs
    /\ verdict \in [Proofs -> {"none", "accepted", "rejected"}]
    /\ pending \subseteq SUBSET Results

Named(results) == [k \in 1..Len(results) |-> results[k].proof]

(***************************************************************************)
(* In a round every proof of the list is handed to SubmitProofResults once *)
(* and in order: none falls between a full batch and the next, none is in  *)
(* two, and the last, partial batch is not forgotten.                      *)
(***************************************************************************)
RoundCovered ==
    /\ pc = "loop" => Named(sent \o verifyResults) = SubSeq(proofs, 1, i)
    /\ pc = "submit" => Named(sent) = SubSeq(proofs, 1, i)
    /\ pc = "get" /\ proofs # <<>> => Named(sent) = proofs

Deserved(k) == IF k \in {"good", "malformed"} THEN "accepted" ELSE "rejected"

\* How the task uses workLock: see Mutex.  It holds it in the loop over the list,
\* full batches included, and not for the last one.
WorkLock == INSTANCE Mutex WITH
    Users <- {"validator", "other"},
    Careless <- {"validator"},
    state <- CASE workLock = "free" -> "free"
               [] workLock = "lost" -> "lost"
               [] OTHER -> "held",
    inside <- (IF pc = "loop" \/ (pc = "submit" /\ More) THEN {"validator"} ELSE {})
                  \cup (IF workLock = "other" THEN {"other"} ELSE {})

(***************************************************************************)
(* The task holds workLock while it verifies and while it submits a full   *)
(* batch, and unlocks it once before the last one.  Only its panic, which  *)
(* ends the task without a deferred Unlock, leaves it locked.              *)
(***************************************************************************)
WorkLockKept == WorkLock!Spec

\* What the chain sees is an audit: see ProofAudit.
Audit == INSTANCE ProofAudit WITH
            MaxBatch <- MaxResults,
            deserved <- [p \in Proofs |-> Deserved(kind[p])],
            open <- unverified

(***************************************************************************)
(* Retries, results left in the pool and executed rounds later, restarts   *)
(* and new proofs notwithstanding, verdicts reach the chain in batches of  *)
(* at most MaxResults, and each proof gets the one it deserves.            *)
(***************************************************************************)
ImplementsAudit == Audit!Spec

\* No other goroutine keeps workLock for ever, and the process is not restarted
\* for ever.
NothingHangs == []<>(workLock # "other") /\ ~ []<><<Restart>>_vars

(***************************************************************************)
(* "After obtaining the proof, each proof is verified" (README.md, feature *)
(* 3): once the key is there, a listed proof gets its verdict, as long as  *)
(* nothing it has to wait for hangs.                                       *)
(***************************************************************************)
EachProofVerified ==
    NothingHangs => \A p \in Proofs :
        (key /\ p \in unverified) ~> (p \notin unverified)

\* ... at least as long as no panic of this task has left workLock locked,
\* whatever becomes of the extrinsics, and with several batches in a round.
VerifiedUnlessLost ==
    NothingHangs => \A p \in Proofs :
        (key /\ p \in unverified) ~> (p \notin unverified \/ workLock = "lost")
=============================================================================
